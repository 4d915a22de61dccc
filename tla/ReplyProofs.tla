---------------------------- MODULE ReplyProofs ----------------------------
(***************************************************************************)
(* Proofs about the tasks, responses and replies of the server, on top of  *)
(* the ownership of connections: a task is freed once, a line is answered  *)
(* once, in order until the first timeout, and what a peer sees is a       *)
(* ReplyService.                                                           *)
(***************************************************************************)
EXTENDS ServerProofs, FiniteSetTheorems

(* The task is with the worker w, or with the thread t that just made it. *)
With(w, task) == wTask[w] = task
MadeBy(t, task) == ctPc[t] = "push" /\ ctTask[t] = task

(* Where the tasks are.  TasksFreedOnce, task by task; and a task stands   *)
(* for a line that was read, no two for the same.                          *)
TaskInv ==
    /\ IsFiniteSet(live)
    /\ \A a \in taskQ : a \in live
    /\ \A w \in Workers : wTask[w] # None => wTask[w] \in live /\ wTask[w] \notin taskQ
    /\ \A v, w \in Workers : v # w /\ wTask[v] # None => wTask[v] # wTask[w]
    /\ \A t \in ClientThreads :
         ctPc[t] = "push" =>
           /\ ctTask[t] \in live /\ ctTask[t] \notin taskQ
           /\ \A w \in Workers : wTask[w] # ctTask[t]
           /\ ctTask[t].client = ctConn[t] /\ ctTask[t].n = rd[ctConn[t]]
    /\ \A a \in live : a.n <= rd[a.client]
    /\ \A a, b \in live : a.client = b.client /\ a.n = b.n => a = b
    /\ failures = 0 /\ closed = {} =>
         \A a \in live : \/ a \in taskQ
                         \/ \E w \in Workers : With(w, a)
                         \/ \E t \in ClientThreads : MadeBy(t, a)

(* The task a has not led to a response yet; see InFlight. *)
Flying(a) ==
    \/ a \in taskQ
    \/ \E w \in Workers : wPc[w] \in {"find", "deliver"} /\ With(w, a)
    \/ \E t \in ClientThreads : MadeBy(t, a)

(* AnsweredOnce, with the queued responses q and the replies o kept apart; *)
(* r lines were read, and F are the tasks in flight.                       *)
Once(q, o, r, F) ==
    /\ \A i \in 1 .. Len(q) : q[i] <= r
    /\ \A i, j \in 1 .. Len(q) : i # j => q[i] # q[j]
    /\ \A i \in 1 .. Len(o) : o[i] <= r
    /\ \A i, j \in 1 .. Len(o) : o[i] > 0 /\ i # j => o[i] # o[j]
    /\ \A i \in 1 .. Len(q), j \in 1 .. Len(o) : q[i] # o[j]
    /\ \A a \in F : \A i \in 1 .. Len(q) : q[i] # a.n
    /\ \A a \in F : \A i \in 1 .. Len(o) : o[i] # a.n

AnswerInv == \A c \in Clients : Once(resp[c], out[c], rd[c], InFlight(c))

(* There are fewer replies than lines read while one is being answered. *)
CountInv ==
    \A c \in Clients :
      Len(out[c]) <= rd[c] /\ (Unanswered(c) => Len(out[c]) < rd[c])

NoTimeout(o) == \A i \in 1 .. Len(o) : o[i] # TimedOut

(* Until a timeout is reported or an allocation fails, what is on its way  *)
(* answers the line that was read last, which is being waited for.         *)
OrderInv ==
    \A c \in Clients :
      failures = 0 /\ NoTimeout(out[c]) =>
        /\ \A a \in InFlight(c) : Unanswered(c) /\ a.n = rd[c]
        /\ \A i \in 1 .. Len(resp[c]) : Unanswered(c) /\ resp[c][i] = rd[c]

(* The server never registered c, for want of memory, and has not found    *)
(* that out.                                                               *)
Unregistered(c) ==
    /\ entry[c] = "none"
    /\ \/ mainConn = c \/ c \in clientQ
       \/ \E t \in ClientThreads :
            ctConn[t] = c /\ ctPc[t] \in {"recv", "push", "log", "lookup"}

One(b) == IF b THEN 1 ELSE 0

(* BacklogBounded; the failed allocation that left c without an entry is   *)
(* still to be used up.                                                    *)
BacklogInv ==
    \A c \in Clients :
      Cardinality(InFlight(c)) + Len(resp[c]) + One(Unregistered(c))
        <= Timeouts(c) + failures + One(Unanswered(c))

(* What a peer may still see written after it has gone. *)
LateOf(c) ==
    /\ peer[c] # "gone" => late[c] = 0
    /\ Len(sent[c]) - Len(out[c]) + late[c] <= Pipeline

LateInv == \A c \in Clients : LateOf(c)
-----------------------------------------------------------------------------
(* The tasks                                                               *)

(* Steps that move no task. *)
TasksStay ==
    /\ UNCHANGED <<taskQ, wTask, live>>
    /\ \A t \in ClientThreads :
         /\ ctPc'[t] = "push" <=> ctPc[t] = "push"
         /\ ctPc[t] = "push" =>
              /\ ctTask'[t] = ctTask[t] /\ ctConn'[t] = ctConn[t]
              /\ rd'[ctConn[t]] = rd[ctConn[t]]
    /\ \A c \in Clients : rd[c] <= rd'[c]
    /\ failures' = 0 => failures = 0
    /\ closed' = {} => closed = {}

(* t reads a line of its connection, which concerns no other thread. *)
ReadOf(t) ==
    /\ ctConn[t] \in Clients
    /\ \A c \in Clients : rd'[c] = IF c = ctConn[t] THEN rd[c] + 1 ELSE rd[c]
    /\ \A u \in ClientThreads : u # t => ctConn[u] # ctConn[t]

LEMMA ReadFrame ==
  ASSUME OwnerInv, NEW t \in ClientThreads, ctPc[t] = "recv",
         rd' = [rd EXCEPT ![ctConn[t]] = rd[ctConn[t]] + 1]
  PROVE  ReadOf(t)
<1>1. CtTypes /\ SockTypes
  BY TypeParts DEF OwnerInv
<1>2. ctConn[t] # None
  BY DEF OwnerInv, Places
<1> QED BY <1>1, <1>2 DEF OwnerInv, Owned, CtTypes, SockTypes, ReadOf

LEMMA TaskCases ==
  ASSUME OwnerInv, Step
  PROVE  \/ TasksStay
         \/ \E t \in ClientThreads : CtReadCommand(t) \/ CtPush(t)
         \/ \E w \in Workers : WPop(w) \/ WFree(w)
<1>a. CtTypes /\ SockTypes /\ MemTypes /\ Places
  BY TypeParts DEF OwnerInv
<1>0. /\ CtTypes /\ SockTypes /\ MemTypes
      /\ \A t \in ClientThreads : ctPc[t] = "push" => ctConn[t] \in Clients
      /\ \A c \in Clients : rd[c] \in Nat
  BY <1>a DEF Places, CtTypes, SockTypes
<1>1. CASE Outside
  BY <1>0, <1>1 DEF Outside, TasksStay, SockTypes, queueVars, ctVars, wVars, memVars
<1>2. ASSUME NEW c \in Clients, MainAccept(c) PROVE TasksStay
  BY <1>0, <1>2 DEF MainAccept, register_client_response_queue, NoFailure, Fail, TasksStay,
                    SockTypes, MemTypes, queueVars, ctVars, wVars
<1>3. CASE MainNext
  BY <1>0, <1>3 DEF MainNext, MainPush, MainCloseClientQueue, MainCloseTaskQueue, MainExit,
                    NoFailure, Fail, TasksStay, SockTypes, MemTypes, queueVars, ctVars, wVars,
                    sockVars, memVars
<1>4. ASSUME NEW t \in ClientThreads, CtNext(t), ~ CtReadCommand(t), ~ CtPush(t)
      PROVE  TasksStay
  <2>1. CASE CtReadUnknown(t) \/ CtReadNoMemory(t)
    <3>1. /\ ctPc[t] = "recv" /\ rd' = [rd EXCEPT ![ctConn[t]] = rd[ctConn[t]] + 1]
          /\ UNCHANGED <<taskQ, wTask, live, ctPc, ctTask, ctConn, closed>>
          /\ failures' = 0 => failures = 0
      BY <1>0, <2>1 DEF CtReadUnknown, CtReadNoMemory, CtAt, Fail, MemTypes, mainVars,
                        queueVars, ctVars, wVars, memVars
    <3>2. ReadOf(t)
      BY <3>1, ReadFrame DEF ReadOf
    <3> QED BY <1>0, <3>1, <3>2 DEF ReadOf, TasksStay
  <2>2. CASE CtReadEnd(t)
    <3>1. /\ ctPc[t] = "recv" /\ ctPc' = [ctPc EXCEPT ![t] = "close"]
          /\ UNCHANGED <<taskQ, wTask, live, ctTask, ctConn, closed, failures>>
          /\ UNCHANGED rd \/ rd' = [rd EXCEPT ![ctConn[t]] = rd[ctConn[t]] + 1]
      BY <2>2 DEF CtReadEnd, CtAt, CtGoto, mainVars, queueVars, wVars, memVars
    <3>2. \A u \in ClientThreads : ctPc'[u] = "push" <=> ctPc[u] = "push"
      BY <1>0, <3>1 DEF CtTypes
    <3>3. UNCHANGED rd \/ ReadOf(t)
      BY <3>1, ReadFrame DEF ReadOf
    <3> QED BY <1>0, <3>1, <3>2, <3>3 DEF ReadOf, TasksStay
  <2>3. CASE CtPop(t) \/ CtLog(t) \/ CtLookup(t) \/ CtTake(t) \/ CtTimeout(t)
    <3>1. /\ ctPc[t] # "push" /\ UNCHANGED <<taskQ, wTask, live, rd, closed>>
          /\ failures' = 0 => failures = 0
      BY <1>0, <2>3 DEF CtPop, CtLog, CtLookup, CtTake, CtTimeout, CtAt, NoFailure, Fail,
                        MemTypes, mainVars, queueVars, wVars, sockVars, memVars
    <3>2. /\ ctPc'[t] # "push"
          /\ \A u \in ClientThreads :
               u # t => ctPc'[u] = ctPc[u] /\ ctConn'[u] = ctConn[u] /\ ctTask'[u] = ctTask[u]
      BY <1>0, <2>3 DEF CtPop, CtLog, CtLookup, CtTake, CtTimeout, CtGoto, CtTypes
    <3> QED BY <1>0, <3>1, <3>2 DEF TasksStay, SockTypes
  <2>4. CASE CtClose(t) \/ CtRemove(t) \/ CtCloseEntry(t) \/ CtFreeEntry(t)
    <3>1. ctPc[t] # "push" /\ UNCHANGED <<taskQ, wTask, live, rd, closed, failures>>
      BY <2>4 DEF CtClose, CtRemove, CtCloseEntry, CtFreeEntry, CtAt, mainVars, queueVars,
                  wVars, sockVars, memVars
    <3>2. /\ ctPc'[t] # "push"
          /\ \A u \in ClientThreads :
               u # t => ctPc'[u] = ctPc[u] /\ ctConn'[u] = ctConn[u] /\ ctTask'[u] = ctTask[u]
      BY <1>0, <2>4 DEF CtClose, CtRemove, CtCloseEntry, CtFreeEntry, CtGoto, CtTypes
    <3> QED BY <1>0, <3>1, <3>2 DEF TasksStay, SockTypes
  <2> QED BY <1>4, <2>1, <2>2, <2>3, <2>4 DEF CtNext
<1>5. ASSUME NEW w \in Workers, WFind(w) \/ WDeliver(w) PROVE TasksStay
  <2>1. /\ UNCHANGED <<taskQ, wTask, live, rd, closed, ctPc, ctTask, ctConn>>
        /\ failures' = 0 => failures = 0
    BY <1>0, <1>5 DEF WFind, WDeliver, NoFailure, Fail, MemTypes, mainVars, queueVars, ctVars,
                      sockVars
  <2> QED BY <1>0, <2>1 DEF TasksStay, SockTypes
<1> QED BY <1>1, <1>2, <1>3, <1>4, <1>5 DEF Step, WNext

LEMMA StepTasks ==
  ASSUME OwnerInv, TaskInv, Step
  PROVE  TaskInv'
<1>0. /\ CtTypes /\ QueueTypes /\ WTypes /\ SockTypes /\ MemTypes /\ Places
      /\ \A a \in live : a \in Task /\ a.client \in Clients /\ a.n \in Nat
  BY TypeParts DEF OwnerInv, MemTypes, Task
<1>1. \A c \in Clients : rd[c] \in Nat /\ rd'[c] \in Nat
  BY <1>0, OwnerStep DEF OwnerInv, TypeOK, SockTypes
<1>2. CASE TasksStay
  <2>1. \A a \in live : a.n <= rd'[a.client]
    BY <1>0, <1>1, <1>2 DEF TasksStay, TaskInv
  <2> QED BY <1>0, <1>2, <2>1 DEF TasksStay, TaskInv, With, MadeBy
<1>3. ASSUME NEW t \in ClientThreads, CtReadCommand(t) PROVE TaskInv'
  <2> DEFINE task == task_create(ctConn[t], rd[ctConn[t]] + 1)
  <2>1. /\ task \in Task /\ task # None
        /\ task.client = ctConn[t] /\ task.n = rd[ctConn[t]] + 1
    BY <1>3, CommandFacts DEF OwnerInv
  <2>2. /\ ctPc[t] = "recv" /\ ctPc' = [ctPc EXCEPT ![t] = "push"]
        /\ rd' = [rd EXCEPT ![ctConn[t]] = rd[ctConn[t]] + 1]
        /\ live' = live \cup {task}
        /\ ctTask' = [ctTask EXCEPT ![t] = task]
        /\ UNCHANGED <<taskQ, wTask, ctConn, failures, closed>>
    BY <1>3 DEF CtReadCommand, CtAt, CtGoto, mainVars, queueVars, wVars
  <2>3. ReadOf(t)
    BY <2>2, ReadFrame
  <2> HIDE DEF task
  <2>4. \A a \in live : a # task /\ (a.client = task.client => a.n # task.n)
    BY <1>0, <1>1, <2>1, <2>3 DEF TaskInv, ReadOf
  <2>5. IsFiniteSet(live')
    BY <2>2, FS_AddElement DEF TaskInv
  <2>6. \A a \in live' : a.n <= rd'[a.client]
    BY <1>0, <1>1, <2>1, <2>2, <2>3 DEF TaskInv, ReadOf
  <2>7. \A u \in ClientThreads :
          /\ ctPc'[u] = IF u = t THEN "push" ELSE ctPc[u]
          /\ ctTask'[u] = IF u = t THEN task ELSE ctTask[u]
    BY <1>0, <2>2 DEF CtTypes
  <2>8. ASSUME NEW u \in ClientThreads, ctPc'[u] = "push"
        PROVE  /\ ctTask'[u] \in live' /\ ctTask'[u] \notin taskQ'
               /\ \A w \in Workers : wTask'[w] # ctTask'[u]
               /\ ctTask'[u].client = ctConn'[u] /\ ctTask'[u].n = rd'[ctConn'[u]]
    <3>1. CASE u = t
      BY <2>1, <2>2, <2>3, <2>4, <2>7, <3>1 DEF TaskInv, ReadOf
    <3>2. CASE u # t
      <4>1. ctConn[u] \in Clients
        BY <1>0, <2>7, <2>8, <3>2 DEF Places, CtTypes
      <4> QED BY <2>2, <2>3, <2>7, <2>8, <3>2, <4>1 DEF TaskInv, ReadOf
    <3> QED BY <3>1, <3>2
  <2>9. failures' = 0 /\ closed' = {} =>
          \A a \in live' : \/ a \in taskQ'
                           \/ \E w \in Workers : With(w, a)'
                           \/ \E u \in ClientThreads : MadeBy(u, a)'
    BY <2>2, <2>7 DEF TaskInv, With, MadeBy
  <2>10. \A a, b \in live' : a.client = b.client /\ a.n = b.n => a = b
    BY <2>2, <2>4 DEF TaskInv
  <2> QED BY <2>2, <2>5, <2>6, <2>8, <2>9, <2>10 DEF TaskInv
<1>4. ASSUME NEW t \in ClientThreads, CtPush(t) PROVE TaskInv'
  <2>1. /\ ctPc[t] = "push" /\ ctPc' = [ctPc EXCEPT ![t] = "log"]
        /\ UNCHANGED <<wTask, live, ctTask, ctConn, rd, closed>>
        /\ \/ taskQ' = taskQ \cup {ctTask[t]} /\ UNCHANGED failures
           \/ UNCHANGED taskQ /\ (failures' # 0 \/ closed # {})
    BY <1>0, <1>4 DEF CtPush, CtAt, CtGoto, NoFailure, Fail, MemTypes, mainVars, wVars, sockVars
  <2>2. \A u \in ClientThreads : ctPc'[u] = IF u = t THEN "log" ELSE ctPc[u]
    BY <1>0, <2>1 DEF CtTypes
  <2>3. \A u \in ClientThreads : u # t /\ ctPc[u] = "push" => ctTask[u] # ctTask[t]
    <3>1. \A u \in ClientThreads : u # t => ctConn[u] # ctConn[t]
      BY <1>0, <2>1 DEF OwnerInv, Owned, Places
    <3> QED BY <2>1, <3>1 DEF TaskInv
  <2>4. ctTask[t] # None /\ ctTask[t] \in live /\ ctTask[t] \notin taskQ
    BY <1>0, <2>1 DEF TaskInv, Places
  <2> QED BY <2>1, <2>2, <2>3, <2>4 DEF TaskInv, With, MadeBy
<1>5. ASSUME NEW w \in Workers, WPop(w) PROVE TaskInv'
  <2>1. /\ wPc[w] = "pop" /\ UNCHANGED <<live, ctTask, ctConn, ctPc, rd, closed, failures>>
        /\ \/ \E a \in taskQ : taskQ' = taskQ \ {a} /\ wTask' = [wTask EXCEPT ![w] = a]
           \/ UNCHANGED <<taskQ, wTask>>
    BY <1>5 DEF WPop, WAt, mainVars, ctVars, sockVars, memVars
  <2>2. wTask[w] = None
    BY <1>0, <2>1 DEF Places
  <2>3. CASE UNCHANGED <<taskQ, wTask>>
    BY <2>1, <2>3 DEF TaskInv, With, MadeBy
  <2>4. ASSUME NEW a \in taskQ, taskQ' = taskQ \ {a}, wTask' = [wTask EXCEPT ![w] = a]
        PROVE  TaskInv'
    <3>1. \A v \in Workers : wTask'[v] = IF v = w THEN a ELSE wTask[v]
      BY <1>0, <2>4 DEF WTypes
    <3>2. a \in live /\ a # None
      BY <1>0, NoneAssumption DEF TaskInv, QueueTypes
    <3>3. \A v \in Workers : wTask'[v] # None => wTask'[v] \in live /\ wTask'[v] \notin taskQ'
      BY <2>4, <3>1, <3>2 DEF TaskInv
    <3>4. \A u, v \in Workers : u # v /\ wTask'[u] # None => wTask'[u] # wTask'[v]
      BY <3>1, <3>2 DEF TaskInv
    <3>5. \A t \in ClientThreads :
            ctPc[t] = "push" => ctTask[t] \notin taskQ' /\ \A v \in Workers : wTask'[v] # ctTask[t]
      BY <2>4, <3>1 DEF TaskInv
    <3>6. \A b \in live : \/ b \in taskQ \/ \E v \in Workers : wTask[v] = b
                       => \/ b \in taskQ' \/ \E v \in Workers : wTask'[v] = b
      BY <1>0, <2>2, <2>4, <3>1, NoneAssumption
    <3> QED BY <2>1, <2>4, <3>3, <3>4, <3>5, <3>6 DEF TaskInv, With, MadeBy
  <2> QED BY <2>1, <2>3, <2>4
<1>6. ASSUME NEW w \in Workers, WFree(w) PROVE TaskInv'
  <2>1. /\ wPc[w] = "free" /\ live' = live \ {wTask[w]}
        /\ wTask' = [wTask EXCEPT ![w] = None]
        /\ UNCHANGED <<taskQ, ctTask, ctConn, ctPc, rd, closed, failures>>
    BY <1>6 DEF WFree, WAt, mainVars, queueVars, ctVars, sockVars
  <2>2. wTask[w] # None
    BY <1>0, <2>1 DEF Places
  <2>3. \A v \in Workers : wTask'[v] = IF v = w THEN None ELSE wTask[v]
    BY <1>0, <2>1 DEF WTypes
  <2>4. IsFiniteSet(live')
    BY <2>1, FS_RemoveElement DEF TaskInv
  <2>5. \A t \in ClientThreads : ctPc[t] = "push" => ctTask[t] # None
    BY <1>0 DEF Places
  <2> QED BY <2>1, <2>2, <2>3, <2>4, <2>5 DEF TaskInv, With, MadeBy
<1> QED BY <1>2, <1>3, <1>4, <1>5, <1>6, TaskCases
-----------------------------------------------------------------------------
(* What a step does to one connection                                      *)

(* No task of c comes into flight. *)
Fewer(c) == \A a \in InFlight(c)' : a \in InFlight(c)

(* c gets no entry later, and does not lose its claim to one. *)
SameEntry(c) == Unregistered(c)' => Unregistered(c)

Reading(c) ==
    /\ rd'[c] = rd[c] + 1 /\ resp'[c] = resp[c]
    /\ ~ Unanswered(c) /\ SameEntry(c)

(* Nothing happens that concerns the replies to c. *)
Idle(c) ==
    /\ rd'[c] = rd[c] /\ resp'[c] = resp[c] /\ out'[c] = out[c]
    /\ Unanswered(c)' <=> Unanswered(c)
    /\ Fewer(c) /\ failures <= failures'
    /\ SameEntry(c) \/ failures < failures'

(* A command is read, *)
Command(c) ==
    /\ Reading(c) /\ out'[c] = out[c] /\ failures' = failures
    /\ Unanswered(c)'
    /\ \E a \in live' : /\ a.n = rd[c] + 1
                        /\ \A b \in InFlight(c)' : b \in InFlight(c) \/ b = a

(* or a line that gets no answer, *)
Skipped(c) ==
    /\ Reading(c) /\ out'[c] = out[c] /\ failures' = failures
    /\ ~ Unanswered(c)' /\ Fewer(c)

(* or one for which there is no memory. *)
Refused(c) ==
    /\ Reading(c) /\ out'[c] = Append(out[c], NoMemory) /\ failures' = failures + 1
    /\ ~ Unanswered(c)' /\ Fewer(c)

(* The wait for an answer ends: *)
Waited(c) ==
    /\ rd'[c] = rd[c] /\ Unanswered(c) /\ ~ Unanswered(c)'
    /\ Fewer(c) /\ SameEntry(c)

(* with a response, *)
Taken(c) ==
    /\ Waited(c) /\ failures' = failures
    /\ resp[c] # << >> /\ resp'[c] = AfterPop(resp[c])
    /\ out'[c] = Append(out[c], Head(resp[c]))

(* with a timeout, *)
Expired(c) ==
    /\ Waited(c) /\ failures' = failures
    /\ resp[c] = << >> /\ resp'[c] = << >> /\ out'[c] = Append(out[c], TimedOut)

(* with a timeout that there is no memory to report, *)
Silent(c) ==
    /\ Waited(c) /\ failures' = failures + 1 /\ resp'[c] = resp[c] /\ out'[c] = out[c]

(* or without an entry to wait at. *)
Lost(c) ==
    /\ Waited(c) /\ failures' = failures /\ failures # 0
    /\ resp'[c] = resp[c] /\ out'[c] = out[c]
    /\ Unregistered(c) /\ ~ Unregistered(c)'

(* The entry of c is freed. *)
Dropped(c) ==
    /\ rd'[c] = rd[c] /\ resp'[c] = << >> /\ out'[c] = out[c] /\ failures' = failures
    /\ ~ Unanswered(c) /\ ~ Unanswered(c)' /\ Fewer(c) /\ SameEntry(c)

(* A worker delivers a response. *)
Delivered(c) ==
    /\ rd'[c] = rd[c] /\ out'[c] = out[c] /\ failures' = failures
    /\ Unanswered(c)' <=> Unanswered(c)
    /\ SameEntry(c)
    /\ \E a \in InFlight(c) :
         /\ resp'[c] = Append(resp[c], a.n) /\ a.n <= rd[c]
         /\ \A b \in InFlight(c)' : b \in InFlight(c) /\ b.n # a.n

(* The steps of one connection. *)
Episode(c) ==
    \/ Idle(c) \/ Command(c) \/ Skipped(c) \/ Refused(c)
    \/ Taken(c) \/ Expired(c) \/ Silent(c) \/ Lost(c) \/ Dropped(c) \/ Delivered(c)

LEMMA WorkerCases ==
  ASSUME Step
  PROVE  UNCHANGED wPc \/ \E w \in Workers : WNext(w)
BY DEF Step, Outside, MainAccept, MainNext, MainPush, MainCloseClientQueue, MainCloseTaskQueue,
       MainExit, CtNext, CtPop, CtReadCommand, CtReadUnknown, CtReadNoMemory, CtReadEnd, CtPush,
       CtLog, CtLookup, CtTake, CtTimeout, CtClose, CtRemove, CtCloseEntry, CtFreeEntry, wVars

(* What is in flight comes from a line that is read, and from nowhere      *)
(* else.                                                                   *)
LEMMA FlyingCases ==
  ASSUME OwnerInv, TaskInv, Step
  PROVE  \/ \E t \in ClientThreads : CtReadCommand(t)
         \/ \A a \in live' : Flying(a)' => a \in live /\ Flying(a)
<1>0. CtTypes /\ QueueTypes /\ WTypes /\ Places
  BY TypeParts DEF OwnerInv
<1> SUFFICES ASSUME NEW a \in live', Flying(a)', \A t \in ClientThreads : ~ CtReadCommand(t)
             PROVE  a \in live /\ Flying(a)
  OBVIOUS
<1>1. CASE TasksStay /\ UNCHANGED wPc
  BY <1>1 DEF TasksStay, Flying, With, MadeBy
<1>2. ASSUME NEW t \in ClientThreads, CtPush(t) PROVE a \in live /\ Flying(a)
  <2>1. /\ ctPc[t] = "push" /\ ctPc' = [ctPc EXCEPT ![t] = "log"]
        /\ UNCHANGED <<wPc, wTask, live, ctTask>>
        /\ taskQ' \subseteq taskQ \cup {ctTask[t]}
    BY <1>2 DEF CtPush, CtAt, CtGoto, wVars
  <2> QED BY <1>0, <2>1 DEF Flying, With, MadeBy, CtTypes
<1>3. ASSUME NEW w \in Workers, WPop(w) PROVE a \in live /\ Flying(a)
  <2>1. /\ wPc[w] = "pop" /\ UNCHANGED <<live, ctTask, ctPc>>
        /\ \A v \in Workers : v # w => wPc'[v] = wPc[v] /\ wTask'[v] = wTask[v]
        /\ \/ wTask'[w] \in taskQ /\ taskQ' \subseteq taskQ
           \/ wPc'[w] = "done" /\ taskQ' = taskQ
    BY <1>0, <1>3 DEF WPop, WAt, WGoto, WTypes, ctVars, memVars
  <2> QED BY <2>1 DEF Flying, With, MadeBy
<1>4. ASSUME NEW w \in Workers, WFree(w) PROVE a \in live /\ Flying(a)
  <2>1. /\ live' \subseteq live /\ UNCHANGED <<taskQ, ctTask, ctPc>>
        /\ \A v \in Workers : v # w => wPc'[v] = wPc[v] /\ wTask'[v] = wTask[v]
        /\ wPc'[w] = "pop"
    BY <1>0, <1>4 DEF WFree, WGoto, WTypes, queueVars, ctVars
  <2> QED BY <2>1 DEF Flying, With, MadeBy
<1>5. ASSUME NEW w \in Workers, WFind(w) \/ WDeliver(w) PROVE a \in live /\ Flying(a)
  <2>1. /\ UNCHANGED <<live, taskQ, ctTask, ctPc, wTask>>
        /\ \A v \in Workers : v # w => wPc'[v] = wPc[v]
        /\ wPc[w] \in {"find", "deliver"}
    BY <1>0, <1>5 DEF WFind, WDeliver, WAt, WGoto, WTypes, queueVars, ctVars, memVars
  <2> QED BY <2>1 DEF Flying, With, MadeBy
<1> QED BY <1>1, <1>2, <1>3, <1>4, <1>5, TaskCases, WorkerCases DEF WNext

LEMMA InFlightIs ==
  ASSUME NEW c
  PROVE  /\ \A a : a \in InFlight(c) <=> Flying(a) /\ a.client = c
         /\ \A a : a \in InFlight(c)' <=> Flying(a)' /\ a.client = c
BY DEF InFlight, Flying, With, MadeBy

LEMMA FlyingLive ==
  ASSUME OwnerInv, TaskInv
  PROVE  \A a : Flying(a) => a \in live
<1>1. Places
  BY DEF OwnerInv
<1> QED BY <1>1 DEF Flying, TaskInv, With, MadeBy, Places

LEMMA FewerCases ==
  ASSUME OwnerInv, TaskInv, Step, NEW c
  PROVE  (\E t \in ClientThreads : CtReadCommand(t)) \/ Fewer(c)
<1>1. \A a : Flying(a)' => a \in live'
  <2>1. OwnerInv' /\ TaskInv'
    BY OwnerStep, StepTasks
  <2>2. Places'
    BY <2>1 DEF OwnerInv
  <2> QED BY <2>1, <2>2 DEF Flying, TaskInv, With, MadeBy, Places
<1> QED BY <1>1, FlyingCases, InFlightIs DEF Fewer

Answering == {"push", "log", "lookup", "wait"}

(* Only the thread t moves. *)
Alone(t) == \A u \in ClientThreads : u # t => ctPc'[u] = ctPc[u] /\ ctConn'[u] = ctConn[u]

LEMMA UnansweredCases ==
  ASSUME OwnerInv, NEW t \in ClientThreads, Alone(t), NEW c \in Clients
  PROVE  /\ ctConn[t] # c /\ (ctConn'[t] = c => ctPc'[t] \notin Answering)
              => (Unanswered(c)' <=> Unanswered(c))
         /\ ctConn[t] = c => (Unanswered(c) <=> ctPc[t] \in Answering)
         /\ ctConn[t] = c => (Unanswered(c)' <=> ctConn'[t] = c /\ ctPc'[t] \in Answering)
<1>1. \A u \in ClientThreads : u # t /\ ctConn[t] = c => ctConn[u] # c
  BY ServerAssumption DEF OwnerInv, Owned
<1> QED BY <1>1 DEF Unanswered, Alone, Answering

(* A thread that serves a connection has no rival for it. *)
LEMMA ServedAlone ==
  ASSUME OwnerInv, NEW t \in ClientThreads, ctPc[t] \notin {"pop", "done"}
  PROVE  /\ ctConn[t] \in Clients /\ ctConn[t] # mainConn /\ ctConn[t] \notin clientQ
         /\ \A u \in ClientThreads : u # t => ctConn[u] # ctConn[t]
<1>1. CtTypes
  BY TypeParts DEF OwnerInv
<1>2. ctConn[t] # None
  BY DEF OwnerInv, Places
<1> QED BY <1>1, <1>2 DEF OwnerInv, Owned, CtTypes

(* A thread that goes on with its connection *)
LEMMA ServeEntry ==
  ASSUME OwnerInv, NEW c \in Clients, NEW t \in ClientThreads,
         ctPc[t] \in {"recv", "push", "log", "lookup", "wait"},
         UNCHANGED <<entry, mainConn, clientQ, ctConn>>, Alone(t)
  PROVE  SameEntry(c)
<1>1. CASE ctConn[t] = c /\ ctPc[t] = "wait"
  BY <1>1 DEF OwnerInv, EntriesHeld, SameEntry, Unregistered
<1>2. CASE ctConn[t] = c /\ ctPc[t] # "wait"
  BY <1>2 DEF SameEntry, Unregistered
<1>3. CASE ctConn[t] # c
  BY <1>3 DEF SameEntry, Unregistered, Alone
<1> QED BY <1>1, <1>2, <1>3

(* and one that takes or leaves a connection. *)
LEMMA MoveEntry ==
  ASSUME OwnerInv, NEW c \in Clients, NEW t \in ClientThreads, Alone(t),
         entry'[c] = "none" => entry[c] = "none",
         UNCHANGED mainConn, clientQ' \subseteq clientQ,
         ctConn'[t] = c => c \in clientQ \/ ctPc'[t] \notin {"recv", "push", "log", "lookup"}
  PROVE  SameEntry(c)
BY DEF SameEntry, Unregistered, Alone

LEMMA ReadEpisode ==
  ASSUME OwnerInv, TaskInv, Step, NEW c \in Clients, NEW t \in ClientThreads,
         CtReadCommand(t) \/ CtReadUnknown(t) \/ CtReadNoMemory(t) \/ CtReadEnd(t)
  PROVE  Episode(c)
<1>0. CtTypes /\ SockTypes /\ MemTypes /\ ReplyTypes
  BY TypeParts DEF OwnerInv
<1>1. /\ ctPc[t] = "recv" /\ UNCHANGED <<entry, mainConn, clientQ, ctConn, resp>>
      /\ \E l \in {"recv", "push", "close"} : ctPc' = [ctPc EXCEPT ![t] = l]
      /\ failures <= failures'
  BY <1>0 DEF CtReadCommand, CtReadUnknown, CtReadNoMemory, CtReadEnd, CtAt, CtGoto, CtTypes, Fail,
              MemTypes, mainVars, queueVars, entryVars, ctVars, memVars
<1>2. Alone(t)
  BY <1>0, <1>1 DEF Alone, CtTypes
<1>3. SameEntry(c)
  BY <1>1, <1>2, ServeEntry
<1>4. ctConn[t] \in Clients /\ \A u \in ClientThreads : u # t => ctConn[u] # ctConn[t]
  BY <1>1, ServedAlone
<1>5. ASSUME ctConn[t] = c, rd' = [rd EXCEPT ![c] = rd[c] + 1]
      PROVE  Reading(c)
  <2>1. rd'[c] = rd[c] + 1
    BY <1>0, <1>5 DEF SockTypes
  <2>2. ~ Unanswered(c)
    BY <1>1, <1>2, <1>5, UnansweredCases DEF Answering
  <2> QED BY <1>1, <1>3, <2>1, <2>2 DEF Reading
<1>6. ASSUME ctConn[t] = c, ctPc'[t] # "push"
      PROVE  ~ Unanswered(c) /\ ~ Unanswered(c)'
  <2>1. ctPc'[t] \in {"recv", "close"}
    BY <1>0, <1>1, <1>6 DEF CtTypes
  <2> QED BY <1>1, <1>2, <1>6, <2>1, UnansweredCases DEF Answering
<1>7. CASE CtReadCommand(t)
  <2> DEFINE task == task_create(ctConn[t], rd[ctConn[t]] + 1)
  <2>1. /\ ctPc' = [ctPc EXCEPT ![t] = "push"]
        /\ ctTask' = [ctTask EXCEPT ![t] = task] /\ live' = live \cup {task}
        /\ UNCHANGED <<taskQ, wPc, wTask, out, failures>>
        /\ rd' = [rd EXCEPT ![ctConn[t]] = rd[ctConn[t]] + 1]
    BY <1>7 DEF CtReadCommand, CtGoto, queueVars, wVars, replyVars
  <2>2. task.client = ctConn[t] /\ task.n = rd[ctConn[t]] + 1
    BY <1>7, CommandFacts DEF OwnerInv
  <2> HIDE DEF task
  <2>3. \A a : Flying(a)' => Flying(a) \/ a = task
    BY <1>0, <2>1 DEF Flying, With, MadeBy, CtTypes
  <2>4. \A a \in InFlight(c)' : a \in InFlight(c) \/ (a = task /\ c = ctConn[t])
    BY <2>2, <2>3, InFlightIs
  <2>5. CASE c = ctConn[t]
    <3>1. Unanswered(c)'
      BY <1>0, <1>1, <1>2, <2>1, <2>5, UnansweredCases DEF Answering, CtTypes
    <3>2. Reading(c)
      BY <1>5, <2>1, <2>5
    <3> QED BY <2>1, <2>2, <2>4, <2>5, <3>1, <3>2 DEF Command, Episode
  <2>6. CASE c # ctConn[t]
    <3>1. Unanswered(c)' <=> Unanswered(c)
      BY <1>1, <1>2, <2>6, UnansweredCases
    <3>2. rd'[c] = rd[c] /\ Fewer(c)
      BY <1>0, <2>1, <2>4, <2>6 DEF SockTypes, Fewer
    <3> QED BY <1>1, <1>3, <2>1, <3>1, <3>2 DEF Idle, Episode
  <2> QED BY <2>5, <2>6
<1>8. CASE CtReadUnknown(t) \/ CtReadNoMemory(t) \/ CtReadEnd(t)
  <2>1. /\ ctPc'[t] # "push"
        /\ \/ rd' = [rd EXCEPT ![ctConn[t]] = rd[ctConn[t]] + 1] /\ UNCHANGED <<out, failures>>
           \/ UNCHANGED <<rd, out, failures>>
           \/ /\ rd' = [rd EXCEPT ![ctConn[t]] = rd[ctConn[t]] + 1]
              /\ Write(ctConn[t], NoMemory) /\ failures' = failures + 1
    BY <1>0, <1>1, <1>8 DEF CtReadUnknown, CtReadNoMemory, CtReadEnd, CtGoto, CtTypes, Fail,
                            replyVars, ctVars, memVars
  <2>2. /\ UNCHANGED out \/ out' = [out EXCEPT ![ctConn[t]] = Append(out[ctConn[t]], NoMemory)]
        /\ c # ctConn[t] => rd'[c] = rd[c]
    BY <1>0, <1>4, <2>1 DEF Write, SockTypes
  <2>3. Fewer(c)
    <3>1. UNCHANGED <<taskQ, wPc, wTask>>
      BY <1>8 DEF CtReadUnknown, CtReadNoMemory, CtReadEnd, queueVars, wVars
    <3>2. \A u \in ClientThreads : ctPc'[u] = "push" => ctPc[u] = "push" /\ ctTask'[u] = ctTask[u]
      BY <1>0, <1>1, <1>2, <1>8, <2>1 DEF CtReadUnknown, CtReadNoMemory, CtReadEnd, CtTypes, ctVars,
                                          Alone
    <3>3. \A a : Flying(a)' => Flying(a)
      BY <3>1, <3>2 DEF Flying, With, MadeBy
    <3> QED BY <3>3, InFlightIs DEF Fewer
  <2>4. CASE c # ctConn[t]
    <3>1. Unanswered(c)' <=> Unanswered(c)
      BY <1>1, <1>2, <2>4, UnansweredCases
    <3>2. out'[c] = out[c]
      BY <1>0, <1>4, <2>2, <2>4 DEF ReplyTypes
    <3> QED BY <1>1, <1>3, <2>2, <2>3, <2>4, <3>1, <3>2 DEF Idle, Episode
  <2>5. CASE c = ctConn[t]
    <3>1. ~ Unanswered(c) /\ ~ Unanswered(c)'
      BY <1>6, <2>1, <2>5
    <3>2. CASE UNCHANGED <<rd, out, failures>>
      BY <1>1, <1>3, <2>3, <3>1, <3>2 DEF Idle, Episode
    <3>3. CASE rd' = [rd EXCEPT ![ctConn[t]] = rd[ctConn[t]] + 1] /\ UNCHANGED <<out, failures>>
      BY <1>5, <2>3, <2>5, <3>1, <3>3 DEF Skipped, Episode
    <3>4. CASE /\ rd' = [rd EXCEPT ![ctConn[t]] = rd[ctConn[t]] + 1]
               /\ Write(ctConn[t], NoMemory) /\ failures' = failures + 1
      <4>1. out'[c] = Append(out[c], NoMemory)
        BY <1>0, <2>5, <3>4 DEF Write, ReplyTypes
      <4> QED BY <1>5, <2>3, <2>5, <3>1, <3>4, <4>1 DEF Refused, Episode
    <3> QED BY <2>1, <3>2, <3>3, <3>4
  <2> QED BY <2>4, <2>5
<1> QED BY <1>7, <1>8

LEMMA WaitEpisode ==
  ASSUME OwnerInv, TaskInv, Step, NEW c \in Clients, NEW t \in ClientThreads,
         CtPush(t) \/ CtLog(t) \/ CtLookup(t) \/ CtTake(t) \/ CtTimeout(t), Fewer(c)
  PROVE  Episode(c)
<1>0. CtTypes /\ EntryTypes /\ SockTypes /\ MemTypes /\ ReplyTypes
  BY TypeParts DEF OwnerInv
<1>1. /\ ctPc[t] \in Answering /\ UNCHANGED <<entry, mainConn, clientQ, ctConn, rd>>
      /\ \E l \in {"log", "lookup", "wait", "close", "recv"} : ctPc' = [ctPc EXCEPT ![t] = l]
      /\ failures <= failures'
  BY <1>0 DEF CtPush, CtLog, CtLookup, CtTake, CtTimeout, CtAt, CtGoto, Answering, NoFailure, Fail,
              MemTypes, mainVars, queueVars, entryVars, sockVars, memVars
<1>2. Alone(t)
  BY <1>0, <1>1 DEF Alone, CtTypes
<1>3. SameEntry(c)
  BY <1>1, <1>2, ServeEntry DEF Answering
<1>4. /\ ctConn[t] \in Clients /\ ctConn[t] # mainConn /\ ctConn[t] \notin clientQ
      /\ \A u \in ClientThreads : u # t => ctConn[u] # ctConn[t]
  BY <1>1, ServedAlone DEF Answering
<1>5. ASSUME c = ctConn[t], ctPc'[t] \in {"recv", "close"} PROVE Waited(c)
  <2>1. Unanswered(c) /\ ~ Unanswered(c)'
    BY <1>1, <1>2, <1>5, UnansweredCases DEF Answering
  <2> QED BY <1>1, <1>3, <2>1 DEF Waited
<1>6. CASE c # ctConn[t]
  <2>1. Unanswered(c)' <=> Unanswered(c)
    BY <1>1, <1>2, <1>6, UnansweredCases
  <2>2. resp'[c] = resp[c] /\ out'[c] = out[c]
    BY <1>0, <1>4, <1>6 DEF CtPush, CtLog, CtLookup, CtTake, CtTimeout, Write, EntryTypes, ReplyTypes,
                            entryVars, replyVars
  <2> QED BY <1>1, <1>3, <2>1, <2>2 DEF Idle, Episode
<1>7. CASE c = ctConn[t] /\ (CtPush(t) \/ CtLog(t) \/ (CtLookup(t) /\ c \in respMap))
  <2>1. ctPc'[t] \in Answering /\ UNCHANGED <<resp, out>>
    BY <1>0, <1>7 DEF CtPush, CtLog, CtLookup, CtGoto, Answering, CtTypes, entryVars, replyVars
  <2>2. Unanswered(c) /\ Unanswered(c)'
    BY <1>1, <1>2, <1>7, <2>1, UnansweredCases
  <2> QED BY <1>1, <1>3, <2>1, <2>2 DEF Idle, Episode
<1>8. CASE c = ctConn[t] /\ CtLookup(t) /\ c \notin respMap
  <2>1. /\ ctPc[t] = "lookup" /\ ctPc'[t] = "close" /\ UNCHANGED <<resp, out, failures>>
    BY <1>0, <1>8 DEF CtLookup, CtAt, CtGoto, CtTypes, entryVars, replyVars, memVars
  <2>2. Held(c)
    BY <1>8, <2>1 DEF Held, Owns
  <2>3. entry[c] = "none" /\ failures # 0
    BY <1>8, <2>2 DEF OwnerInv, NeverRegistered, Registered
  <2>4. Unregistered(c)
    BY <1>8, <2>1, <2>3 DEF Unregistered
  <2>5. ~ Unregistered(c)'
    BY <1>1, <1>2, <1>4, <1>8, <2>1 DEF Unregistered, Alone
  <2> QED BY <1>5, <1>8, <2>1, <2>3, <2>4, <2>5 DEF Lost, Episode
<1>9. CASE c = ctConn[t] /\ CtTake(t)
  <2>1. /\ ctPc'[t] = "recv" /\ UNCHANGED failures
        /\ resp[c] # << >> /\ resp' = [resp EXCEPT ![c] = AfterPop(resp[c])]
        /\ out' = [out EXCEPT ![c] = Append(out[c], Head(resp[c]))]
    BY <1>0, <1>9 DEF CtTake, CtGoto, CtTypes, Write, memVars
  <2>2. resp'[c] = AfterPop(resp[c]) /\ out'[c] = Append(out[c], Head(resp[c]))
    BY <1>0, <2>1 DEF EntryTypes, ReplyTypes
  <2> QED BY <1>5, <1>9, <2>1, <2>2 DEF Taken, Episode
<1>10. CASE c = ctConn[t] /\ CtTimeout(t)
  <2>1. /\ ctPc'[t] = "recv" /\ resp[c] = << >> /\ UNCHANGED resp
        /\ \/ out' = [out EXCEPT ![c] = Append(out[c], TimedOut)] /\ UNCHANGED failures
           \/ UNCHANGED out /\ failures' = failures + 1
    BY <1>0, <1>10 DEF CtTimeout, CtGoto, CtTypes, Write, NoFailure, Fail, entryVars, replyVars
  <2>2. Waited(c)
    BY <1>5, <1>10, <2>1
  <2>3. \/ out'[c] = Append(out[c], TimedOut) /\ failures' = failures
        \/ out'[c] = out[c] /\ failures' = failures + 1
    BY <1>0, <2>1 DEF ReplyTypes
  <2>4. Expired(c) \/ Silent(c)
    BY <2>1, <2>2, <2>3 DEF Expired, Silent
  <2> QED BY <2>4 DEF Episode
<1> QED BY <1>6, <1>7, <1>8, <1>9, <1>10

LEMMA CloseEpisode ==
  ASSUME OwnerInv, TaskInv, Step, NEW c \in Clients, NEW t \in ClientThreads,
         CtPop(t) \/ CtClose(t) \/ CtRemove(t) \/ CtCloseEntry(t) \/ CtFreeEntry(t), Fewer(c)
  PROVE  Episode(c)
<1>0. CtTypes /\ EntryTypes /\ SockTypes /\ MemTypes /\ ReplyTypes /\ QueueTypes
  BY TypeParts DEF OwnerInv
<1>1. /\ ctPc[t] \in {"pop", "close", "remove", "close_entry", "free_entry"}
      /\ ctPc'[t] \notin Answering
      /\ UNCHANGED <<out, rd, failures, mainConn>>
  BY <1>0 DEF CtPop, CtClose, CtRemove, CtCloseEntry, CtFreeEntry, CtAt, CtGoto, CtTypes,
              Answering, mainVars, sockVars, replyVars, memVars
<1>2. Alone(t)
  BY <1>0 DEF CtPop, CtClose, CtRemove, CtCloseEntry, CtFreeEntry, CtGoto, Alone, CtTypes
<1>3. SameEntry(c)
  <2>1. entry'[c] = "none" => entry[c] = "none"
    BY <1>0 DEF CtPop, CtClose, CtRemove, CtCloseEntry, CtFreeEntry, EntryTypes, entryVars
  <2>2. clientQ' \subseteq clientQ
    BY DEF CtPop, CtClose, CtRemove, CtCloseEntry, CtFreeEntry, queueVars
  <2>3. ctConn'[t] = c => c \in clientQ \/ ctPc'[t] \notin {"recv", "push", "log", "lookup"}
    BY <1>0 DEF CtPop, CtClose, CtRemove, CtCloseEntry, CtFreeEntry, CtGoto, CtTypes
  <2> QED BY <1>1, <1>2, <2>1, <2>2, <2>3, MoveEntry
<1>4. Unanswered(c)' <=> Unanswered(c)
  BY <1>1, <1>2, UnansweredCases DEF Answering
<1>5. CASE resp'[c] = resp[c]
  BY <1>0, <1>1, <1>3, <1>4, <1>5 DEF Idle, Episode, MemTypes
<1>6. CASE CtFreeEntry(t) /\ c = ctConn[t]
  <2>1. resp'[c] = << >>
    BY <1>0, <1>6 DEF CtFreeEntry, EntryTypes
  <2>2. ~ Unanswered(c)
    BY <1>1, <1>2, <1>6, UnansweredCases DEF Answering
  <2> QED BY <1>1, <1>3, <1>4, <2>1, <2>2 DEF Dropped, Episode
<1>7. resp'[c] = resp[c] \/ (CtFreeEntry(t) /\ c = ctConn[t])
  BY <1>0 DEF CtPop, CtClose, CtRemove, CtCloseEntry, CtFreeEntry, EntryTypes, entryVars
<1> QED BY <1>5, <1>6, <1>7

LEMMA WorkerEpisode ==
  ASSUME OwnerInv, TaskInv, Step, NEW c \in Clients, NEW w \in Workers, WNext(w), Fewer(c)
  PROVE  Episode(c)
<1>0. WTypes /\ EntryTypes /\ MemTypes
  BY TypeParts DEF OwnerInv
<1>1. UNCHANGED <<out, rd, entry, mainConn, clientQ, ctPc, ctConn>> /\ failures <= failures'
  BY <1>0 DEF WNext, WPop, WFind, WDeliver, WFree, NoFailure, Fail, MemTypes, mainVars, queueVars,
              entryVars, ctVars, sockVars, replyVars, memVars
<1>2. SameEntry(c) /\ (Unanswered(c)' <=> Unanswered(c))
  BY <1>1 DEF SameEntry, Unregistered, Unanswered
<1>3. CASE resp'[c] = resp[c]
  BY <1>1, <1>2, <1>3 DEF Idle, Episode
<1>4. CASE WDeliver(w) /\ resp'[c] # resp[c]
  <2>0. PICK a : a = wTask[w]
    OBVIOUS
  <2>1. /\ wPc[w] = "deliver" /\ wPc' = [wPc EXCEPT ![w] = "free"]
        /\ UNCHANGED <<wTask, taskQ, ctPc, ctTask, failures>>
        /\ resp' = [resp EXCEPT ![a.client] = Append(resp[a.client], a.n)]
    BY <1>4, <2>0 DEF WDeliver, WAt, WGoto, NoFailure, queueVars, ctVars
  <2>2. /\ a # None /\ a \in live /\ a \notin taskQ
        /\ \A v \in Workers : v # w => wTask[v] # a
        /\ \A t \in ClientThreads : ctPc[t] = "push" => a # ctTask[t]
    BY <2>0, <2>1 DEF OwnerInv, Places, TaskInv
  <2>3. \A v \in Workers : wPc'[v] = IF v = w THEN "free" ELSE wPc[v]
    BY <1>0, <2>1 DEF WTypes
  <2>4. ~ Flying(a)' /\ Flying(a)
    BY <2>0, <2>1, <2>2, <2>3 DEF Flying, With, MadeBy
  <2>5. a.client = c /\ resp'[c] = Append(resp[c], a.n)
    BY <1>0, <1>4, <2>1 DEF EntryTypes
  <2>6. a \in InFlight(c) /\ a \notin InFlight(c)' /\ a.n <= rd[c]
    BY <2>2, <2>4, <2>5, InFlightIs DEF TaskInv
  <2>7. \A b \in InFlight(c)' : b \in InFlight(c) /\ b.n # a.n
    <3> SUFFICES ASSUME NEW b \in InFlight(c)' PROVE b \in InFlight(c) /\ b.n # a.n
      OBVIOUS
    <3>1. b \in InFlight(c) /\ b # a
      BY <2>6 DEF Fewer
    <3>2. b \in live /\ b.client = c
      BY <3>1, InFlightIs, FlyingLive
    <3> QED BY <2>2, <2>5, <3>1, <3>2 DEF TaskInv
  <2> QED BY <1>1, <1>2, <2>1, <2>5, <2>6, <2>7 DEF Delivered, Episode
<1>5. WDeliver(w) \/ resp'[c] = resp[c]
  BY DEF WNext, WPop, WFind, WFree, entryVars
<1> QED BY <1>3, <1>4, <1>5

LEMMA Episodes ==
  ASSUME OwnerInv, TaskInv, Step
  PROVE  \A c \in Clients : Episode(c)
<1> SUFFICES ASSUME NEW c \in Clients PROVE Episode(c)
  OBVIOUS
<1>0. EntryTypes /\ MemTypes /\ MainTypes /\ SockTypes
  BY TypeParts DEF OwnerInv
<1>1. ASSUME UNCHANGED rd PROVE Fewer(c)
  <2>1. ASSUME NEW t \in ClientThreads, CtReadCommand(t) PROVE FALSE
    <3>1. ctPc[t] = "recv" /\ rd' = [rd EXCEPT ![ctConn[t]] = rd[ctConn[t]] + 1]
      BY <2>1 DEF CtReadCommand, CtAt
    <3> QED BY <1>0, <1>1, <3>1, ReadFrame DEF ReadOf, SockTypes
  <2> QED BY <2>1, FewerCases
<1>2. ASSUME NEW t \in ClientThreads, CtNext(t) PROVE Episode(c)
  <2>1. CASE CtReadCommand(t) \/ CtReadUnknown(t) \/ CtReadNoMemory(t) \/ CtReadEnd(t)
    BY <2>1, ReadEpisode
  <2>2. CASE CtPush(t) \/ CtLog(t) \/ CtLookup(t) \/ CtTake(t) \/ CtTimeout(t)
    <3>1. UNCHANGED rd
      BY <2>2 DEF CtPush, CtLog, CtLookup, CtTake, CtTimeout, sockVars
    <3> QED BY <1>1, <2>2, <3>1, WaitEpisode
  <2>3. CASE CtPop(t) \/ CtClose(t) \/ CtRemove(t) \/ CtCloseEntry(t) \/ CtFreeEntry(t)
    <3>1. UNCHANGED rd
      BY <2>3 DEF CtPop, CtClose, CtRemove, CtCloseEntry, CtFreeEntry, sockVars
    <3> QED BY <1>1, <2>3, <3>1, CloseEpisode
  <2> QED BY <1>2, <2>1, <2>2, <2>3 DEF CtNext
<1>3. ASSUME NEW w \in Workers, WNext(w) PROVE Episode(c)
  <2>1. UNCHANGED rd
    BY <1>3 DEF WNext, WPop, WFind, WDeliver, WFree, sockVars
  <2> QED BY <1>1, <1>3, <2>1, WorkerEpisode
<1>4. ASSUME UNCHANGED <<rd, resp, out, ctPc, ctConn>>, failures <= failures',
             SameEntry(c) \/ failures < failures'
      PROVE  Episode(c)
  <2>1. Unanswered(c)' <=> Unanswered(c)
    BY <1>4 DEF Unanswered
  <2> QED BY <1>1, <1>4, <2>1 DEF Idle, Episode
<1>5. CASE Outside
  <2>1. UNCHANGED <<rd, resp, out, ctPc, ctConn, failures, entry, mainConn, clientQ>>
    BY <1>5 DEF Outside, queueVars, entryVars, ctVars, replyVars, memVars
  <2> QED BY <1>0, <1>4, <2>1 DEF SameEntry, Unregistered, MemTypes
<1>6. CASE MainNext
  <2>1. /\ UNCHANGED <<rd, resp, out, ctPc, ctConn>> /\ failures <= failures'
        /\ entry'[c] = "none" => entry[c] = "none"
        /\ mainConn' \in {None, mainConn} /\ clientQ' \subseteq clientQ \cup {mainConn}
    BY <1>0, <1>6 DEF MainNext, MainPush, MainCloseClientQueue, MainCloseTaskQueue, MainExit,
                      NoFailure, Fail, EntryTypes, MemTypes, queueVars, entryVars, ctVars, sockVars,
                      replyVars, memVars
  <2> QED BY <1>4, <2>1, ServerAssumption DEF SameEntry, Unregistered
<1>7. ASSUME NEW d \in Clients, MainAccept(d) PROVE Episode(c)
  <2>1. /\ UNCHANGED <<rd, resp, out, ctPc, ctConn, clientQ>> /\ mainConn' = d
        /\ \/ entry' = [entry EXCEPT ![d] = "live"] /\ UNCHANGED failures
           \/ UNCHANGED entry /\ failures' = failures + 1
    BY <1>7 DEF MainAccept, register_client_response_queue, NoFailure, Fail, queueVars, ctVars,
                replyVars
  <2>2. failures <= failures' /\ (SameEntry(c) \/ failures < failures')
    BY <1>0, <2>1 DEF SameEntry, Unregistered, EntryTypes, MemTypes
  <2> QED BY <1>4, <2>1, <2>2
<1> QED BY <1>2, <1>3, <1>5, <1>6, <1>7 DEF Step
-----------------------------------------------------------------------------
(* Each line is answered once                                              *)

Replied == {TimedOut, NoMemory} \cup 1 .. MaxLines

LEMMA RespTypes ==
  ASSUME TypeOK, NEW c \in Clients
  PROVE  /\ resp[c] \in Seq(1 .. MaxLines) /\ out[c] \in Seq(Replied)
         /\ rd[c] \in Nat /\ failures \in Nat
BY DEF TypeOK, Replied

(* The elements of the two sequences are numbers. *)
LEMMA RespNumbers ==
  /\ \A q \in Seq(1 .. MaxLines) :
       Len(q) \in Nat /\ \A i \in 1 .. Len(q) : q[i] \in Int /\ q[i] > 0
  /\ \A o \in Seq(Replied) : Len(o) \in Nat /\ \A i \in 1 .. Len(o) : o[i] \in Int
<1>0. \A n \in 1 .. MaxLines : n \in Int /\ n > 0
  OBVIOUS
<1>1. ASSUME NEW q \in Seq(1 .. MaxLines)
      PROVE  Len(q) \in Nat /\ \A i \in 1 .. Len(q) : q[i] \in 1 .. MaxLines
  BY ElementOfSeq, LenProperties
<1>2. ASSUME NEW o \in Seq(Replied)
      PROVE  Len(o) \in Nat /\ \A i \in 1 .. Len(o) : o[i] \in Replied
  BY ElementOfSeq, LenProperties
<1>3. \A x \in Replied : x \in Int
  BY DEF Replied, TimedOut, NoMemory
<1> QED BY <1>0, <1>1, <1>2, <1>3

(* One reply more. *)
LEMMA AppendFacts ==
  ASSUME NEW S, NEW s \in Seq(S), NEW x
  PROVE  /\ Len(s) \in Nat /\ Len(Append(s, x)) = Len(s) + 1
         /\ \A i \in 1 .. Len(s) : Append(s, x)[i] = s[i]
         /\ Append(s, x)[Len(s) + 1] = x
OBVIOUS

LEMMA OnceLater ==
  ASSUME NEW q \in Seq(1 .. MaxLines), NEW o \in Seq(Replied), NEW r \in Nat, NEW s \in Nat,
         NEW F, NEW G, Once(q, o, r, F), r <= s,
         \A a \in G : a \in F \/ (a.n \in Int /\ a.n > r)
  PROVE  Once(q, o, s, G)
<1>1. \A i \in 1 .. Len(q) : q[i] \in Int /\ q[i] <= r
  BY RespNumbers DEF Once
<1>2. \A i \in 1 .. Len(o) : o[i] \in Int /\ o[i] <= r
  BY RespNumbers DEF Once
<1>3. \A a \in G : \A i \in 1 .. Len(q) : q[i] # a.n
  BY <1>1 DEF Once
<1>4. \A a \in G : \A i \in 1 .. Len(o) : o[i] # a.n
  BY <1>2 DEF Once
<1>5. \A i \in 1 .. Len(q) : q[i] <= s
  BY <1>1
<1>6. \A i \in 1 .. Len(o) : o[i] <= s
  BY <1>2
<1> QED BY <1>3, <1>4, <1>5, <1>6 DEF Once

LEMMA OnceReply ==
  ASSUME NEW q \in Seq(1 .. MaxLines), NEW o \in Seq(Replied), NEW r \in Nat, NEW F,
         Once(q, o, r, F), NEW x \in {TimedOut, NoMemory}, \A a \in F : a.n \in Nat \ {0}
  PROVE  Once(q, Append(o, x), r, F)
<1> DEFINE p == Append(o, x)
<1>1. /\ Len(o) \in Nat /\ Len(p) = Len(o) + 1
      /\ \A i \in 1 .. Len(o) : p[i] = o[i]
      /\ p[Len(o) + 1] = x
  BY AppendFacts
<1>2. x \in Int /\ x <= 0
  BY DEF TimedOut, NoMemory
<1>3. \A i \in 1 .. Len(q) : q[i] \in Int /\ q[i] > 0
  BY RespNumbers
<1>4. \A i \in 1 .. Len(o) : o[i] \in Int
  BY RespNumbers
<1> HIDE DEF p
<1>5. \A i \in 1 .. Len(p) : (i \in 1 .. Len(o) /\ p[i] = o[i]) \/ (i = Len(o) + 1 /\ p[i] = x)
  BY <1>1
<1>6. \A i \in 1 .. Len(p) : p[i] <= r
  BY <1>2, <1>4, <1>5 DEF Once
<1>7. \A i, j \in 1 .. Len(p) : p[i] > 0 /\ i # j => p[i] # p[j]
  BY <1>2, <1>4, <1>5 DEF Once
<1>8. \A i \in 1 .. Len(q), j \in 1 .. Len(p) : q[i] # p[j]
  BY <1>2, <1>3, <1>5 DEF Once
<1>9. \A a \in F : \A i \in 1 .. Len(p) : p[i] # a.n
  BY <1>2, <1>5 DEF Once
<1> QED BY <1>6, <1>7, <1>8, <1>9 DEF Once, p

LEMMA OnceTake ==
  ASSUME NEW q \in Seq(1 .. MaxLines), q # << >>, NEW o \in Seq(Replied), NEW r \in Nat, NEW F,
         Once(q, o, r, F)
  PROVE  Once(AfterPop(q), Append(o, Head(q)), r, F)
<1> DEFINE p == Append(o, Head(q))
           s == AfterPop(q)
<1>1. Head(q) = q[1] /\ Len(q) \in Nat \ {0}
  OBVIOUS
<1>2. /\ Len(o) \in Nat /\ Len(p) = Len(o) + 1
      /\ \A i \in 1 .. Len(o) : p[i] = o[i]
      /\ p[Len(o) + 1] = q[1]
  BY <1>1, AppendFacts
<1>3. /\ Len(s) = Len(q) - 1
      /\ \A i \in 1 .. Len(q) - 1 : s[i] = IF i = 1 THEN q[Len(q)] ELSE q[i]
  BY AfterPopFacts
<1>4. \A i \in 1 .. Len(q) : q[i] \in Int /\ q[i] > 0
  BY RespNumbers
<1> HIDE DEF p, s
<1>5. \A i \in 1 .. Len(p) : (i \in 1 .. Len(o) /\ p[i] = o[i]) \/ (i = Len(o) + 1 /\ p[i] = q[1])
  BY <1>2
<1>6. \A i \in 1 .. Len(s) :
        \E k \in 1 .. Len(q) : k # 1 /\ s[i] = q[k]
  <2> SUFFICES ASSUME NEW i \in 1 .. Len(s) PROVE \E k \in 1 .. Len(q) : k # 1 /\ s[i] = q[k]
    OBVIOUS
  <2>1. CASE i = 1
    BY <1>1, <1>3, <2>1
  <2>2. CASE i # 1
    BY <1>1, <1>3, <2>2
  <2> QED BY <2>1, <2>2
<1>7. 1 \in 1 .. Len(q)
  BY <1>1
<1>8. \A i \in 1 .. Len(s) : s[i] <= r
  BY <1>6 DEF Once
<1>9. \A i, j \in 1 .. Len(s) : i # j => s[i] # s[j]
  BY <1>1, <1>3 DEF Once
<1>10. \A i \in 1 .. Len(p) : p[i] <= r
  BY <1>5, <1>7 DEF Once
<1>11. \A i, j \in 1 .. Len(p) : p[i] > 0 /\ i # j => p[i] # p[j]
  BY <1>5, <1>7 DEF Once
<1>12. \A i \in 1 .. Len(s), j \in 1 .. Len(p) : s[i] # p[j]
  BY <1>5, <1>6, <1>7 DEF Once
<1>13. \A a \in F : \A i \in 1 .. Len(s) : s[i] # a.n
  BY <1>6 DEF Once
<1>14. \A a \in F : \A i \in 1 .. Len(p) : p[i] # a.n
  BY <1>5, <1>7 DEF Once
<1> QED BY <1>8, <1>9, <1>10, <1>11, <1>12, <1>13, <1>14 DEF Once, p, s

LEMMA OnceDeliver ==
  ASSUME NEW q \in Seq(1 .. MaxLines), NEW o \in Seq(Replied), NEW r \in Nat, NEW F, NEW G,
         Once(q, o, r, F), NEW a \in F, a.n <= r, \A b \in G : b \in F /\ b.n # a.n
  PROVE  Once(Append(q, a.n), o, r, G)
<1> DEFINE p == Append(q, a.n)
<1>1. /\ Len(q) \in Nat /\ Len(p) = Len(q) + 1
      /\ \A i \in 1 .. Len(q) : p[i] = q[i]
      /\ p[Len(q) + 1] = a.n
  BY AppendFacts
<1> HIDE DEF p
<1>2. \A i \in 1 .. Len(p) : (i \in 1 .. Len(q) /\ p[i] = q[i]) \/ (i = Len(q) + 1 /\ p[i] = a.n)
  BY <1>1
<1>3. \A i \in 1 .. Len(p) : p[i] <= r
  BY <1>2 DEF Once
<1>4. \A i, j \in 1 .. Len(p) : i # j => p[i] # p[j]
  BY <1>2 DEF Once
<1>5. \A i \in 1 .. Len(p), j \in 1 .. Len(o) : p[i] # o[j]
  BY <1>2 DEF Once
<1>6. \A b \in G : \A i \in 1 .. Len(p) : p[i] # b.n
  BY <1>2 DEF Once
<1> QED BY <1>3, <1>4, <1>5, <1>6 DEF Once, p

LEMMA StepAnswers ==
  ASSUME OwnerInv, TaskInv, AnswerInv, Step
  PROVE  AnswerInv'
<1> SUFFICES ASSUME NEW c \in Clients PROVE Once(resp'[c], out'[c], rd'[c], InFlight(c)')
  BY DEF AnswerInv
<1> DEFINE q == resp[c]
           o == out[c]
           r == rd[c]
           F == InFlight(c)
           G == InFlight(c)'
<1>1. q \in Seq(1 .. MaxLines) /\ o \in Seq(Replied) /\ r \in Nat
  BY RespTypes DEF OwnerInv
<1>2. Once(q, o, r, F)
  BY DEF AnswerInv
<1>3. \A a \in F : a.n \in Nat \ {0}
  <2>1. \A a \in live : a.n \in Nat \ {0}
    BY DEF OwnerInv, TypeOK, Task
  <2> QED BY <2>1, InFlightIs, FlyingLive
<1>4. Episode(c)
  BY Episodes
<1>5. \A a \in F : a \in F \/ (a.n \in Int /\ a.n > r)
  OBVIOUS
<1> HIDE DEF q, o, r, F, G
<1>6. CASE Idle(c) \/ Command(c) \/ Skipped(c)
  <2>1. /\ resp'[c] = q /\ out'[c] = o /\ rd'[c] \in {r, r + 1}
        /\ \A a \in G : a \in F \/ a.n = r + 1
    BY <1>6 DEF Idle, Command, Skipped, Reading, Fewer, q, o, r, F, G
  <2>2. rd'[c] \in Nat /\ r <= rd'[c] /\ \A a \in G : a \in F \/ (a.n \in Int /\ a.n > r)
    BY <1>1, <2>1
  <2>3. Once(q, o, rd'[c], G)
    BY <1>1, <1>2, <2>2, OnceLater
  <2> QED BY <2>1, <2>3 DEF G
<1>7. ASSUME NEW x \in {TimedOut, NoMemory}, resp'[c] = q, out'[c] = Append(o, x),
             rd'[c] \in {r, r + 1}, \A a \in G : a \in F
      PROVE  Once(resp'[c], out'[c], rd'[c], G)
  <2>1. rd'[c] \in Nat /\ r <= rd'[c]
    BY <1>1, <1>7
  <2>2. Once(q, o, rd'[c], G)
    BY <1>1, <1>2, <1>7, <2>1, OnceLater
  <2>3. \A a \in G : a.n \in Nat \ {0}
    BY <1>3, <1>7
  <2> HIDE DEF G
  <2>4. Once(q, Append(o, x), rd'[c], G)
    BY <1>1, <2>1, <2>2, <2>3, OnceReply
  <2> QED BY <1>7, <2>4
<1>8. CASE Refused(c) \/ Expired(c)
  BY <1>7, <1>8 DEF Refused, Expired, Reading, Waited, Fewer, q, o, r, F, G
<1>9. CASE Silent(c) \/ Lost(c)
  <2>1. resp'[c] = q /\ out'[c] = o /\ rd'[c] = r /\ \A a \in G : a \in F
    BY <1>9 DEF Silent, Lost, Waited, Fewer, q, o, r, F, G
  <2>2. Once(q, o, r, G)
    BY <1>1, <1>2, <2>1, OnceLater
  <2> QED BY <2>1, <2>2 DEF G
<1>10. CASE Dropped(c)
  <2>1. resp'[c] = << >> /\ out'[c] = o /\ rd'[c] = r /\ \A a \in G : a \in F
    BY <1>10 DEF Dropped, Fewer, q, o, r, F, G
  <2>2. Once(<< >>, o, r, G)
    BY <1>2, <2>1 DEF Once
  <2> QED BY <2>1, <2>2 DEF G
<1>11. CASE Taken(c)
  <2>1. /\ q # << >> /\ resp'[c] = AfterPop(q) /\ out'[c] = Append(o, Head(q)) /\ rd'[c] = r
        /\ \A a \in G : a \in F
    BY <1>11 DEF Taken, Waited, Fewer, q, o, r, F, G
  <2>2. Once(q, o, r, G)
    BY <1>1, <1>2, <2>1, OnceLater
  <2> QED BY <1>1, <2>1, <2>2, OnceTake DEF G
<1>12. CASE Delivered(c)
  <2>1. PICK a \in F : /\ resp'[c] = Append(q, a.n) /\ a.n <= r
                       /\ \A b \in G : b \in F /\ b.n # a.n
    BY <1>12 DEF Delivered, q, r, F, G
  <2>2. out'[c] = o /\ rd'[c] = r
    BY <1>12 DEF Delivered, o, r
  <2>3. Once(Append(q, a.n), o, r, G)
    BY <1>1, <1>2, <2>1, OnceDeliver
  <2> QED BY <2>1, <2>2, <2>3 DEF G
<1> QED BY <1>4, <1>6, <1>8, <1>9, <1>10, <1>11, <1>12 DEF Episode, G
-----------------------------------------------------------------------------
(* The number of replies, and their order                                  *)

LEMMA StepCount ==
  ASSUME OwnerInv, TaskInv, CountInv, Step
  PROVE  CountInv'
<1> SUFFICES ASSUME NEW c \in Clients
             PROVE  Len(out'[c]) <= rd'[c] /\ (Unanswered(c)' => Len(out'[c]) < rd'[c])
  BY DEF CountInv
<1> DEFINE k == Len(out[c])
           r == rd[c]
<1>1. k \in Nat /\ r \in Nat /\ out[c] \in Seq(Replied)
  BY RespTypes, RespNumbers DEF OwnerInv
<1>2. k <= r /\ (Unanswered(c) => k < r)
  BY DEF CountInv
<1>3. Episode(c)
  BY Episodes
<1>4. \A x : Len(Append(out[c], x)) = k + 1
  BY <1>1, AppendFacts
<1>5. Len(out'[c]) = k \/ Len(out'[c]) = k + 1
  BY <1>3, <1>4 DEF Episode, Idle, Command, Skipped, Refused, Taken, Expired, Silent, Lost, Dropped,
                    Delivered
<1>6. CASE Idle(c) \/ Dropped(c) \/ Delivered(c)
  BY <1>1, <1>2, <1>6 DEF Idle, Dropped, Delivered
<1>7. CASE Command(c) \/ Skipped(c)
  BY <1>1, <1>2, <1>7 DEF Command, Skipped, Reading
<1>8. CASE Refused(c)
  BY <1>1, <1>2, <1>5, <1>8 DEF Refused, Reading
<1>9. CASE Taken(c) \/ Expired(c) \/ Silent(c) \/ Lost(c)
  BY <1>1, <1>2, <1>5, <1>9 DEF Taken, Expired, Silent, Lost, Waited
<1> QED BY <1>3, <1>6, <1>7, <1>8, <1>9 DEF Episode

(* Where a step may lead without a failed allocation or a timeout. *)
LEMMA InOrderCases ==
  ASSUME OwnerInv, TaskInv, Step, NEW c \in Clients, failures' = 0, NoTimeout(out'[c])
  PROVE  /\ failures = 0 /\ NoTimeout(out[c])
         /\ Idle(c) \/ Command(c) \/ Skipped(c) \/ Taken(c) \/ Dropped(c) \/ Delivered(c)
<1>1. failures \in Nat /\ out[c] \in Seq(Replied)
  BY RespTypes DEF OwnerInv
<1>2. Episode(c)
  BY Episodes
<1>3. failures = 0 /\ ~ Refused(c) /\ ~ Silent(c) /\ ~ Lost(c)
  BY <1>1, <1>2 DEF Episode, Idle, Command, Skipped, Refused, Taken, Expired, Silent, Lost, Dropped,
                    Delivered
<1>4. ASSUME NEW x, out'[c] = Append(out[c], x)
      PROVE  x # TimedOut /\ NoTimeout(out[c])
  <2>1. /\ Len(out[c]) \in Nat /\ Len(out'[c]) = Len(out[c]) + 1
        /\ \A i \in 1 .. Len(out[c]) : out'[c][i] = out[c][i]
        /\ out'[c][Len(out[c]) + 1] = x
    BY <1>1, <1>4, AppendFacts
  <2>2. \A i \in 1 .. Len(out[c]) : i \in 1 .. Len(out'[c])
    BY <2>1
  <2>3. Len(out[c]) + 1 \in 1 .. Len(out'[c])
    BY <2>1
  <2> QED BY <2>1, <2>2, <2>3 DEF NoTimeout
<1>5. ~ Expired(c)
  BY <1>4 DEF Expired
<1>6. Taken(c) => NoTimeout(out[c])
  BY <1>4 DEF Taken
<1>7. Idle(c) \/ Command(c) \/ Skipped(c) \/ Dropped(c) \/ Delivered(c) => NoTimeout(out[c])
  BY DEF Idle, Command, Skipped, Dropped, Delivered
<1> QED BY <1>2, <1>3, <1>5, <1>6, <1>7 DEF Episode

LEMMA StepOrder ==
  ASSUME OwnerInv, TaskInv, AnswerInv, OrderInv, Step
  PROVE  OrderInv'
<1> SUFFICES ASSUME NEW c \in Clients, failures' = 0, NoTimeout(out'[c])
             PROVE  /\ \A a \in InFlight(c)' : Unanswered(c)' /\ a.n = rd'[c]
                    /\ \A i \in 1 .. Len(resp'[c]) : Unanswered(c)' /\ resp'[c][i] = rd'[c]
  BY DEF OrderInv, NoTimeout
<1>1. Idle(c) \/ Command(c) \/ Skipped(c) \/ Taken(c) \/ Dropped(c) \/ Delivered(c)
  BY InOrderCases
<1>2. /\ \A a \in InFlight(c) : Unanswered(c) /\ a.n = rd[c]
      /\ \A i \in 1 .. Len(resp[c]) : Unanswered(c) /\ resp[c][i] = rd[c]
  BY InOrderCases DEF OrderInv
<1>3. /\ resp[c] \in Seq(1 .. MaxLines) /\ Once(resp[c], out[c], rd[c], InFlight(c))
      /\ Len(resp[c]) \in Nat
  BY RespTypes, RespNumbers DEF OwnerInv, AnswerInv
<1>4. CASE Idle(c)
  BY <1>2, <1>4 DEF Idle, Fewer
<1>5. CASE Command(c)
  BY <1>2, <1>5 DEF Command, Reading
<1>6. CASE Skipped(c)
  BY <1>2, <1>6 DEF Skipped, Reading, Fewer
<1>7. CASE Dropped(c)
  BY <1>2, <1>7 DEF Dropped, Fewer
<1>8. CASE Taken(c)
  <2>1. /\ resp[c] # << >> /\ resp'[c] = AfterPop(resp[c])
        /\ \A a \in InFlight(c)' : a \in InFlight(c)
    BY <1>8 DEF Taken, Waited, Fewer
  <2>2. Len(resp[c]) # 0 /\ 1 \in 1 .. Len(resp[c])
    BY <1>3, <2>1
  <2>3. \A a \in InFlight(c)' : FALSE
    BY <1>2, <1>3, <2>1, <2>2 DEF Once
  <2>4. Len(resp[c]) = 1
    <3> DEFINE k == Len(resp[c])
    <3>1. k \in Nat /\ k # 0 /\ ~ (2 \in 1 .. k)
      BY <1>2, <1>3, <2>2 DEF Once
    <3> HIDE DEF k
    <3>2. k = 1
      BY <3>1
    <3> QED BY <3>2 DEF k
  <2>5. Len(resp'[c]) = 0
    BY <2>1, <2>4 DEF AfterPop
  <2> QED BY <2>3, <2>5
<1>9. CASE Delivered(c)
  <2>1. PICK a \in InFlight(c) : /\ resp'[c] = Append(resp[c], a.n)
                                 /\ \A b \in InFlight(c)' : b \in InFlight(c)
    BY <1>9 DEF Delivered
  <2>2. /\ Len(resp'[c]) = Len(resp[c]) + 1
        /\ \A i \in 1 .. Len(resp[c]) : resp'[c][i] = resp[c][i]
        /\ resp'[c][Len(resp[c]) + 1] = a.n
    BY <1>3, <2>1, AppendFacts
  <2>3. \A i \in 1 .. Len(resp'[c]) : i \in 1 .. Len(resp[c]) \/ i = Len(resp[c]) + 1
    BY <1>3, <2>2
  <2> QED BY <1>2, <1>9, <2>1, <2>2, <2>3 DEF Delivered
<1> QED BY <1>1, <1>4, <1>5, <1>6, <1>7, <1>8, <1>9
-----------------------------------------------------------------------------
(* How many responses pile up                                              *)

TimeoutsIn(o) == Cardinality({i \in DOMAIN o : o[i] = TimedOut})

(* One timeout more or the same number. *)
LEMMA CountTimeouts ==
  ASSUME NEW o \in Seq(Replied), NEW x
  PROVE  /\ IsFiniteSet({i \in DOMAIN o : o[i] = TimedOut})
         /\ TimeoutsIn(o) \in Nat
         /\ TimeoutsIn(Append(o, x)) = TimeoutsIn(o) + (IF x = TimedOut THEN 1 ELSE 0)
<1> DEFINE p == Append(o, x)
           S == {i \in DOMAIN o : o[i] = TimedOut}
           T == {i \in DOMAIN p : p[i] = TimedOut}
           k == Len(o)
<1>1. /\ k \in Nat /\ DOMAIN o = 1 .. k /\ DOMAIN p = 1 .. k + 1
      /\ \A i \in 1 .. k : p[i] = o[i]
      /\ p[k + 1] = x
  OBVIOUS
<1>2. IsFiniteSet(S) /\ Cardinality(S) \in Nat
  <2>1. IsFiniteSet(1 .. k) /\ S \subseteq 1 .. k
    BY <1>1, FS_Interval
  <2> QED BY <2>1, FS_Subset, FS_CardinalityType
<1>3. k + 1 \notin S
  BY <1>1
<1> HIDE DEF p, k
<1>4. T = IF x = TimedOut THEN S \cup {k + 1} ELSE S
  BY <1>1
<1> HIDE DEF S, T
<1>5. Cardinality(T) = Cardinality(S) + (IF x = TimedOut THEN 1 ELSE 0)
  <2>1. Cardinality(S \cup {k + 1}) = Cardinality(S) + 1
    BY <1>2, <1>3, FS_AddElement, Zenon
  <2> QED BY <1>2, <1>4, <2>1 DEF One
<1> QED BY <1>2, <1>5 DEF S, T, p, TimeoutsIn

LEMMA StepBacklog ==
  ASSUME OwnerInv, TaskInv, BacklogInv, Step
  PROVE  BacklogInv'
<1> SUFFICES ASSUME NEW c \in Clients
             PROVE  Cardinality(InFlight(c)') + Len(resp'[c]) + One(Unregistered(c)')
                      <= Timeouts(c)' + failures' + One(Unanswered(c)')
  BY DEF BacklogInv, One
<1> DEFINE F == InFlight(c)
           G == InFlight(c)'
           k == Len(resp[c])
           T == Timeouts(c)
           f == failures
           U == One(Unregistered(c))
           A == One(Unanswered(c))
<1>1. /\ f \in Nat /\ failures' \in Nat /\ resp[c] \in Seq(1 .. MaxLines) /\ out[c] \in Seq(Replied)
      /\ k \in Nat /\ Len(<< >>) = 0
  <2>1. failures' \in Nat
    BY OwnerStep DEF OwnerInv, TypeOK
  <2> QED BY <2>1, RespTypes, RespNumbers DEF OwnerInv
<1>2. IsFiniteSet(F) /\ Cardinality(F) \in Nat
  <2>1. F \subseteq live
    BY InFlightIs, FlyingLive
  <2> QED BY <2>1, FS_Subset, FS_CardinalityType DEF TaskInv
<1>3. T \in Nat /\ \A x : out'[c] = Append(out[c], x) => Timeouts(c)' = T + (IF x = TimedOut THEN 1 ELSE 0)
  <2>1. T = TimeoutsIn(out[c]) /\ Timeouts(c)' = TimeoutsIn(out'[c])
    BY DEF Timeouts, TimeoutsIn
  <2> QED BY <1>1, <2>1, CountTimeouts
<1>4. out'[c] = out[c] => Timeouts(c)' = T
  BY DEF Timeouts
<1>5. Cardinality(F) + k + U <= T + f + A
  BY DEF BacklogInv
<1>6. Fewer(c) => Cardinality(G) \in Nat /\ Cardinality(G) <= Cardinality(F)
  BY <1>2, FS_Subset, FS_CardinalityType DEF Fewer
<1>7. /\ U = IF Unregistered(c) THEN 1 ELSE 0
      /\ A = IF Unanswered(c) THEN 1 ELSE 0
      /\ One(Unregistered(c)') = IF Unregistered(c)' THEN 1 ELSE 0
      /\ One(Unanswered(c)') = IF Unanswered(c)' THEN 1 ELSE 0
  BY DEF One
<1>8. Episode(c)
  BY Episodes
<1> HIDE DEF F, G, k, T, f, U, A
<1>9. CASE Idle(c)
  BY <1>1, <1>2, <1>3, <1>4, <1>5, <1>6, <1>7, <1>9 DEF Idle, SameEntry, f, k, G
<1>10. CASE Command(c)
  <2>1. PICK a : \A b \in G : b \in F \/ b = a
    BY <1>10 DEF Command, F, G
  <2>2. Cardinality(G) \in Nat /\ Cardinality(G) <= Cardinality(F) + 1
    <3>0. /\ IsFiniteSet(F \cup {a})
          /\ Cardinality(F \cup {a}) = IF a \in F THEN Cardinality(F) ELSE Cardinality(F) + 1
      BY <1>2, FS_AddElement, Zenon
    <3>1. IsFiniteSet(F \cup {a}) /\ Cardinality(F \cup {a}) <= Cardinality(F) + 1
      BY <1>2, <3>0
    <3>2. Cardinality(F \cup {a}) \in Nat
      BY <3>1, FS_CardinalityType
    <3>3. G \subseteq F \cup {a}
      BY <2>1
    <3>4. Cardinality(G) \in Nat /\ Cardinality(G) <= Cardinality(F \cup {a})
      BY <3>1, <3>3, FS_Subset, FS_CardinalityType
    <3> QED BY <1>2, <3>1, <3>2, <3>4
  <2> QED BY <1>1, <1>2, <1>3, <1>4, <1>5, <1>7, <1>10, <2>2
          DEF Command, Reading, SameEntry, f, k, G
<1>11. CASE Skipped(c)
  BY <1>1, <1>2, <1>3, <1>4, <1>5, <1>6, <1>7, <1>11 DEF Skipped, Reading, SameEntry, f, k, G
<1>12. CASE Refused(c)
  <2>1. Timeouts(c)' = T
    BY <1>3, <1>12 DEF Refused, One, TimedOut, NoMemory
  <2> QED BY <1>1, <1>2, <1>3, <1>5, <1>6, <1>7, <1>12, <2>1
          DEF Refused, Reading, SameEntry, f, k, G
<1>13. CASE Taken(c)
  <2>1. Len(resp'[c]) = k - 1
    BY <1>1, <1>13, AfterPopFacts DEF Taken, k
  <2>2. Timeouts(c)' = T
    <3>1. Head(resp[c]) = resp[c][1] /\ 1 \in 1 .. Len(resp[c])
      BY <1>1, <1>13 DEF Taken
    <3>2. Head(resp[c]) # TimedOut
      BY <1>1, <3>1, RespNumbers DEF TimedOut
    <3> QED BY <1>3, <1>13, <3>2 DEF Taken, One
  <2> QED BY <1>1, <1>2, <1>3, <1>5, <1>6, <1>7, <1>13, <2>1, <2>2
          DEF Taken, Waited, SameEntry, f, G
<1>14. CASE Expired(c)
  <2>1. Timeouts(c)' = T + 1
    BY <1>3, <1>14 DEF Expired, One
  <2> QED BY <1>1, <1>2, <1>3, <1>5, <1>6, <1>7, <1>14, <2>1
          DEF Expired, Waited, SameEntry, f, k, G
<1>15. CASE Silent(c)
  BY <1>1, <1>2, <1>3, <1>4, <1>5, <1>6, <1>7, <1>15 DEF Silent, Waited, SameEntry, f, k, G
<1>16. CASE Lost(c)
  BY <1>1, <1>2, <1>3, <1>4, <1>5, <1>6, <1>7, <1>16 DEF Lost, Waited, f, k, G
<1>17. CASE Dropped(c)
  BY <1>1, <1>2, <1>3, <1>4, <1>5, <1>6, <1>7, <1>17 DEF Dropped, SameEntry, f, k, G
<1>18. CASE Delivered(c)
  <2>1. PICK a \in F : resp'[c] = Append(resp[c], a.n) /\ \A b \in G : b \in F /\ b.n # a.n
    BY <1>18 DEF Delivered, F, G
  <2>2. Len(resp'[c]) = k + 1
    BY <1>1, <2>1, AppendFacts DEF k
  <2>3. Cardinality(G) \in Nat /\ Cardinality(G) <= Cardinality(F) - 1
    <3>1. IsFiniteSet(F \ {a}) /\ Cardinality(F \ {a}) = Cardinality(F) - 1
      BY <1>2, <2>1, FS_RemoveElement
    <3>2. G \subseteq F \ {a}
      BY <2>1
    <3>3. Cardinality(G) \in Nat /\ Cardinality(G) <= Cardinality(F \ {a})
      BY <3>1, <3>2, FS_Subset, FS_CardinalityType
    <3> QED BY <3>1, <3>3
  <2> QED BY <1>1, <1>2, <1>3, <1>4, <1>5, <1>7, <1>18, <2>2, <2>3
          DEF Delivered, SameEntry, f, G
<1> QED BY <1>8, <1>9, <1>10, <1>11, <1>12, <1>13, <1>14, <1>15, <1>16, <1>17, <1>18 DEF Episode, G
-----------------------------------------------------------------------------
(* Replies to a peer that has gone                                         *)

LEMMA LateCases ==
  ASSUME OwnerInv,
         MainNext \/ (\E t \in ClientThreads : CtNext(t)) \/ (\E w \in Workers : WNext(w))
  PROVE  \/ UNCHANGED <<peer, sent, out, late>>
         \/ \E c \in Clients, r \in Int : Write(c, r) /\ UNCHANGED <<peer, sent>>
<1>0. CtTypes /\ EntryTypes
  BY TypeParts DEF OwnerInv
<1>1. MainNext => UNCHANGED <<peer, sent, out, late>>
  BY DEF MainNext, MainPush, MainCloseClientQueue, MainCloseTaskQueue, MainExit, sockVars, replyVars
<1>2. ASSUME NEW w \in Workers, WNext(w) PROVE UNCHANGED <<peer, sent, out, late>>
  BY <1>2 DEF WNext, WPop, WFind, WDeliver, WFree, sockVars, replyVars
<1>3. ASSUME NEW t \in ClientThreads,
             CtPop(t) \/ CtReadCommand(t) \/ CtReadUnknown(t) \/ CtReadEnd(t) \/ CtPush(t)
               \/ CtLog(t) \/ CtLookup(t)
      PROVE  UNCHANGED <<peer, sent, out, late>>
  BY <1>3 DEF CtPop, CtReadCommand, CtReadUnknown, CtReadEnd, CtPush, CtLog, CtLookup, sockVars,
              replyVars
<1>4. ASSUME NEW t \in ClientThreads,
             CtClose(t) \/ CtRemove(t) \/ CtCloseEntry(t) \/ CtFreeEntry(t)
      PROVE  UNCHANGED <<peer, sent, out, late>>
  BY <1>4 DEF CtClose, CtRemove, CtCloseEntry, CtFreeEntry, sockVars, replyVars
<1>5. ASSUME NEW t \in ClientThreads, CtReadNoMemory(t) \/ CtTake(t) \/ CtTimeout(t)
      PROVE  \/ UNCHANGED <<peer, sent, out, late>>
             \/ \E r \in Int : Write(ctConn[t], r) /\ UNCHANGED <<peer, sent>>
  <2>1. ctPc[t] \in {"recv", "wait"} /\ UNCHANGED <<peer, sent>>
    BY <1>5 DEF CtReadNoMemory, CtTake, CtTimeout, CtAt, sockVars
  <2>2. ctConn[t] \in Clients
    BY <2>1, ServedAlone
  <2>3. CASE CtTake(t)
    <3>1. resp[ctConn[t]] # << >> /\ Write(ctConn[t], Head(resp[ctConn[t]]))
      BY <2>3 DEF CtTake
    <3>2. resp[ctConn[t]] \in Seq(1 .. MaxLines)
      BY <2>2, RespTypes DEF OwnerInv
    <3>3. /\ Head(resp[ctConn[t]]) = resp[ctConn[t]][1] /\ 1 \in 1 .. Len(resp[ctConn[t]])
      BY <3>1, <3>2
    <3>4. Head(resp[ctConn[t]]) \in Int
      BY <3>2, <3>3, RespNumbers
    <3> QED BY <2>1, <3>1, <3>4
  <2>4. CASE CtReadNoMemory(t)
    <3>1. Write(ctConn[t], NoMemory) /\ NoMemory \in Int
      BY <2>4 DEF CtReadNoMemory, NoMemory
    <3> QED BY <2>1, <3>1
  <2>5. CASE CtTimeout(t)
    <3>1. Write(ctConn[t], TimedOut) \/ UNCHANGED <<out, late>>
      BY <2>5 DEF CtTimeout, replyVars
    <3>2. TimedOut \in Int
      BY DEF TimedOut
    <3> QED BY <2>1, <3>1, <3>2
  <2> QED BY <1>5, <2>3, <2>4, <2>5
<1>6. ASSUME NEW t \in ClientThreads, CtReadNoMemory(t) \/ CtTake(t) \/ CtTimeout(t)
      PROVE  ctConn[t] \in Clients
  <2>1. ctPc[t] \in {"recv", "wait"}
    BY <1>6 DEF CtReadNoMemory, CtTake, CtTimeout, CtAt
  <2> QED BY <2>1, ServedAlone
<1> QED BY <1>1, <1>2, <1>3, <1>4, <1>5, <1>6 DEF CtNext

LEMMA LateSum ==
  ASSUME NEW s \in Nat, NEW o \in Nat, NEW l \in Nat, NEW m \in Nat, NEW p \in Nat
  PROVE  /\ s - o < p => (s + 1) - o + 0 <= p
         /\ s - o + l <= p /\ m <= l + 1 => s - (o + 1) + m <= p
OBVIOUS

LEMMA StepLate ==
  ASSUME OwnerInv, LateInv, [Next]_vars
  PROVE  LateInv'
<1> SUFFICES ASSUME NEW c \in Clients PROVE LateOf(c)'
  BY DEF LateInv, LateOf
<1>0. /\ SockTypes /\ ReplyTypes /\ Step
      /\ LateOf(c) /\ sent[c] \in Seq(Lines) /\ Len(sent[c]) \in Nat /\ Len(out[c]) \in Nat /\ late[c] \in Nat
      /\ Pipeline \in Nat
  <2>1. SockTypes /\ ReplyTypes /\ Step
    BY TypeParts, NextIsStep DEF OwnerInv
  <2> QED BY <2>1, ServerAssumption DEF LateInv, LateOf, SockTypes, ReplyTypes
<1>1. CASE UNCHANGED <<peer, sent, out, late>>
  BY <1>0, <1>1 DEF LateOf
<1>2. ASSUME NEW d \in Clients, NEW line \in Lines, PeerSend(d, line)
      PROVE  LateOf(c)'
  <2>2. /\ peer[d] = "up" /\ Len(sent[d]) - Len(out[d]) < Pipeline
        /\ sent' = [sent EXCEPT ![d] = Append(sent[d], line)]
        /\ UNCHANGED <<peer, out, late>>
    BY <1>2 DEF PeerSend, replyVars
  <2>3. CASE c # d
    BY <1>0, <2>2, <2>3 DEF LateOf, SockTypes
  <2>4. CASE c = d
    <3>1. Len(sent'[c]) = Len(sent[c]) + 1
      BY <1>0, <2>2, <2>4 DEF SockTypes
    <3>2. /\ Len(out'[c]) = Len(out[c]) /\ late'[c] = 0 /\ late[c] = 0
      BY <1>0, <2>2, <2>4 DEF LateOf
    <3>3. Len(sent'[c]) - Len(out'[c]) + late'[c] <= Pipeline
      BY <1>0, <2>2, <2>4, <3>1, <3>2, LateSum
    <3> QED BY <3>2, <3>3 DEF LateOf
  <2> QED BY <2>3, <2>4
<1>3. ASSUME NEW d \in Clients, PeerClose(d) PROVE LateOf(c)'
  BY <1>0, <1>3 DEF PeerClose, LateOf, SockTypes, replyVars
<1>4. ASSUME NEW d \in Clients, MainAccept(d) PROVE LateOf(c)'
  BY <1>0, <1>4 DEF MainAccept, LateOf, SockTypes, replyVars
<1>5. ASSUME NEW d \in Clients, NEW r \in Int, Write(d, r), UNCHANGED <<peer, sent>>
      PROVE  LateOf(c)'
  <2>1. /\ out' = [out EXCEPT ![d] = Append(out[d], r)]
        /\ late' = [late EXCEPT ![d] = IF peer[d] = "gone" THEN late[d] + 1 ELSE late[d]]
    BY <1>5 DEF Write
  <2>2. CASE c # d
    BY <1>0, <1>5, <2>1, <2>2 DEF LateOf, ReplyTypes
  <2>3. CASE c = d
    <3>1. /\ Len(out'[c]) = Len(out[c]) + 1
          /\ late'[c] = IF peer[c] = "gone" THEN late[c] + 1 ELSE late[c]
      BY <1>0, <2>1, <2>3 DEF ReplyTypes
    <3>2. /\ Len(sent'[c]) = Len(sent[c]) /\ late'[c] \in Nat /\ late'[c] <= late[c] + 1
          /\ peer'[c] # "gone" => late'[c] = 0
      BY <1>0, <1>5, <3>1 DEF LateOf
    <3>3. Len(sent[c]) - Len(out[c]) + late[c] <= Pipeline
      BY <1>0 DEF LateOf
    <3>4. Len(sent'[c]) - Len(out'[c]) + late'[c] <= Pipeline
      BY <1>0, <3>1, <3>2, <3>3, LateSum
    <3> QED BY <3>2, <3>4 DEF LateOf
  <2> QED BY <2>2, <2>3
<1>6. CASE on_sigint \/ UNCHANGED vars
  <2>1. UNCHANGED <<peer, sent, out, late>>
    BY <1>6 DEF on_sigint, vars, sockVars, replyVars
  <2> QED BY <1>1, <2>1
<1>7. CASE PeerNext
  BY <1>2, <1>3, <1>4, <1>7 DEF PeerNext
<1>8. CASE MainNext \/ (\E t \in ClientThreads : CtNext(t)) \/ (\E w \in Workers : WNext(w))
  BY <1>1, <1>5, <1>8, LateCases
<1> QED BY <1>6, <1>7, <1>8 DEF Next
-----------------------------------------------------------------------------
(* The theorems                                                            *)

(* The inductive invariant: the parts rest on each other from left to      *)
(* right.                                                                  *)
ReplyInv ==
    OwnerInv /\ TaskInv /\ AnswerInv /\ CountInv /\ OrderInv /\ BacklogInv

LEMMA ReplyInit == Init => ReplyInv /\ LateInv
<1> SUFFICES ASSUME Init PROVE ReplyInv /\ LateInv
  OBVIOUS
<1>1. OwnerInv
  BY OwnerInit
<1>2. /\ taskQ = {} /\ live = {} /\ failures = 0
      /\ wPc = [w \in Workers |-> "pop"] /\ wTask = [w \in Workers |-> None]
      /\ ctPc = [t \in ClientThreads |-> "pop"] /\ ctConn = [t \in ClientThreads |-> None]
      /\ mainConn = None /\ clientQ = {}
  BY DEF Init
<1>3. ASSUME NEW c \in Clients
      PROVE  /\ resp[c] = << >> /\ out[c] = << >> /\ sent[c] = << >> /\ rd[c] = 0
             /\ late[c] = 0 /\ InFlight(c) = {}
             /\ ~ Unanswered(c) /\ ~ Unregistered(c) /\ Timeouts(c) = 0
  <2>1. resp[c] = << >> /\ out[c] = << >> /\ sent[c] = << >> /\ rd[c] = 0 /\ late[c] = 0
    BY DEF Init
  <2>2. InFlight(c) = {}
    BY <1>2 DEF InFlight
  <2>3. ~ Unanswered(c)
    BY <1>2 DEF Unanswered
  <2>4. ~ Unregistered(c)
    BY <1>2, ServerAssumption DEF Unregistered
  <2>5. Timeouts(c) = 0
    <3>1. {i \in DOMAIN out[c] : out[c][i] = TimedOut} = {}
      BY <2>1
    <3> QED BY <3>1, FS_EmptySet DEF Timeouts
  <2> QED BY <2>1, <2>2, <2>3, <2>4, <2>5
<1>4. TaskInv
  BY <1>2, FS_EmptySet DEF TaskInv
<1>5. AnswerInv
  BY <1>3 DEF AnswerInv, Once
<1>6. CountInv
  BY <1>3 DEF CountInv
<1>7. OrderInv
  BY <1>3 DEF OrderInv
<1>8. BacklogInv
  <2> SUFFICES ASSUME NEW c \in Clients
               PROVE  Cardinality(InFlight(c)) + Len(resp[c]) + One(Unregistered(c))
                        <= Timeouts(c) + failures + One(Unanswered(c))
    BY DEF BacklogInv
  <2>1. /\ Cardinality(InFlight(c)) = 0 /\ Len(resp[c]) = 0 /\ One(Unregistered(c)) = 0
        /\ Timeouts(c) = 0 /\ failures = 0 /\ One(Unanswered(c)) = 0
    <3>1. InFlight(c) = {} /\ resp[c] = << >> /\ ~ Unregistered(c) /\ ~ Unanswered(c)
      BY <1>3
    <3>2. Cardinality(InFlight(c)) = 0
      BY <3>1, FS_EmptySet
    <3>3. One(Unregistered(c)) = 0 /\ One(Unanswered(c)) = 0
      BY <3>1 DEF One
    <3> QED BY <1>2, <1>3, <3>1, <3>2, <3>3
  <2> QED BY <2>1
<1>9. LateInv
  <2> SUFFICES ASSUME NEW c \in Clients PROVE LateOf(c)
    BY DEF LateInv
  <2>1. Len(sent[c]) = 0 /\ Len(out[c]) = 0 /\ late[c] = 0
    BY <1>3
  <2> QED BY <2>1, ServerAssumption DEF LateOf
<1> QED BY <1>1, <1>4, <1>5, <1>6, <1>7, <1>8, <1>9 DEF ReplyInv

LEMMA ReplyStep ==
  ASSUME ReplyInv, Step
  PROVE  ReplyInv'
BY OwnerStep, StepTasks, StepAnswers, StepCount, StepOrder, StepBacklog DEF ReplyInv

(* Every reachable state satisfies the invariants about tasks, answers and *)
(* the writes to a peer that has gone: ReplyInv under any peers, LateInv   *)
(* under peers that keep to Pipeline.                                      *)
THEOREM ReplyInvariance == Spec => [](ReplyInv /\ LateInv)
<1>1. Init => ReplyInv /\ LateInv
  BY ReplyInit
<1>2. ReplyInv /\ LateInv /\ [Next]_vars => (ReplyInv /\ LateInv)'
  BY NextIsStep, ReplyStep, StepLate DEF ReplyInv, OwnerInv
<1> QED BY <1>1, <1>2, PTL DEF Spec

LEMMA TasksPlaced == OwnerInv /\ TaskInv => TasksFreedOnce
<1> SUFFICES ASSUME OwnerInv, TaskInv PROVE TasksFreedOnce
  OBVIOUS
<1>1. Places
  BY DEF OwnerInv
<1> DEFINE taken == {wTask[w] : w \in Workers} \ {None}
           made == {ctTask[t] : t \in {u \in ClientThreads : ctPc[u] = "push"}}
<1>2. taskQ \cup taken \cup made \subseteq live
  BY DEF TaskInv
<1>3. taskQ \cap taken = {} /\ made \cap (taskQ \cup taken) = {}
  BY DEF TaskInv
<1>4. \A v, w \in Workers : v # w /\ wTask[v] # None => wTask[v] # wTask[w]
  BY DEF TaskInv
<1>5. failures = 0 /\ closed = {} => live = taskQ \cup taken \cup made
  <2> SUFFICES ASSUME failures = 0, closed = {}, NEW a \in live
               PROVE  a \in taskQ \cup taken \cup made
    BY <1>2
  <2>1. a # None
    BY NoneAssumption DEF OwnerInv, TypeOK
  <2> QED BY <2>1 DEF TaskInv, With, MadeBy
<1> QED BY <1>2, <1>3, <1>4, <1>5 DEF TasksFreedOnce

LEMMA AnswersApart == OwnerInv /\ AnswerInv => AnsweredOnce
<1> SUFFICES ASSUME OwnerInv, AnswerInv, NEW c \in Clients
             PROVE  LET q == resp[c] \o out[c]
                    IN  /\ \A i, j \in DOMAIN q : q[i] > 0 /\ i # j => q[i] # q[j]
                        /\ \A i \in DOMAIN q : \A task \in InFlight(c) : q[i] # task.n
                        /\ \A i \in DOMAIN q : q[i] <= rd[c]
  BY DEF AnsweredOnce
<1> DEFINE q == resp[c] \o out[c]
           k == Len(resp[c])
           l == Len(out[c])
<1>1. /\ resp[c] \in Seq(1 .. MaxLines) /\ out[c] \in Seq(Replied)
      /\ k \in Nat /\ l \in Nat /\ Once(resp[c], out[c], rd[c], InFlight(c))
  BY RespTypes, RespNumbers DEF OwnerInv, AnswerInv
<1>2. /\ DOMAIN q = 1 .. k + l
      /\ \A i \in 1 .. k + l : q[i] = IF i <= k THEN resp[c][i] ELSE out[c][i - k]
  <2>1. /\ resp[c] \in [1 .. k -> 1 .. MaxLines]
        /\ \A n \in 1 .. MaxLines : n \in Replied
    BY <1>1, LenProperties, ElementOfSeq DEF Replied
  <2>2. resp[c] \in [1 .. k -> Replied]
    BY <2>1
  <2>3. resp[c] \in Seq(Replied)
    BY <1>1, <2>2
  <2>4. /\ q \in Seq(Replied) /\ Len(q) = k + l
        /\ \A i \in 1 .. k + l : q[i] = IF i <= k THEN resp[c][i] ELSE out[c][i - k]
    BY <1>1, <2>3, ConcatProperties
  <2> QED BY <2>4, LenProperties
<1> HIDE DEF q
<1>3. \A i \in DOMAIN q :
        \/ i \in 1 .. k /\ q[i] = resp[c][i]
        \/ i \notin 1 .. k /\ i - k \in 1 .. l /\ q[i] = out[c][i - k]
  <2> HIDE DEF k, l
  <2> QED BY <1>1, <1>2
<1>4. \A i, j \in DOMAIN q : i # j => i - k # j - k
  BY <1>1, <1>2
<1>5. \A i, j \in DOMAIN q : q[i] > 0 /\ i # j => q[i] # q[j]
  <2> SUFFICES ASSUME NEW i \in DOMAIN q, NEW j \in DOMAIN q, q[i] > 0, i # j
               PROVE  q[i] # q[j]
    OBVIOUS
  <2>1. CASE i \in 1 .. k
    BY <1>1, <1>3, <2>1 DEF Once
  <2>2. CASE i \notin 1 .. k
    BY <1>1, <1>3, <1>4, <2>2 DEF Once
  <2> QED BY <2>1, <2>2
<1>6. \A i \in DOMAIN q : \A task \in InFlight(c) : q[i] # task.n
  BY <1>1, <1>3 DEF Once
<1>7. \A i \in DOMAIN q : q[i] <= rd[c]
  BY <1>1, <1>3 DEF Once
<1> QED BY <1>5, <1>6, <1>7 DEF q

(* A task is freed once, by the worker that took it, and never while it is *)
(* queued; none is lost while the queue is open.                           *)
THEOREM TasksOnce == Spec => []TasksFreedOnce
<1>1. ReplyInv => TasksFreedOnce
  BY TasksPlaced DEF ReplyInv
<1> QED BY <1>1, ReplyInvariance, PTL

(* Each line is answered at most once, whatever times out and whatever     *)
(* memory is missing.                                                      *)
THEOREM AnswersOnce == Spec => []AnsweredOnce
<1>1. ReplyInv => AnsweredOnce
  BY AnswersApart DEF ReplyInv
<1> QED BY <1>1, ReplyInvariance, PTL

(* Responses pile up only through timeouts and failed allocations. *)
THEOREM BacklogBound == Spec => []BacklogBounded
<1>1. ReplyInv => BacklogBounded
  <2> SUFFICES ASSUME ReplyInv, NEW c \in Clients
               PROVE  Cardinality(InFlight(c)) + Len(resp[c])
                        <= Timeouts(c) + failures + (IF Unanswered(c) THEN 1 ELSE 0)
    BY DEF BacklogBounded
  <2>1. /\ Cardinality(InFlight(c)) + Len(resp[c]) + One(Unregistered(c))
             <= Timeouts(c) + failures + One(Unanswered(c))
        /\ OwnerInv /\ TaskInv
    BY DEF ReplyInv, BacklogInv
  <2>2. Cardinality(InFlight(c)) \in Nat
    <3>1. InFlight(c) \subseteq live
      BY <2>1, InFlightIs, FlyingLive
    <3> QED BY <2>1, <3>1, FS_Subset, FS_CardinalityType DEF TaskInv
  <2>3. Len(resp[c]) \in Nat /\ out[c] \in Seq(Replied) /\ failures \in Nat
    BY <2>1, RespTypes, RespNumbers DEF OwnerInv
  <2>4. Timeouts(c) \in Nat
    BY <2>3, CountTimeouts DEF Timeouts, TimeoutsIn
  <2> QED BY <2>1, <2>2, <2>3, <2>4 DEF One
<1> QED BY <1>1, ReplyInvariance, PTL

(* A peer that goes away with k lines unanswered has at most k replies     *)
(* written to its socket after that.                                       *)
THEOREM LateWrites == Spec => []LateWritesBounded
<1>1. ReplyInv /\ LateInv => LateWritesBounded
  <2> SUFFICES ASSUME ReplyInv, LateInv, NEW c \in Clients PROVE late[c] <= Pipeline
    BY DEF LateWritesBounded
  <2>1. Len(out[c]) <= rd[c] /\ rd[c] <= Len(sent[c])
    BY DEF ReplyInv, OwnerInv, CountInv, LinesRead
  <2>2. Len(sent[c]) - Len(out[c]) + late[c] <= Pipeline
    BY DEF LateInv, LateOf
  <2>3. Len(sent[c]) \in Nat /\ Len(out[c]) \in Nat /\ rd[c] \in Nat /\ late[c] \in Nat
    BY DEF ReplyInv, OwnerInv, TypeOK
  <2>4. \A s, o, r, l \in Nat : o <= r /\ r <= s /\ s - o + l <= Pipeline => l <= Pipeline
    BY ServerAssumption
  <2> QED BY <2>1, <2>2, <2>3, <2>4
<1> QED BY <1>1, ReplyInvariance, PTL

(* Until a timeout is reported, replies are in the order of the lines. *)
THEOREM InOrder == Spec => InOrderUntilTimeout
<1> DEFINE P == \A c \in Clients :
                  Len(out'[c]) > Len(out[c]) /\ Timeouts(c)' = 0 /\ failures' = 0
                    => out'[c][Len(out'[c])] = rd[c]
<1>1. ReplyInv /\ [Next]_vars => [P]_vars
  <2> SUFFICES ASSUME ReplyInv, Next, NEW c \in Clients,
                      Len(out'[c]) > Len(out[c]), Timeouts(c)' = 0, failures' = 0
               PROVE  out'[c][Len(out'[c])] = rd[c]
    OBVIOUS
  <2>1. Step /\ OwnerInv /\ TaskInv /\ OwnerInv'
    BY NextIsStep, OwnerStep DEF ReplyInv, OwnerInv
  <2>2. out'[c] \in Seq(Replied)
    BY <2>1 DEF OwnerInv, TypeOK, Replied
  <2>3. NoTimeout(out'[c])
    <3>1. Timeouts(c)' = TimeoutsIn(out'[c])
      BY DEF Timeouts, TimeoutsIn
    <3>2. {i \in DOMAIN out'[c] : out'[c][i] = TimedOut} = {}
      BY <2>2, <3>1, CountTimeouts, FS_EmptySet DEF TimeoutsIn
    <3>3. DOMAIN out'[c] = 1 .. Len(out'[c])
      BY <2>2
    <3> QED BY <3>2, <3>3 DEF NoTimeout
  <2>4. /\ failures = 0 /\ NoTimeout(out[c])
        /\ Idle(c) \/ Command(c) \/ Skipped(c) \/ Taken(c) \/ Dropped(c) \/ Delivered(c)
    BY <2>1, <2>3, InOrderCases
  <2>5. resp[c] \in Seq(1 .. MaxLines) /\ out[c] \in Seq(Replied) /\ Len(out[c]) \in Nat
    BY <2>1, RespTypes, RespNumbers DEF OwnerInv
  <2>6. Taken(c)
    BY <2>4, <2>5 DEF Idle, Command, Skipped, Dropped, Delivered
  <2>7. /\ resp[c] # << >> /\ Head(resp[c]) = resp[c][1] /\ 1 \in 1 .. Len(resp[c])
        /\ out'[c] = Append(out[c], Head(resp[c]))
    BY <2>5, <2>6 DEF Taken
  <2>8. resp[c][1] = rd[c]
    BY <2>4, <2>7 DEF ReplyInv, OrderInv
  <2> QED BY <2>5, <2>7, <2>8, AppendFacts
<1>2. Spec => [][P]_vars
  BY <1>1, ReplyInvariance, PTL DEF Spec
<1> QED BY <1>2 DEF InOrderUntilTimeout
-----------------------------------------------------------------------------
(* What a peer can rely on                                                 *)

(* The steps in which a line is read or a reply is written. *)
LEMMA RepliesCases ==
  ASSUME Step
  PROVE  \/ UNCHANGED <<rd, out>>
         \/ \E t \in ClientThreads :
              \/ CtReadCommand(t) \/ CtReadUnknown(t) \/ CtReadNoMemory(t) \/ CtReadEnd(t)
              \/ CtTake(t) \/ CtTimeout(t)
<1>1. Outside \/ (\E c \in Clients : MainAccept(c)) \/ MainNext => UNCHANGED <<rd, out>>
  BY DEF Outside, MainAccept, MainNext, MainPush, MainCloseClientQueue, MainCloseTaskQueue, MainExit,
         sockVars, replyVars
<1>2. ASSUME NEW w \in Workers, WNext(w) PROVE UNCHANGED <<rd, out>>
  BY <1>2 DEF WNext, WPop, WFind, WDeliver, WFree, sockVars, replyVars
<1>3. ASSUME NEW t \in ClientThreads,
             CtPop(t) \/ CtPush(t) \/ CtLog(t) \/ CtLookup(t) \/ CtClose(t) \/ CtRemove(t)
               \/ CtCloseEntry(t) \/ CtFreeEntry(t)
      PROVE  UNCHANGED <<rd, out>>
  BY <1>3 DEF CtPop, CtPush, CtLog, CtLookup, CtClose, CtRemove, CtCloseEntry, CtFreeEntry,
              sockVars, replyVars
<1> QED BY <1>1, <1>2, <1>3 DEF Step, CtNext

LEMMA RepliesStep ==
  ASSUME OwnerInv, AnswerInv, CountInv, Step
  PROVE  [Replies!Next]_(Replies!vars)
<1>1. CASE UNCHANGED <<rd, out>>
  BY <1>1 DEF Replies!vars
<1>2. ASSUME NEW t \in ClientThreads,
             \/ CtReadCommand(t) \/ CtReadUnknown(t) \/ CtReadNoMemory(t) \/ CtReadEnd(t)
             \/ CtTake(t) \/ CtTimeout(t)
      PROVE  [Replies!Next]_(Replies!vars)
  <2> DEFINE c == ctConn[t]
  <2>1. ctPc[t] \in {"recv", "wait"}
    BY <1>2 DEF CtReadCommand, CtReadUnknown, CtReadNoMemory, CtReadEnd, CtTake, CtTimeout, CtAt
  <2>2. c \in Clients
    BY <2>1, ServedAlone
  <2>3. /\ Len(out[c]) <= rd[c] /\ (ctPc[t] = "wait" => Len(out[c]) < rd[c])
        /\ Len(out[c]) \in Nat /\ rd[c] \in Nat
    <3>1. ctPc[t] = "wait" => Unanswered(c)
      BY DEF Unanswered
    <3>2. out[c] \in Seq(Replied) /\ rd[c] \in Nat
      BY <2>2, RespTypes DEF OwnerInv
    <3> QED BY <2>2, <3>1, <3>2, RespNumbers DEF CountInv
  <2>4. CASE rd' = [rd EXCEPT ![c] = rd[c] + 1] /\ UNCHANGED out
    <3>1. Replies!Read(c)
      BY <2>4 DEF Replies!Read
    <3> QED BY <2>2, <3>1 DEF Replies!Next
  <2>5. CASE CtReadNoMemory(t)
    <3>1. rd' = [rd EXCEPT ![c] = rd[c] + 1] /\ out' = [out EXCEPT ![c] = Append(out[c], NoMemory)]
      BY <2>5 DEF CtReadNoMemory, Write
    <3>2. Len(out[c]) < rd[c] + 1
      BY <2>3
    <3>3. Replies!Reply(c, rd[c] + 1)
      BY <3>1, <3>2 DEF Replies!Reply
    <3>4. Replies!ReadAndAnswer(c)
      BY <3>1, <3>3 DEF Replies!ReadAndAnswer
    <3> QED BY <2>2, <3>4 DEF Replies!Next
  <2>6. ASSUME NEW r \in Replies!Open(c, rd[c]) \cup {TimedOut, NoMemory}, ctPc[t] = "wait",
               UNCHANGED rd, out' = [out EXCEPT ![c] = Append(out[c], r)]
        PROVE  [Replies!Next]_(Replies!vars)
    <3>1. Replies!Reply(c, rd[c])
      BY <2>3, <2>6 DEF Replies!Reply
    <3>2. Replies!Answer(c)
      BY <2>6, <3>1 DEF Replies!Answer
    <3> QED BY <2>2, <3>2 DEF Replies!Next
  <2>7. CASE CtTake(t)
    <3>1. /\ ctPc[t] = "wait" /\ resp[c] # << >> /\ UNCHANGED rd
          /\ out' = [out EXCEPT ![c] = Append(out[c], Head(resp[c]))]
      BY <2>7 DEF CtTake, CtAt, Write, sockVars
    <3>2. /\ resp[c] \in Seq(1 .. MaxLines) /\ out[c] \in Seq(Replied)
          /\ Once(resp[c], out[c], rd[c], InFlight(c))
      BY <2>2, RespTypes DEF OwnerInv, AnswerInv
    <3>3. Head(resp[c]) = resp[c][1] /\ 1 \in 1 .. Len(resp[c]) /\ DOMAIN out[c] = 1 .. Len(out[c])
      BY <3>1, <3>2
    <3>4. resp[c][1] \in 1 .. rd[c] /\ \A i \in DOMAIN out[c] : out[c][i] # resp[c][1]
      BY <2>3, <3>2, <3>3, RespNumbers DEF Once
    <3>5. Head(resp[c]) \in Replies!Open(c, rd[c])
      BY <3>3, <3>4 DEF Replies!Open
    <3> QED BY <2>6, <3>1, <3>5
  <2>8. CASE CtTimeout(t)
    <3>1. /\ ctPc[t] = "wait" /\ UNCHANGED rd
          /\ UNCHANGED out \/ out' = [out EXCEPT ![c] = Append(out[c], TimedOut)]
      BY <2>8 DEF CtTimeout, CtAt, Write, sockVars, replyVars
    <3> QED BY <1>1, <2>6, <3>1
  <2>9. CASE CtReadCommand(t) \/ CtReadUnknown(t) \/ CtReadEnd(t)
    <3>1. UNCHANGED out /\ (UNCHANGED rd \/ rd' = [rd EXCEPT ![c] = rd[c] + 1])
      BY <2>9 DEF CtReadCommand, CtReadUnknown, CtReadEnd, replyVars
    <3> QED BY <1>1, <2>4, <3>1
  <2> QED BY <1>2, <2>5, <2>7, <2>8, <2>9
<1> QED BY <1>1, <1>2, RepliesCases

(* client_thread_main, with all the threads around it, implements          *)
(* ReplyService: at most one reply for each line that was read, responses  *)
(* only to lines that were read, and no line responded to twice.           *)
THEOREM Refinement == Spec => ImplementsReplyService
<1>1. Init => Replies!Init
  BY DEF Init, Replies!Init
<1>2. ReplyInv /\ [Next]_vars => [Replies!Next]_(Replies!vars)
  BY NextIsStep, RepliesStep DEF ReplyInv, OwnerInv
<1>3. Spec => Replies!Spec
  BY <1>1, <1>2, ReplyInvariance, PTL DEF Spec, Replies!Spec
<1> QED BY <1>3 DEF ImplementsReplyService
=============================================================================
