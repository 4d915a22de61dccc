---------------------------- MODULE ServerProofs ----------------------------
(***************************************************************************)
(* Proofs about the request path of the server, for any number of          *)
(* connections, client threads, workers, lines and failed allocations: who *)
(* owns a connection, when the entries of the response map are freed, and  *)
(* what is left at the end.                                                *)
(***************************************************************************)
EXTENDS Server, SequenceTheorems, TLAPS

(* A thread has a connection or a task exactly where its code uses it. *)
Places ==
    /\ mainConn = None <=> mainPc # "push"
    /\ \A t \in ClientThreads : ctConn[t] = None <=> ctPc[t] \in {"pop", "done"}
    /\ \A t \in ClientThreads : ctTask[t] = None <=> ctPc[t] \notin {"push", "log"}
    /\ \A w \in Workers : wTask[w] = None <=> wPc[w] \in {"pop", "done"}

(* Only lines that were sent are read. *)
LinesRead ==
    \A c \in Clients : rd[c] <= Len(sent[c]) /\ Len(sent[c]) <= MaxLines

(* A connection that was not accepted yet is nowhere. *)
Unconnected ==
    \A c \in Clients :
      peer[c] = "off" =>
        /\ c \notin fdOpen /\ c \notin respMap /\ c \notin clientQ /\ c # mainConn
        /\ entry[c] = "none"
        /\ \A t \in ClientThreads : ctConn[t] # c

(* c is with main, queued, or with a thread that has not closed it yet. *)
Held(c) == c = mainConn \/ c \in clientQ \/ \E t \in ClientThreads : Owns(t, c)

(* ConnectionOwned, its first part for one connection at a time. *)
Owned ==
    /\ failures = 0 => \A c \in Clients : c \in fdOpen <=> Held(c)
    /\ mainConn \notin clientQ
    /\ \A t \in ClientThreads :
         ctConn[t] # None => ctConn[t] \notin clientQ /\ ctConn[t] # mainConn
    /\ \A t, u \in ClientThreads : t # u /\ ctConn[t] # None => ctConn[t] # ctConn[u]

(* Without a failed allocation a connection is registered until it is      *)
(* closed.                                                                 *)
Registered == failures = 0 => \A c \in Clients : Held(c) => c \in respMap

(* An entry that left the map is with the thread that frees it. *)
EntriesHeld ==
    /\ \A c \in respMap : entry[c] = "live"
    /\ \A t \in ClientThreads :
         /\ ctPc[t] = "close_entry" => ctConn[t] \notin respMap /\ entry[ctConn[t]] = "live"
         /\ ctPc[t] = "free_entry" => ctConn[t] \notin respMap /\ entry[ctConn[t]] = "closed"
         /\ ctPc[t] = "wait" => ctConn[t] \in respMap
    /\ \A c \in Clients \ respMap :
         /\ entry[c] = "live" =>
              \E t \in ClientThreads : ctConn[t] = c /\ ctPc[t] = "close_entry"
         /\ entry[c] = "closed" =>
              \E t \in ClientThreads : ctConn[t] = c /\ ctPc[t] = "free_entry"

(* A connection that is served without an entry never had one. *)
NeverRegistered == \A c \in Clients \ respMap : Held(c) => entry[c] = "none"

(* A thread ends when its queue is closed and empty, and then the queue    *)
(* stays empty.                                                            *)
Shutdown ==
    /\ "client_queue" \in closed => mainPc \in {"close", "join", "exit"}
    /\ \A t \in ClientThreads :
         ctPc[t] = "done" => clientQ = {} /\ "client_queue" \in closed
    /\ \A w \in Workers :
         wPc[w] = "done" => taskQ = {} /\ "task_queue" \in closed
    /\ mainPc = "exit" =>
         /\ \A t \in ClientThreads : ctPc[t] = "done"
         /\ \A w \in Workers : wPc[w] = "done"
         /\ respMap = {}

(* The inductive invariant. *)
OwnerInv ==
    /\ TypeOK /\ Places /\ LinesRead
    /\ Unconnected /\ Owned /\ Registered
    /\ EntriesHeld /\ NeverRegistered
    /\ Shutdown
-----------------------------------------------------------------------------
(* What happens outside the server: SIGINT, peers that send lines, peers   *)
(* that go away.  Stuttering is a case of it.                              *)
Outside ==
    /\ running' \in BOOLEAN
    /\ peer' \in [Clients -> {"off", "up", "gone"}]
    /\ \A c \in Clients : peer'[c] = "off" <=> peer[c] = "off"
    /\ sent' \in [Clients -> Seq(Lines)]
    /\ \A c \in Clients : Len(sent[c]) <= Len(sent'[c]) /\ Len(sent'[c]) <= MaxLines
    /\ UNCHANGED <<mainPc, mainConn, closed, queueVars, entryVars, ctVars, wVars, fdOpen,
                   rd, replyVars, memVars, crashed>>

(* Every step of the server, with whatever peers. *)
Step ==
    \/ Outside
    \/ \E c \in Clients : MainAccept(c)
    \/ MainNext
    \/ \E t \in ClientThreads : CtNext(t)
    \/ \E w \in Workers : WNext(w)

LEMMA NextIsStep ==
  ASSUME TypeOK, LinesRead, [Next]_vars
  PROVE  Step
<1>1. CASE UNCHANGED vars
  <2>1. Outside
    BY <1>1 DEF Outside, TypeOK, LinesRead, vars, mainVars, sockVars
  <2> QED BY <2>1 DEF Step
<1>2. CASE on_sigint
  <2>0. running' \in BOOLEAN /\ UNCHANGED <<peer, sent>>
    BY <1>2 DEF on_sigint, sockVars
  <2>1. Outside
    BY <1>2, <2>0 DEF Outside, TypeOK, LinesRead, on_sigint, sockVars
  <2> QED BY <2>1 DEF Step
<1>3. ASSUME NEW c \in Clients, PeerClose(c) PROVE Step
  <2>1. Outside
    BY <1>3 DEF Outside, TypeOK, LinesRead, PeerClose, mainVars
  <2> QED BY <2>1 DEF Step
<1>4. ASSUME NEW c \in Clients, NEW line \in Lines, PeerSend(c, line) PROVE Step
  <2>1. /\ sent' = [sent EXCEPT ![c] = Append(sent[c], line)]
        /\ Len(sent[c]) < MaxLines /\ Len(sent[c]) \in Nat /\ MaxLines \in Nat
        /\ sent[c] \in Seq(Lines)
    BY <1>4, ServerAssumption DEF PeerSend, TypeOK
  <2>2. Append(sent[c], line) \in Seq(Lines) /\ Len(Append(sent[c], line)) = Len(sent[c]) + 1
    BY <2>1
  <2>3. sent' \in [Clients -> Seq(Lines)]
    BY <2>1, <2>2 DEF TypeOK
  <2>4. \A d \in Clients : Len(sent[d]) <= Len(sent'[d]) /\ Len(sent'[d]) <= MaxLines
    BY <2>1, <2>2 DEF TypeOK, LinesRead
  <2>5. UNCHANGED <<mainVars, queueVars, entryVars, ctVars, wVars, peer, fdOpen, rd,
                    replyVars, memVars, crashed>>
    BY <1>4 DEF PeerSend
  <2>6. Outside
    <3>1. running \in BOOLEAN /\ peer \in [Clients -> {"off", "up", "gone"}]
      BY DEF TypeOK
    <3> QED BY <2>3, <2>4, <2>5, <3>1 DEF Outside, mainVars
  <2> QED BY <2>6 DEF Step
<1> QED BY <1>1, <1>2, <1>3, <1>4 DEF Next, PeerNext, Step
-----------------------------------------------------------------------------
(* Types                                                                   *)

(* The line that task_create is called for is a command. *)
LEMMA TaskCreated ==
  ASSUME TypeOK, NEW c \in Clients, NEW n \in 1 .. MaxLines, IsCommand(sent[c][n])
  PROVE  /\ task_create(c, n) \in Task
         /\ task_create(c, n).client = c /\ task_create(c, n).n = n
<1>1. Priority(sent[c][n]) \in {0, 1, 2}
  BY DEF IsCommand, Priority, Order!PRIORITY_HIGH, Order!PRIORITY_NORMAL, Order!PRIORITY_LOW
<1> QED BY <1>1 DEF task_create, Task, TypeOK

(* The task for a line that was read; no task of that line exists yet. *)
LEMMA CommandFacts ==
  ASSUME TypeOK, Places, LinesRead, NEW t \in ClientThreads, CtReadCommand(t)
  PROVE  LET c == ctConn[t]
             task == task_create(c, rd[c] + 1)
         IN  /\ c \in Clients /\ rd[c] + 1 \in 1 .. MaxLines
             /\ task \in Task /\ task # None
             /\ task.client = c /\ task.n = rd[c] + 1
<1> DEFINE c == ctConn[t]
<1>1. c \in Clients
  BY DEF CtReadCommand, CtAt, TypeOK, Places
<1>2. rd[c] + 1 \in 1 .. MaxLines
  BY <1>1, ServerAssumption DEF CtReadCommand, TypeOK, LinesRead
<1>3. /\ task_create(c, rd[c] + 1) \in Task
      /\ task_create(c, rd[c] + 1).client = c /\ task_create(c, rd[c] + 1).n = rd[c] + 1
  BY <1>1, <1>2, TaskCreated DEF CtReadCommand
<1>4. task_create(c, rd[c] + 1) # None
  BY <1>3, NoneAssumption
<1> QED BY <1>1, <1>2, <1>3, <1>4

LEMMA WriteTypes ==
  ASSUME TypeOK, NEW c \in Clients, NEW r \in {TimedOut, NoMemory} \cup 1 .. MaxLines,
         Write(c, r)
  PROVE  /\ out' \in [Clients -> Seq({TimedOut, NoMemory} \cup 1 .. MaxLines)]
         /\ late' \in [Clients -> Nat]
         /\ crashed' \in BOOLEAN
         /\ Len(out'[c]) = Len(out[c]) + 1
<1>1. out' = [out EXCEPT ![c] = Append(out[c], r)]
  BY DEF Write
<1>2. late' = [late EXCEPT ![c] = IF peer[c] = "gone" THEN late[c] + 1 ELSE late[c]]
  BY DEF Write
<1>3. /\ Append(out[c], r) \in Seq({TimedOut, NoMemory} \cup 1 .. MaxLines)
      /\ Len(Append(out[c], r)) = Len(out[c]) + 1
  BY AppendProperties DEF TypeOK
<1>4. crashed' \in BOOLEAN
  BY DEF Write, TypeOK
<1>5. late' \in [Clients -> Nat]
  BY <1>2 DEF TypeOK
<1> QED BY <1>1, <1>3, <1>4, <1>5 DEF TypeOK

LEMMA PrependFacts ==
  ASSUME NEW S, NEW x \in S, NEW s \in Seq(S)
  PROVE  /\ <<x>> \o s \in Seq(S)
         /\ Len(<<x>> \o s) = Len(s) + 1
         /\ \A i \in 1 .. Len(s) + 1 : (<<x>> \o s)[i] = IF i = 1 THEN x ELSE s[i - 1]
<1>1. <<x>> \in Seq(S) /\ Len(<<x>>) = 1 /\ <<x>>[1] = x
  OBVIOUS
<1> QED BY <1>1, ConcatProperties

(* queue_pop on a queue of responses leaves all but the first. *)
LEMMA AfterPopFacts ==
  ASSUME NEW S, NEW q \in Seq(S), q # << >>
  PROVE  /\ AfterPop(q) \in Seq(S)
         /\ Len(AfterPop(q)) = Len(q) - 1
         /\ \A i \in 1 .. Len(q) - 1 : AfterPop(q)[i] = IF i = 1 THEN q[Len(q)] ELSE q[i]
<1>0. Len(q) \in Nat \ {0} /\ q \in [1 .. Len(q) -> S]
  OBVIOUS
<1>1. CASE Len(q) = 1
  BY <1>1 DEF AfterPop
<1>2. CASE Len(q) # 1
  <2> DEFINE s == SubSeq(q, 2, Len(q) - 1)
  <2> DEFINE x == q[Len(q)]
  <2>1. AfterPop(q) = <<x>> \o s
    BY <1>2 DEF AfterPop
  <2>2. s \in Seq(S) /\ Len(s) = Len(q) - 2 /\ \A i \in 1 .. Len(q) - 2 : s[i] = q[i + 1]
    BY <1>0, <1>2
  <2>3. x \in S
    BY <1>0
  <2> HIDE DEF s, x
  <2>4. /\ AfterPop(q) \in Seq(S) /\ Len(AfterPop(q)) = Len(q) - 1
        /\ \A i \in 1 .. Len(q) - 1 :
             AfterPop(q)[i] = IF i = 1 THEN x ELSE s[i - 1]
    <3>1. /\ <<x>> \o s \in Seq(S)
          /\ Len(<<x>> \o s) = Len(s) + 1
          /\ \A i \in 1 .. Len(s) + 1 : (<<x>> \o s)[i] = IF i = 1 THEN x ELSE s[i - 1]
      BY <2>2, <2>3, PrependFacts
    <3>2. Len(s) + 1 = Len(q) - 1
      BY <1>0, <2>2
    <3> QED BY <2>1, <3>1, <3>2
  <2>5. \A i \in 2 .. Len(q) - 1 : s[i - 1] = q[i]
    BY <1>0, <2>2
  <2> QED BY <1>0, <2>4, <2>5 DEF x
<1> QED BY <1>1, <1>2

(* TypeOK by the groups of variables that an action changes or leaves      *)
(* alone.                                                                  *)
MainTypes ==
    /\ running \in BOOLEAN
    /\ mainPc \in {"accept", "push", "close", "join", "exit"}
    /\ mainConn \in Clients \cup {None}
    /\ closed \subseteq {"client_queue", "task_queue"}

QueueTypes == clientQ \subseteq Clients /\ taskQ \subseteq Task

EntryTypes ==
    /\ respMap \subseteq Clients
    /\ entry \in [Clients -> {"none", "live", "closed", "freed"}]
    /\ resp \in [Clients -> Seq(1 .. MaxLines)]

CtTypes ==
    /\ ctPc \in [ClientThreads -> {"pop", "recv", "push", "log", "lookup", "wait", "close",
                                   "remove", "close_entry", "free_entry", "done"}]
    /\ ctConn \in [ClientThreads -> Clients \cup {None}]
    /\ ctTask \in [ClientThreads -> Task \cup {None}]

WTypes ==
    /\ wPc \in [Workers -> {"pop", "find", "deliver", "free", "done"}]
    /\ wTask \in [Workers -> Task \cup {None}]

SockTypes ==
    /\ peer \in [Clients -> {"off", "up", "gone"}]
    /\ fdOpen \subseteq Clients
    /\ sent \in [Clients -> Seq(Lines)]
    /\ rd \in [Clients -> 0 .. MaxLines]

ReplyTypes ==
    /\ out \in [Clients -> Seq({TimedOut, NoMemory} \cup 1 .. MaxLines)]
    /\ late \in [Clients -> Nat]

MemTypes == live \subseteq Task /\ clock \in Nat /\ failures \in Nat

LEMMA TypeParts ==
  TypeOK <=> /\ MainTypes /\ QueueTypes /\ EntryTypes /\ CtTypes /\ WTypes /\ SockTypes
             /\ ReplyTypes /\ MemTypes /\ crashed \in BOOLEAN
BY DEF TypeOK, MainTypes, QueueTypes, EntryTypes, CtTypes, WTypes, SockTypes, ReplyTypes,
       MemTypes

LEMMA TypeFrame ==
  /\ UNCHANGED mainVars => (MainTypes => MainTypes')
  /\ UNCHANGED queueVars => (QueueTypes => QueueTypes')
  /\ UNCHANGED entryVars => (EntryTypes => EntryTypes')
  /\ UNCHANGED ctVars => (CtTypes => CtTypes')
  /\ UNCHANGED wVars => (WTypes => WTypes')
  /\ UNCHANGED sockVars => (SockTypes => SockTypes') /\ (LinesRead => LinesRead')
  /\ UNCHANGED replyVars => (ReplyTypes => ReplyTypes')
  /\ UNCHANGED memVars => (MemTypes => MemTypes')
<1>1. UNCHANGED mainVars => (MainTypes => MainTypes')
  BY DEF mainVars, MainTypes
<1>2. UNCHANGED queueVars => (QueueTypes => QueueTypes')
  BY DEF queueVars, QueueTypes
<1>3. UNCHANGED entryVars => (EntryTypes => EntryTypes')
  BY DEF entryVars, EntryTypes
<1>4. UNCHANGED ctVars => (CtTypes => CtTypes')
  BY DEF ctVars, CtTypes
<1>5. UNCHANGED wVars => (WTypes => WTypes')
  BY DEF wVars, WTypes
<1>6. UNCHANGED sockVars => (SockTypes => SockTypes') /\ (LinesRead => LinesRead')
  BY DEF sockVars, SockTypes, LinesRead
<1>7. UNCHANGED replyVars => (ReplyTypes => ReplyTypes')
  BY DEF replyVars, ReplyTypes
<1>8. UNCHANGED memVars => (MemTypes => MemTypes')
  BY DEF memVars, MemTypes
<1> QED BY <1>1, <1>2, <1>3, <1>4, <1>5, <1>6, <1>7, <1>8

Types ==
    /\ MainTypes /\ QueueTypes /\ EntryTypes /\ CtTypes /\ WTypes /\ SockTypes
    /\ ReplyTypes /\ MemTypes /\ crashed \in BOOLEAN /\ LinesRead

(* The types, one step per action; the lines read are lines that were sent. *)
LEMMA StepTypes ==
  ASSUME TypeOK, Places, LinesRead, Step
  PROVE  TypeOK' /\ LinesRead'
<1>0. Types
  BY TypeParts DEF Types
<1> SUFFICES Types'
  BY DEF Types, TypeOK, MainTypes, QueueTypes, EntryTypes, CtTypes, WTypes, SockTypes,
         ReplyTypes, MemTypes
<1>1. CASE Outside
  <2>1. MainTypes' /\ SockTypes' /\ LinesRead'
    BY <1>0, <1>1 DEF Outside, Types, MainTypes, SockTypes, LinesRead
  <2>2. MemTypes' /\ crashed' \in BOOLEAN
    BY <1>0, <1>1 DEF Outside, Types, MemTypes, memVars
  <2> QED BY <1>0, <1>1, <2>1, <2>2, TypeFrame DEF Outside, Types
<1>2. ASSUME NEW c \in Clients, MainAccept(c) PROVE Types'
  <2>1. MainTypes'
    BY <1>0, <1>2 DEF MainAccept, Types, MainTypes
  <2>2. EntryTypes' /\ MemTypes'
    <3>1. MemTypes'
      BY <1>0, <1>2 DEF MainAccept, register_client_response_queue, NoFailure, Fail, Types,
                        MemTypes
    <3>2. EntryTypes'
      BY <1>0, <1>2 DEF MainAccept, register_client_response_queue, Types, EntryTypes
    <3> QED BY <3>1, <3>2
  <2>3. SockTypes' /\ LinesRead'
    BY <1>0, <1>2 DEF MainAccept, Types, SockTypes, LinesRead
  <2> QED BY <1>0, <1>2, <2>1, <2>2, <2>3, TypeFrame DEF MainAccept, Types
<1>3. CASE MainPush
  <2>1. MainTypes'
    BY <1>0, <1>3 DEF MainPush, Types, MainTypes
  <2>2. QueueTypes' /\ MemTypes'
    BY <1>0, <1>3 DEF MainPush, MainAt, NoFailure, Fail, Types, MainTypes, QueueTypes,
                      MemTypes, Places
  <2> QED BY <1>0, <1>3, <2>1, <2>2, TypeFrame DEF MainPush, Types
<1>4. CASE MainCloseClientQueue
  <2>1. MainTypes'
    BY <1>0, <1>4 DEF MainCloseClientQueue, Types, MainTypes
  <2> QED BY <1>0, <1>4, <2>1, TypeFrame DEF MainCloseClientQueue, Types
<1>5. CASE MainCloseTaskQueue
  <2>1. MainTypes'
    BY <1>0, <1>5 DEF MainCloseTaskQueue, Types, MainTypes
  <2> QED BY <1>0, <1>5, <2>1, TypeFrame DEF MainCloseTaskQueue, Types
<1>6. CASE MainExit
  <2>1. MainTypes' /\ EntryTypes'
    BY <1>0, <1>6 DEF MainExit, Types, MainTypes, EntryTypes
  <2> QED BY <1>0, <1>6, <2>1, TypeFrame DEF MainExit, Types
<1>7. ASSUME NEW t \in ClientThreads, CtNext(t) PROVE Types'
  <2>0. ctPc[t] \notin {"pop", "done"} => ctConn[t] \in Clients
    BY <1>0 DEF Types, CtTypes, Places
  <2>1. CASE CtPop(t)
    <3>1. CtTypes' /\ QueueTypes'
      BY <1>0, <2>1 DEF CtPop, CtGoto, Types, CtTypes, QueueTypes
    <3> QED BY <1>0, <2>1, <3>1, TypeFrame DEF CtPop, Types
  <2>2. CASE CtReadCommand(t)
    <3> DEFINE c == ctConn[t]
               task == task_create(c, rd[c] + 1)
    <3>1. c \in Clients /\ rd[c] + 1 \in 1 .. MaxLines /\ task \in Task
      BY <2>2, CommandFacts
    <3>4. /\ rd' = [rd EXCEPT ![c] = rd[c] + 1]
          /\ rd[c] + 1 <= Len(sent[c])
          /\ live' = live \cup {task}
          /\ clock' = clock + 1
          /\ ctTask' = [ctTask EXCEPT ![t] = task]
          /\ ctPc' = [ctPc EXCEPT ![t] = "push"]
          /\ UNCHANGED <<mainVars, queueVars, entryVars, ctConn, wVars, peer, fdOpen, sent,
                         replyVars, failures, crashed>>
      BY <2>2 DEF CtReadCommand, CtGoto
    <3> HIDE DEF task, c
    <3>5. SockTypes' /\ LinesRead'
      BY <1>0, <3>1, <3>4 DEF Types, SockTypes, LinesRead
    <3>6. CtTypes' /\ MemTypes'
      BY <1>0, <3>1, <3>4 DEF Types, CtTypes, MemTypes
    <3> QED BY <1>0, <3>4, <3>5, <3>6, TypeFrame DEF Types
  <2>3. CASE CtReadUnknown(t)
    <3>1. ctConn[t] \in Clients
      BY <2>0, <2>3 DEF CtReadUnknown, CtAt
    <3>2. SockTypes' /\ LinesRead'
      BY <1>0, <2>3, <3>1, ServerAssumption DEF CtReadUnknown, Types, SockTypes, LinesRead
    <3> QED BY <1>0, <2>3, <3>2, TypeFrame DEF CtReadUnknown, Types
  <2>4. CASE CtReadNoMemory(t)
    <3>1. ctConn[t] \in Clients
      BY <2>0, <2>4 DEF CtReadNoMemory, CtAt
    <3>2. SockTypes' /\ LinesRead'
      BY <1>0, <2>4, <3>1, ServerAssumption DEF CtReadNoMemory, Types, SockTypes, LinesRead
    <3>3. ReplyTypes' /\ crashed' \in BOOLEAN
      BY <2>4, <3>1, WriteTypes DEF CtReadNoMemory, ReplyTypes
    <3>4. MemTypes'
      BY <1>0, <2>4 DEF CtReadNoMemory, Fail, Types, MemTypes
    <3> QED BY <1>0, <2>4, <3>2, <3>3, <3>4, TypeFrame DEF CtReadNoMemory, Types
  <2>5. CASE CtReadEnd(t)
    <3>1. ctConn[t] \in Clients
      BY <2>0, <2>5 DEF CtReadEnd, CtAt
    <3>2. SockTypes' /\ LinesRead'
      <4>1. CASE UNCHANGED rd
        BY <1>0, <2>5, <4>1 DEF CtReadEnd, Types, SockTypes, LinesRead
      <4>2. CASE rd' = [rd EXCEPT ![ctConn[t]] = @ + 1] /\ rd[ctConn[t]] < Len(sent[ctConn[t]])
        BY <1>0, <2>5, <3>1, <4>2, ServerAssumption DEF CtReadEnd, Types, SockTypes, LinesRead
      <4> QED BY <2>5, <4>1, <4>2 DEF CtReadEnd
    <3>3. CtTypes'
      BY <1>0, <2>5 DEF CtReadEnd, CtGoto, Types, CtTypes
    <3> QED BY <1>0, <2>5, <3>2, <3>3, TypeFrame DEF CtReadEnd, Types
  <2>6. CASE CtPush(t)
    <3>1. ctTask[t] \in Task
      BY <1>0, <2>6 DEF CtPush, CtAt, Types, CtTypes, Places
    <3>2. QueueTypes' /\ CtTypes' /\ MemTypes'
      BY <1>0, <2>6, <3>1 DEF CtPush, CtGoto, NoFailure, Fail, Types, CtTypes, QueueTypes,
                              MemTypes
    <3> QED BY <1>0, <2>6, <3>2, TypeFrame DEF CtPush, Types
  <2>7. CASE CtLog(t)
    <3>1. CtTypes'
      BY <1>0, <2>7 DEF CtLog, CtGoto, Types, CtTypes
    <3> QED BY <1>0, <2>7, <3>1, TypeFrame DEF CtLog, Types
  <2>8. CASE CtLookup(t)
    <3>1. CtTypes'
      BY <1>0, <2>8 DEF CtLookup, CtGoto, Types, CtTypes
    <3> QED BY <1>0, <2>8, <3>1, TypeFrame DEF CtLookup, Types
  <2>9. CASE CtTake(t)
    <3> DEFINE c == ctConn[t]
    <3>1. c \in Clients
      BY <2>0, <2>9 DEF CtTake, CtAt
    <3>2. resp[c] \in Seq(1 .. MaxLines) /\ resp[c] # << >>
      BY <1>0, <2>9, <3>1 DEF CtTake, Types, EntryTypes
    <3>3. Head(resp[c]) \in 1 .. MaxLines
      BY <3>2, HeadTailProperties, Zenon
    <3>4. AfterPop(resp[c]) \in Seq(1 .. MaxLines)
      BY <3>2, AfterPopFacts
    <3>5. EntryTypes'
      BY <1>0, <2>9, <3>1, <3>4 DEF CtTake, Types, EntryTypes
    <3>6. ReplyTypes' /\ crashed' \in BOOLEAN
      BY <2>9, <3>1, <3>3, WriteTypes DEF CtTake, ReplyTypes
    <3>7. CtTypes'
      BY <1>0, <2>9 DEF CtTake, CtGoto, Types, CtTypes
    <3> QED BY <1>0, <2>9, <3>5, <3>6, <3>7, TypeFrame DEF CtTake, Types
  <2>10. CASE CtTimeout(t)
    <3>1. ctConn[t] \in Clients
      BY <2>0, <2>10 DEF CtTimeout, CtAt
    <3>2. ReplyTypes' /\ crashed' \in BOOLEAN
      BY <1>0, <2>10, <3>1, WriteTypes DEF CtTimeout, Types, ReplyTypes, replyVars
    <3>3. CtTypes'
      BY <1>0, <2>10 DEF CtTimeout, CtGoto, Types, CtTypes
    <3>4. MemTypes'
      BY <1>0, <2>10 DEF CtTimeout, NoFailure, Fail, Types, MemTypes
    <3> QED BY <1>0, <2>10, <3>2, <3>3, <3>4, TypeFrame DEF CtTimeout, Types
  <2>11. CASE CtClose(t)
    <3>1. CtTypes' /\ SockTypes' /\ LinesRead'
      BY <1>0, <2>11 DEF CtClose, CtGoto, Types, CtTypes, SockTypes, LinesRead
    <3> QED BY <1>0, <2>11, <3>1, TypeFrame DEF CtClose, Types
  <2>12. CASE CtRemove(t)
    <3>1. CtTypes' /\ EntryTypes'
      BY <1>0, <2>12 DEF CtRemove, CtGoto, Types, CtTypes, EntryTypes
    <3> QED BY <1>0, <2>12, <3>1, TypeFrame DEF CtRemove, Types
  <2>13. CASE CtCloseEntry(t)
    <3>1. CtTypes' /\ EntryTypes'
      BY <1>0, <2>13 DEF CtCloseEntry, CtGoto, Types, CtTypes, EntryTypes
    <3> QED BY <1>0, <2>13, <3>1, TypeFrame DEF CtCloseEntry, Types
  <2>14. CASE CtFreeEntry(t)
    <3>1. CtTypes'
      BY <1>0, <2>14 DEF CtFreeEntry, CtGoto, Types, CtTypes
    <3>2. EntryTypes'
      <4>1. << >> \in Seq(1 .. MaxLines)
        OBVIOUS
      <4> QED BY <1>0, <2>14, <4>1 DEF CtFreeEntry, Types, EntryTypes
    <3> QED BY <1>0, <2>14, <3>1, <3>2, TypeFrame DEF CtFreeEntry, Types
  <2> QED BY <1>7, <2>1, <2>2, <2>3, <2>4, <2>5, <2>6, <2>7, <2>8, <2>9, <2>10, <2>11,
             <2>12, <2>13, <2>14 DEF CtNext
<1>8. ASSUME NEW w \in Workers, WNext(w) PROVE Types'
  <2>1. CASE WPop(w)
    <3>1. WTypes' /\ QueueTypes'
      BY <1>0, <2>1 DEF WPop, WGoto, Types, WTypes, QueueTypes
    <3> QED BY <1>0, <2>1, <3>1, TypeFrame DEF WPop, Types
  <2>2. CASE WFind(w)
    <3>1. WTypes' /\ MemTypes'
      BY <1>0, <2>2 DEF WFind, WGoto, NoFailure, Fail, Types, WTypes, MemTypes
    <3> QED BY <1>0, <2>2, <3>1, TypeFrame DEF WFind, Types
  <2>3. CASE WDeliver(w)
    <3>1. wTask[w] \in Task
      BY <1>0, <2>3 DEF WDeliver, WAt, Places, Types, WTypes
    <3>2. wTask[w].client \in Clients /\ wTask[w].n \in 1 .. MaxLines
      BY <3>1 DEF Task
    <3>3. Append(resp[wTask[w].client], wTask[w].n) \in Seq(1 .. MaxLines)
      BY <1>0, <3>2 DEF Types, EntryTypes
    <3>4. EntryTypes' /\ crashed' \in BOOLEAN
      BY <1>0, <2>3, <3>2, <3>3 DEF WDeliver, Types, EntryTypes
    <3>5. WTypes' /\ MemTypes'
      BY <1>0, <2>3 DEF WDeliver, WGoto, NoFailure, Fail, Types, WTypes, MemTypes
    <3> QED BY <1>0, <2>3, <3>4, <3>5, TypeFrame DEF WDeliver, Types
  <2>4. CASE WFree(w)
    <3>1. WTypes' /\ MemTypes'
      BY <1>0, <2>4 DEF WFree, WGoto, Types, WTypes, MemTypes
    <3> QED BY <1>0, <2>4, <3>1, TypeFrame DEF WFree, Types
  <2> QED BY <1>8, <2>1, <2>2, <2>3, <2>4 DEF WNext
<1> QED BY <1>1, <1>2, <1>3, <1>4, <1>5, <1>6, <1>7, <1>8 DEF Step, MainNext
-----------------------------------------------------------------------------
(* The owners of connections and tasks                                     *)

LEMMA StepPlaces ==
  ASSUME TypeOK, Places, LinesRead, Step
  PROVE  Places'
<1>0. MainTypes /\ QueueTypes /\ CtTypes /\ WTypes
  BY TypeParts
<1>1. CASE Outside
  BY <1>1 DEF Outside, Places, ctVars, wVars
<1>2. ASSUME NEW c \in Clients, MainAccept(c) PROVE Places'
  BY <1>2, ServerAssumption DEF MainAccept, Places, ctVars, wVars
<1>3. CASE MainPush
  BY <1>3 DEF MainPush, Places, ctVars, wVars
<1>4. CASE MainCloseClientQueue \/ MainCloseTaskQueue \/ MainExit
  BY <1>4 DEF MainCloseClientQueue, MainCloseTaskQueue, MainExit, MainAt, Places, ctVars, wVars
<1>5. ASSUME NEW t \in ClientThreads, CtNext(t) PROVE Places'
  <2>0. mainVars' = mainVars /\ wVars' = wVars
    BY <1>5 DEF CtNext, CtPop, CtReadCommand, CtReadUnknown, CtReadNoMemory, CtReadEnd, CtPush,
                CtLog, CtLookup, CtTake, CtTimeout, CtClose, CtRemove, CtCloseEntry, CtFreeEntry
  <2>1. SUFFICES \A u \in ClientThreads :
                   /\ ctConn'[u] = None <=> ctPc'[u] \in {"pop", "done"}
                   /\ ctTask'[u] = None <=> ctPc'[u] \notin {"push", "log"}
    BY <2>0 DEF Places, mainVars, wVars
  <2>2. CASE CtPop(t)
    BY <1>0, <2>2, ServerAssumption DEF CtPop, CtAt, CtGoto, CtTypes, QueueTypes, Places
  <2>3. CASE CtReadCommand(t)
    <3> DEFINE task == task_create(ctConn[t], rd[ctConn[t]] + 1)
    <3>1. task # None
      BY <2>3, CommandFacts
    <3>2. /\ ctPc[t] = "recv" /\ ctPc' = [ctPc EXCEPT ![t] = "push"]
          /\ ctTask' = [ctTask EXCEPT ![t] = task] /\ UNCHANGED ctConn
      BY <2>3 DEF CtReadCommand, CtAt, CtGoto
    <3> HIDE DEF task
    <3> QED BY <1>0, <3>1, <3>2 DEF CtTypes, Places
  <2>4. CASE CtReadUnknown(t) \/ CtReadNoMemory(t)
    BY <2>4 DEF CtReadUnknown, CtReadNoMemory, Places, ctVars
  <2>5. CASE CtReadEnd(t) \/ CtPush(t) \/ CtLookup(t)
    BY <1>0, <2>5 DEF CtReadEnd, CtPush, CtLookup, CtAt, CtGoto, CtTypes, Places
  <2>6. CASE CtLog(t)
    BY <1>0, <2>6 DEF CtLog, CtAt, CtGoto, CtTypes, Places
  <2>7. CASE CtTake(t) \/ CtTimeout(t)
    BY <1>0, <2>7 DEF CtTake, CtTimeout, CtAt, CtGoto, CtTypes, Places
  <2>8. CASE CtClose(t) \/ CtCloseEntry(t)
    BY <1>0, <2>8 DEF CtClose, CtCloseEntry, CtAt, CtGoto, CtTypes, Places
  <2>9. CASE CtRemove(t)
    BY <1>0, <2>9 DEF CtRemove, CtAt, CtGoto, CtTypes, Places
  <2>10. CASE CtFreeEntry(t)
    BY <1>0, <2>10 DEF CtFreeEntry, CtAt, CtGoto, CtTypes, Places
  <2> QED BY <1>5, <2>2, <2>3, <2>4, <2>5, <2>6, <2>7, <2>8, <2>9, <2>10 DEF CtNext
<1>6. ASSUME NEW w \in Workers, WNext(w) PROVE Places'
  <2>1. UNCHANGED <<mainVars, ctVars>>
    BY <1>6 DEF WNext, WPop, WFind, WDeliver, WFree
  <2>2. \A v \in Workers : wTask'[v] = None <=> wPc'[v] \in {"pop", "done"}
    BY <1>0, <1>6, NoneAssumption
       DEF WNext, WPop, WFind, WDeliver, WFree, WAt, WGoto, WTypes, QueueTypes, Places
  <2> QED BY <2>1, <2>2 DEF Places, mainVars, ctVars
<1> QED BY <1>1, <1>2, <1>3, <1>4, <1>5, <1>6 DEF Step, MainNext

(* Steps that leave the owners of connections and entries alone. *)
Elsewhere ==
    /\ UNCHANGED <<mainConn, clientQ, respMap, entry, ctPc, ctConn, fdOpen>>
    /\ \A c \in Clients : peer'[c] = "off" <=> peer[c] = "off"
    /\ failures' = 0 => failures = 0

Serving == {"recv", "push", "log", "lookup", "wait", "close"}

(* A client thread goes on with the connection it has. *)
Serve(t) ==
    /\ ctPc[t] \in Serving
    /\ \E l \in Serving :
         ctPc' = [ctPc EXCEPT ![t] = l] /\ (l = "wait" => ctConn[t] \in respMap)
    /\ UNCHANGED <<mainConn, clientQ, respMap, entry, ctConn, fdOpen, peer>>
    /\ failures' = 0 => failures = 0

LEMMA OwnerCases ==
  ASSUME TypeOK, EntriesHeld, Step
  PROVE  \/ Elsewhere
         \/ \E c \in Clients : MainAccept(c)
         \/ MainPush \/ MainExit
         \/ \E t \in ClientThreads :
              CtPop(t) \/ Serve(t) \/ CtClose(t) \/ CtRemove(t) \/ CtCloseEntry(t)
                \/ CtFreeEntry(t)
<1>0. CtTypes /\ MemTypes
  BY TypeParts
<1>1. Outside => Elsewhere
  BY DEF Outside, Elsewhere, queueVars, entryVars, ctVars, memVars
<1>2. MainCloseClientQueue \/ MainCloseTaskQueue => Elsewhere
  BY DEF MainCloseClientQueue, MainCloseTaskQueue, Elsewhere, queueVars, entryVars, ctVars,
         sockVars, memVars
<1>3. ASSUME NEW w \in Workers, WNext(w) PROVE Elsewhere
  BY <1>0, <1>3 DEF WNext, WPop, WFind, WDeliver, WFree, NoFailure, Fail, Elsewhere, MemTypes,
                    mainVars, queueVars, entryVars, ctVars, sockVars, memVars
<1>4. ASSUME NEW t \in ClientThreads,
             CtReadCommand(t) \/ CtReadUnknown(t) \/ CtReadNoMemory(t) \/ CtReadEnd(t)
      PROVE  Serve(t)
  <2>1. /\ ctPc[t] = "recv"
        /\ \E l \in {"recv", "push", "close"} : ctPc' = [ctPc EXCEPT ![t] = l]
    BY <1>0, <1>4 DEF CtReadCommand, CtReadUnknown, CtReadNoMemory, CtReadEnd, CtAt, CtGoto,
                      CtTypes, ctVars
  <2>2. UNCHANGED <<mainConn, clientQ, respMap, entry, ctConn, fdOpen, peer>>
    BY <1>4 DEF CtReadCommand, CtReadUnknown, CtReadNoMemory, CtReadEnd,
                mainVars, queueVars, entryVars, ctVars
  <2>3. failures' = 0 => failures = 0
    BY <1>0, <1>4 DEF CtReadCommand, CtReadUnknown, CtReadNoMemory, CtReadEnd, Fail, MemTypes,
                      memVars
  <2> QED BY <2>1, <2>2, <2>3 DEF Serve, Serving
<1>5. ASSUME NEW t \in ClientThreads,
             CtPush(t) \/ CtLog(t) \/ CtLookup(t) \/ CtTake(t) \/ CtTimeout(t)
      PROVE  Serve(t)
  <2>1. /\ ctPc[t] \in {"push", "log", "lookup", "wait"}
        /\ \E l \in {"log", "lookup", "wait", "close", "recv"} :
             ctPc' = [ctPc EXCEPT ![t] = l] /\ (l = "wait" => ctConn[t] \in respMap)
    BY <1>5 DEF CtPush, CtLog, CtLookup, CtTake, CtTimeout, CtAt, CtGoto
  <2>2. UNCHANGED <<mainConn, clientQ, respMap, entry, ctConn, fdOpen, peer>>
    BY <1>5 DEF CtPush, CtLog, CtLookup, CtTake, CtTimeout, mainVars, queueVars, entryVars,
                sockVars
  <2>3. failures' = 0 => failures = 0
    BY <1>0, <1>5 DEF CtPush, CtLog, CtLookup, CtTake, CtTimeout, NoFailure, Fail, MemTypes,
                      memVars
  <2> QED BY <2>1, <2>2, <2>3 DEF Serve, Serving
<1> QED BY <1>1, <1>2, <1>3, <1>4, <1>5 DEF Step, MainNext, CtNext

(* main takes a connection that is nowhere else, and registers it. *)
LEMMA AcceptFacts ==
  ASSUME TypeOK, Places, Unconnected, NEW c \in Clients, MainAccept(c)
  PROVE  /\ mainConn = None /\ mainConn' = c
         /\ peer[c] = "off" /\ peer' = [peer EXCEPT ![c] = "up"]
         /\ fdOpen' = fdOpen \cup {c}
         /\ UNCHANGED <<clientQ, ctPc, ctConn>>
         /\ \/ respMap' = respMap \cup {c} /\ entry' = [entry EXCEPT ![c] = "live"]
            \/ failures' # 0 /\ UNCHANGED <<respMap, entry>>
         /\ failures' = 0 => failures = 0
<1>1. MemTypes
  BY TypeParts
<1> QED BY <1>1 DEF MainAccept, MainAt, register_client_response_queue, NoFailure, Fail,
                    Places, MemTypes, queueVars, ctVars

(* main hands its connection over, or loses it when an allocation fails. *)
LEMMA PushFacts ==
  ASSUME TypeOK, Places, MainPush
  PROVE  /\ mainConn \in Clients /\ mainConn' = None
         /\ \/ clientQ' = clientQ \cup {mainConn}
            \/ failures' # 0 /\ UNCHANGED clientQ
         /\ UNCHANGED <<respMap, entry, ctPc, ctConn, fdOpen, peer>>
         /\ failures' = 0 => failures = 0
<1>1. MemTypes /\ MainTypes
  BY TypeParts
<1> QED BY <1>1 DEF MainPush, MainAt, NoFailure, Fail, Places, MemTypes, MainTypes,
                    entryVars, ctVars, sockVars

LEMMA StepUnconnected ==
  ASSUME TypeOK, Places, EntriesHeld, Unconnected, Step
  PROVE  Unconnected'
<1>0. QueueTypes /\ EntryTypes /\ CtTypes /\ SockTypes
  BY TypeParts
<1>1. CASE Elsewhere
  BY <1>1 DEF Elsewhere, Unconnected
<1>2. ASSUME NEW c \in Clients, MainAccept(c) PROVE Unconnected'
  <2> SUFFICES ASSUME NEW d \in Clients, peer'[d] = "off"
               PROVE  /\ d \notin fdOpen' /\ d \notin respMap' /\ d \notin clientQ'
                      /\ d # mainConn' /\ entry'[d] = "none"
                      /\ \A t \in ClientThreads : ctConn'[t] # d
    BY DEF Unconnected
  <2>1. d # c /\ peer[d] = "off"
    BY <1>0, <1>2, AcceptFacts DEF SockTypes
  <2>2. entry'[d] = entry[d]
    BY <1>0, <1>2, <2>1, AcceptFacts DEF EntryTypes
  <2> QED BY <1>2, <2>1, <2>2, AcceptFacts DEF Unconnected
<1>3. CASE MainPush
  BY <1>3, PushFacts, ServerAssumption DEF Unconnected
<1>4. CASE MainExit
  BY <1>4 DEF MainExit, Unconnected, queueVars, ctVars, sockVars
<1>5. ASSUME NEW t \in ClientThreads, CtPop(t) PROVE Unconnected'
  BY <1>0, <1>5 DEF CtPop, Unconnected, CtTypes, QueueTypes, mainVars, entryVars, sockVars
<1>6. ASSUME NEW t \in ClientThreads, Serve(t) PROVE Unconnected'
  BY <1>6 DEF Serve, Unconnected
<1>7. ASSUME NEW t \in ClientThreads, CtClose(t) PROVE Unconnected'
  BY <1>7 DEF CtClose, Unconnected, mainVars, queueVars, entryVars
<1>8. ASSUME NEW t \in ClientThreads, CtRemove(t) PROVE Unconnected'
  BY <1>0, <1>8, ServerAssumption
     DEF CtRemove, Unconnected, CtTypes, mainVars, queueVars, sockVars
<1>9. ASSUME NEW t \in ClientThreads, CtCloseEntry(t) PROVE Unconnected'
  BY <1>0, <1>9 DEF CtCloseEntry, Unconnected, EntryTypes, mainVars, queueVars, sockVars
<1>10. ASSUME NEW t \in ClientThreads, CtFreeEntry(t) PROVE Unconnected'
  BY <1>0, <1>10, ServerAssumption
     DEF CtFreeEntry, Unconnected, CtTypes, EntryTypes, mainVars, queueVars, sockVars
<1> QED BY <1>1, <1>2, <1>3, <1>4, <1>5, <1>6, <1>7, <1>8, <1>9, <1>10, OwnerCases

LEMMA StepOwned ==
  ASSUME TypeOK, Places, EntriesHeld, Unconnected, Owned, Step
  PROVE  Owned'
<1>0. QueueTypes /\ CtTypes /\ SockTypes
  BY TypeParts
<1>1. CASE Elsewhere
  BY <1>1 DEF Elsewhere, Owned, Held, Owns
<1>2. ASSUME NEW c \in Clients, MainAccept(c) PROVE Owned'
  <2>1. \A d \in Clients : Held(d)' <=> Held(d) \/ d = c
    BY <1>2, AcceptFacts, ServerAssumption DEF Held, Owns
  <2> QED BY <1>2, <2>1, AcceptFacts, ServerAssumption DEF Owned, Unconnected
<1>3. CASE MainPush
  <2>1. failures' = 0 => \A d \in Clients : Held(d)' <=> Held(d)
    BY <1>3, PushFacts, ServerAssumption DEF Held, Owns
  <2> QED BY <1>0, <1>3, <2>1, PushFacts, ServerAssumption DEF Owned, QueueTypes
<1>4. CASE MainExit
  BY <1>4 DEF MainExit, Owned, Held, Owns, queueVars, ctVars, sockVars, memVars
<1>5. ASSUME NEW t \in ClientThreads, CtPop(t) PROVE Owned'
  <2>0. ctPc[t] = "pop" /\ ctConn[t] = None
    BY <1>5 DEF CtPop, CtAt, Places
  <2>1. UNCHANGED <<mainConn, fdOpen, failures>>
    BY <1>5 DEF CtPop, mainVars, sockVars, memVars
  <2>2. CASE UNCHANGED <<clientQ, ctConn>> /\ ctPc' = [ctPc EXCEPT ![t] = "done"]
    <3>1. \A d \in Clients : Held(d)' <=> Held(d)
      BY <1>0, <2>0, <2>1, <2>2 DEF Held, Owns, CtTypes
    <3> QED BY <2>1, <2>2, <3>1 DEF Owned
  <2>3. ASSUME NEW c \in clientQ, clientQ' = clientQ \ {c},
               ctConn' = [ctConn EXCEPT ![t] = c], ctPc' = [ctPc EXCEPT ![t] = "recv"]
        PROVE  Owned'
    <3>1. c \in Clients
      BY <1>0 DEF QueueTypes
    <3>2. /\ \A u \in ClientThreads : ctConn'[u] = IF u = t THEN c ELSE ctConn[u]
          /\ \A u \in ClientThreads : ctPc'[u] = IF u = t THEN "recv" ELSE ctPc[u]
      BY <1>0, <2>3 DEF CtTypes
    <3>3. \A d \in Clients : Held(d)' <=> Held(d)
      BY <2>0, <2>1, <2>3, <3>1, <3>2 DEF Held, Owns
    <3> QED BY <2>0, <2>1, <2>3, <3>1, <3>2, <3>3 DEF Owned
  <2> QED BY <1>5, <2>2, <2>3 DEF CtPop, CtGoto
<1>6. ASSUME NEW t \in ClientThreads, Serve(t) PROVE Owned'
  <2>1. \A d \in Clients : Held(d)' <=> Held(d)
    BY <1>0, <1>6 DEF Serve, Serving, Held, Owns, CtTypes
  <2> QED BY <1>6, <2>1 DEF Serve, Owned
<1>7. ASSUME NEW t \in ClientThreads, CtClose(t) PROVE Owned'
  <2>1. /\ ctPc[t] = "close" /\ ctPc' = [ctPc EXCEPT ![t] = "remove"]
        /\ fdOpen' = fdOpen \ {ctConn[t]}
        /\ UNCHANGED <<mainConn, clientQ, ctConn, failures>>
    BY <1>7 DEF CtClose, CtAt, CtGoto, mainVars, queueVars, memVars
  <2>2. ctConn[t] # None
    BY <2>1 DEF Places
  <2>3. \A d \in Clients : Held(d)' <=> Held(d) /\ d # ctConn[t]
    BY <1>0, <2>1, <2>2 DEF Held, Owns, Owned, CtTypes
  <2> QED BY <2>1, <2>3 DEF Owned
<1>8. ASSUME NEW t \in ClientThreads, CtRemove(t) \/ CtCloseEntry(t) \/ CtFreeEntry(t)
      PROVE  Owned'
  <2>1. /\ ctPc[t] \in {"remove", "close_entry", "free_entry"}
        /\ UNCHANGED <<mainConn, clientQ, fdOpen, failures>>
        /\ \E l \in {"pop", "close_entry", "free_entry"} : ctPc' = [ctPc EXCEPT ![t] = l]
        /\ ctConn' = ctConn \/ ctConn' = [ctConn EXCEPT ![t] = None]
    BY <1>8 DEF CtRemove, CtCloseEntry, CtFreeEntry, CtAt, CtGoto, mainVars, queueVars,
                sockVars, memVars
  <2>2. \A u \in ClientThreads : ctConn'[u] = ctConn[u] \/ (u = t /\ ctConn'[u] = None)
    BY <1>0, <2>1 DEF CtTypes
  <2>3. \A d \in Clients : Held(d)' <=> Held(d)
    BY <1>0, <2>1, <2>2, ServerAssumption DEF Held, Owns, CtTypes
  <2> QED BY <2>1, <2>2, <2>3 DEF Owned
<1> QED BY <1>1, <1>2, <1>3, <1>4, <1>5, <1>6, <1>7, <1>8, OwnerCases

LEMMA StepRegistered ==
  ASSUME TypeOK, Places, EntriesHeld, Unconnected, Owned, Registered, Shutdown, Step
  PROVE  Registered'
<1>0. QueueTypes /\ CtTypes
  BY TypeParts
<1> SUFFICES ASSUME failures' = 0, NEW d \in Clients, Held(d)'
             PROVE  d \in respMap'
  BY DEF Registered
<1>1. CASE Elsewhere
  BY <1>1 DEF Elsewhere, Registered, Held, Owns
<1>2. ASSUME NEW c \in Clients, MainAccept(c) PROVE d \in respMap'
  BY <1>2, AcceptFacts DEF Registered, Held, Owns
<1>3. CASE MainPush
  BY <1>3, PushFacts, ServerAssumption DEF Registered, Held, Owns
<1>4. CASE MainExit
  <2>1. UNCHANGED <<mainConn, clientQ, ctPc, ctConn, failures>>
    BY <1>4 DEF MainExit, queueVars, ctVars, memVars
  <2>2. \A t \in ClientThreads : ctPc[t] = "done"
    BY <1>4 DEF MainExit
  <2>3. mainConn = None
    BY <1>4 DEF MainExit, MainAt, Places
  <2>4. d \in clientQ
    BY <2>1, <2>2, <2>3, ServerAssumption DEF Held, Owns
  <2>5. PICK t \in ClientThreads : ctPc[t] = "done"
    BY <2>2, ServerAssumption
  <2> QED BY <2>4, <2>5 DEF Shutdown
<1>5. ASSUME NEW t \in ClientThreads, CtPop(t) PROVE d \in respMap'
  <2>1. UNCHANGED <<mainConn, respMap, failures>>
    BY <1>5 DEF CtPop, mainVars, entryVars, memVars
  <2>2. Held(d)
    BY <1>0, <1>5, <2>1 DEF CtPop, CtGoto, Held, Owns, CtTypes
  <2> QED BY <2>1, <2>2 DEF Registered
<1>6. ASSUME NEW t \in ClientThreads, Serve(t) PROVE d \in respMap'
  <2>1. Held(d)
    BY <1>0, <1>6 DEF Serve, Serving, Held, Owns, CtTypes
  <2> QED BY <1>6, <2>1 DEF Serve, Registered
<1>7. ASSUME NEW t \in ClientThreads, CtClose(t) PROVE d \in respMap'
  <2>1. UNCHANGED <<mainConn, clientQ, respMap, ctConn, failures>>
    BY <1>7 DEF CtClose, mainVars, queueVars, entryVars, memVars
  <2>2. Held(d)
    BY <1>0, <1>7, <2>1 DEF CtClose, CtGoto, Held, Owns, CtTypes
  <2> QED BY <2>1, <2>2 DEF Registered
<1>8. ASSUME NEW t \in ClientThreads, CtRemove(t) PROVE d \in respMap'
  <2>1. /\ UNCHANGED <<mainConn, clientQ, failures>>
        /\ respMap' = respMap \ {ctConn[t]}
        /\ ctPc[t] = "remove"
        /\ \E l \in {"pop", "close_entry"} : ctPc' = [ctPc EXCEPT ![t] = l]
        /\ ctConn' = ctConn \/ ctConn' = [ctConn EXCEPT ![t] = None]
    BY <1>8 DEF CtRemove, CtAt, CtGoto, mainVars, queueVars, memVars
  <2>2. ctConn[t] # None
    BY <2>1 DEF Places
  <2>3. Held(d)
    BY <1>0, <2>1, ServerAssumption DEF Held, Owns, CtTypes
  <2>4. d # ctConn[t]
    BY <1>0, <2>1, <2>2, <2>3 DEF Held, Owns, Owned, CtTypes
  <2> QED BY <2>1, <2>3, <2>4 DEF Registered
<1>9. ASSUME NEW t \in ClientThreads, CtCloseEntry(t) \/ CtFreeEntry(t) PROVE d \in respMap'
  <2>1. /\ UNCHANGED <<mainConn, clientQ, respMap, failures>>
        /\ \E l \in {"pop", "free_entry"} : ctPc' = [ctPc EXCEPT ![t] = l]
        /\ ctConn' = ctConn \/ ctConn' = [ctConn EXCEPT ![t] = None]
    BY <1>9 DEF CtCloseEntry, CtFreeEntry, CtGoto, mainVars, queueVars, memVars
  <2>2. Held(d)
    BY <1>0, <2>1, ServerAssumption DEF Held, Owns, CtTypes
  <2> QED BY <2>1, <2>2 DEF Registered
<1> QED BY <1>1, <1>2, <1>3, <1>4, <1>5, <1>6, <1>7, <1>8, <1>9, OwnerCases

(* The entries of the map, and those that are about to be freed. *)
LEMMA StepEntriesHeld ==
  ASSUME TypeOK, Places, Unconnected, Owned, EntriesHeld, Step
  PROVE  EntriesHeld'
<1>0. QueueTypes /\ CtTypes /\ EntryTypes
  BY TypeParts
<1>1. CASE Elsewhere
  BY <1>1 DEF Elsewhere, EntriesHeld
<1>2. ASSUME NEW c \in Clients, MainAccept(c) PROVE EntriesHeld'
  <2>1. /\ UNCHANGED <<ctPc, ctConn>> /\ \A t \in ClientThreads : ctConn[t] # c
        /\ c \notin respMap /\ entry[c] = "none"
    BY <1>2, AcceptFacts DEF Unconnected
  <2>2. CASE UNCHANGED <<respMap, entry>>
    BY <2>1, <2>2 DEF EntriesHeld
  <2>3. CASE respMap' = respMap \cup {c} /\ entry' = [entry EXCEPT ![c] = "live"]
    <3>1. \A d \in Clients : entry'[d] = IF d = c THEN "live" ELSE entry[d]
      BY <1>0, <2>3 DEF EntryTypes
    <3>2. \A t \in ClientThreads : ctPc[t] \in {"close_entry", "free_entry", "wait"}
                                     => ctConn[t] \in Clients
      BY <1>0 DEF Places, CtTypes
    <3> QED BY <1>0, <2>1, <2>3, <3>1, <3>2 DEF EntriesHeld, EntryTypes
  <2> QED BY <1>2, <2>2, <2>3, AcceptFacts
<1>3. CASE MainPush
  BY <1>3, PushFacts DEF EntriesHeld
<1>4. CASE MainExit
  <2>1. /\ \A t \in ClientThreads : ctPc'[t] = "done" /\ ctPc[t] = "done"
        /\ respMap' = {}
        /\ entry' = [c \in Clients |-> IF c \in respMap THEN "freed" ELSE entry[c]]
    BY <1>4 DEF MainExit, ctVars
  <2> QED BY <1>0, <2>1 DEF EntriesHeld
<1>5. ASSUME NEW t \in ClientThreads, CtPop(t) PROVE EntriesHeld'
  <2>1. /\ ctPc[t] = "pop" /\ UNCHANGED <<respMap, entry>>
        /\ \A u \in ClientThreads \ {t} : ctPc'[u] = ctPc[u] /\ ctConn'[u] = ctConn[u]
        /\ ctPc'[t] \in {"recv", "done"}
    BY <1>0, <1>5 DEF CtPop, CtAt, CtGoto, CtTypes, entryVars
  <2> QED BY <2>1 DEF EntriesHeld
<1>6. ASSUME NEW t \in ClientThreads, Serve(t) PROVE EntriesHeld'
  <2>1. /\ ctPc[t] \in Serving /\ UNCHANGED <<respMap, entry, ctConn>>
        /\ \A u \in ClientThreads \ {t} : ctPc'[u] = ctPc[u]
        /\ ctPc'[t] \in Serving /\ (ctPc'[t] = "wait" => ctConn[t] \in respMap)
    BY <1>0, <1>6 DEF Serve, CtTypes
  <2> QED BY <2>1 DEF EntriesHeld, Serving
<1>7. ASSUME NEW t \in ClientThreads, CtClose(t) PROVE EntriesHeld'
  <2>1. /\ ctPc[t] = "close" /\ UNCHANGED <<respMap, entry, ctConn>>
        /\ \A u \in ClientThreads \ {t} : ctPc'[u] = ctPc[u]
        /\ ctPc'[t] = "remove"
    BY <1>0, <1>7 DEF CtClose, CtAt, CtGoto, CtTypes, entryVars
  <2> QED BY <2>1 DEF EntriesHeld
<1>8. ASSUME NEW t \in ClientThreads, CtRemove(t) PROVE EntriesHeld'
  <2>1. /\ ctPc[t] = "remove" /\ respMap' = respMap \ {ctConn[t]} /\ UNCHANGED entry
        /\ \A u \in ClientThreads \ {t} : ctPc'[u] = ctPc[u] /\ ctConn'[u] = ctConn[u]
        /\ IF ctConn[t] \in respMap THEN ctPc'[t] = "close_entry" /\ ctConn'[t] = ctConn[t]
                                    ELSE ctPc'[t] = "pop" /\ respMap' = respMap
    BY <1>0, <1>8 DEF CtRemove, CtAt, CtGoto, CtTypes
  <2>2. \A u \in ClientThreads \ {t} : ctConn[u] # ctConn[t]
    BY <2>1 DEF Owned, Places
  <2> QED BY <2>1, <2>2 DEF EntriesHeld
<1>9. ASSUME NEW t \in ClientThreads, CtCloseEntry(t) PROVE EntriesHeld'
  <2>1. /\ ctPc[t] = "close_entry" /\ UNCHANGED <<respMap, ctConn>>
        /\ \A u \in ClientThreads \ {t} : ctPc'[u] = ctPc[u]
        /\ ctPc'[t] = "free_entry"
        /\ entry' = [entry EXCEPT ![ctConn[t]] = "closed"]
    BY <1>0, <1>9 DEF CtCloseEntry, CtAt, CtGoto, CtTypes
  <2>2. ctConn[t] \in Clients /\ \A u \in ClientThreads \ {t} : ctConn[u] # ctConn[t]
    BY <1>0, <2>1 DEF Owned, Places, CtTypes
  <2>3. \A c \in Clients : entry'[c] = IF c = ctConn[t] THEN "closed" ELSE entry[c]
    BY <1>0, <2>1 DEF EntryTypes
  <2>4. \A u \in ClientThreads : ctPc[u] \in {"close_entry", "free_entry"}
                                   => ctConn[u] \in Clients
    BY <1>0 DEF Places, CtTypes
  <2>5. ctConn[t] \notin respMap /\ respMap \subseteq Clients
    BY <1>0, <2>1 DEF EntriesHeld, EntryTypes
  <2>6. \A c \in respMap' : entry'[c] = "live"
    BY <2>1, <2>3, <2>5 DEF EntriesHeld
  <2>7. ASSUME NEW u \in ClientThreads
        PROVE  /\ ctPc'[u] = "close_entry" =>
                    ctConn'[u] \notin respMap' /\ entry'[ctConn'[u]] = "live"
               /\ ctPc'[u] = "free_entry" =>
                    ctConn'[u] \notin respMap' /\ entry'[ctConn'[u]] = "closed"
               /\ ctPc'[u] = "wait" => ctConn'[u] \in respMap'
    BY <2>1, <2>2, <2>3, <2>4, <2>5 DEF EntriesHeld
  <2>8. ASSUME NEW c \in Clients \ respMap'
        PROVE  /\ entry'[c] = "live" =>
                    \E u \in ClientThreads : ctConn'[u] = c /\ ctPc'[u] = "close_entry"
               /\ entry'[c] = "closed" =>
                    \E u \in ClientThreads : ctConn'[u] = c /\ ctPc'[u] = "free_entry"
    BY <2>1, <2>2, <2>3 DEF EntriesHeld
  <2> QED BY <2>6, <2>7, <2>8 DEF EntriesHeld
<1>10. ASSUME NEW t \in ClientThreads, CtFreeEntry(t) PROVE EntriesHeld'
  <2>1. /\ ctPc[t] = "free_entry" /\ UNCHANGED respMap
        /\ \A u \in ClientThreads \ {t} : ctPc'[u] = ctPc[u] /\ ctConn'[u] = ctConn[u]
        /\ ctPc'[t] = "pop"
        /\ entry' = [entry EXCEPT ![ctConn[t]] = "freed"]
    BY <1>0, <1>10 DEF CtFreeEntry, CtAt, CtGoto, CtTypes
  <2>2. ctConn[t] \in Clients /\ \A u \in ClientThreads \ {t} : ctConn[u] # ctConn[t]
    BY <1>0, <2>1 DEF Owned, Places, CtTypes
  <2>3. \A c \in Clients : entry'[c] = IF c = ctConn[t] THEN "freed" ELSE entry[c]
    BY <1>0, <2>1 DEF EntryTypes
  <2>4. \A u \in ClientThreads : ctPc[u] \in {"close_entry", "free_entry"}
                                   => ctConn[u] \in Clients
    BY <1>0 DEF Places, CtTypes
  <2>5. ctConn[t] \notin respMap /\ respMap \subseteq Clients
    BY <1>0, <2>1 DEF EntriesHeld, EntryTypes
  <2>6. \A c \in respMap' : entry'[c] = "live"
    BY <2>1, <2>3, <2>5 DEF EntriesHeld
  <2>7. ASSUME NEW u \in ClientThreads
        PROVE  /\ ctPc'[u] = "close_entry" =>
                    ctConn'[u] \notin respMap' /\ entry'[ctConn'[u]] = "live"
               /\ ctPc'[u] = "free_entry" =>
                    ctConn'[u] \notin respMap' /\ entry'[ctConn'[u]] = "closed"
               /\ ctPc'[u] = "wait" => ctConn'[u] \in respMap'
    BY <2>1, <2>2, <2>3, <2>4, <2>5 DEF EntriesHeld
  <2>8. ASSUME NEW c \in Clients \ respMap'
        PROVE  /\ entry'[c] = "live" =>
                    \E u \in ClientThreads : ctConn'[u] = c /\ ctPc'[u] = "close_entry"
               /\ entry'[c] = "closed" =>
                    \E u \in ClientThreads : ctConn'[u] = c /\ ctPc'[u] = "free_entry"
    BY <2>1, <2>2, <2>3 DEF EntriesHeld
  <2> QED BY <2>6, <2>7, <2>8 DEF EntriesHeld
<1> QED BY <1>1, <1>2, <1>3, <1>4, <1>5, <1>6, <1>7, <1>8, <1>9, <1>10, OwnerCases

LEMMA StepNeverRegistered ==
  ASSUME TypeOK, Places, Unconnected, Owned, EntriesHeld, NeverRegistered, Shutdown, Step
  PROVE  NeverRegistered'
<1>0. QueueTypes /\ CtTypes /\ EntryTypes
  BY TypeParts
<1> SUFFICES ASSUME NEW d \in Clients, d \notin respMap', Held(d)'
             PROVE  entry'[d] = "none"
  BY DEF NeverRegistered
<1>1. CASE Elsewhere
  BY <1>1 DEF Elsewhere, NeverRegistered, Held, Owns
<1>2. ASSUME NEW c \in Clients, MainAccept(c) PROVE entry'[d] = "none"
  <2>1. Held(d) \/ d = c
    BY <1>2, AcceptFacts DEF Held, Owns
  <2>2. entry'[d] = entry[d] /\ d \notin respMap
    BY <1>0, <1>2, AcceptFacts DEF EntryTypes
  <2> QED BY <1>2, <2>1, <2>2, AcceptFacts DEF NeverRegistered, Unconnected
<1>3. CASE MainPush
  <2>1. Held(d)
    BY <1>3, PushFacts, ServerAssumption DEF Held, Owns
  <2> QED BY <1>3, <2>1, PushFacts DEF NeverRegistered
<1>4. CASE MainExit
  <2>1. UNCHANGED <<mainConn, clientQ, ctPc, ctConn>>
    BY <1>4 DEF MainExit, queueVars, ctVars
  <2>2. \A t \in ClientThreads : ctPc[t] = "done"
    BY <1>4 DEF MainExit
  <2>3. mainConn = None
    BY <1>4 DEF MainExit, MainAt, Places
  <2>4. d \in clientQ
    BY <2>1, <2>2, <2>3, ServerAssumption DEF Held, Owns
  <2>5. PICK t \in ClientThreads : ctPc[t] = "done"
    BY <2>2, ServerAssumption
  <2> QED BY <2>4, <2>5 DEF Shutdown
<1>5. ASSUME NEW t \in ClientThreads, CtPop(t) PROVE entry'[d] = "none"
  <2>1. UNCHANGED <<mainConn, respMap, entry>>
    BY <1>5 DEF CtPop, mainVars, entryVars
  <2>2. Held(d)
    BY <1>0, <1>5, <2>1 DEF CtPop, CtGoto, Held, Owns, CtTypes
  <2> QED BY <2>1, <2>2 DEF NeverRegistered
<1>6. ASSUME NEW t \in ClientThreads, Serve(t) PROVE entry'[d] = "none"
  <2>1. Held(d)
    BY <1>0, <1>6 DEF Serve, Serving, Held, Owns, CtTypes
  <2> QED BY <1>6, <2>1 DEF Serve, NeverRegistered
<1>7. ASSUME NEW t \in ClientThreads, CtClose(t) PROVE entry'[d] = "none"
  <2>1. UNCHANGED <<mainConn, clientQ, respMap, entry, ctConn>>
    BY <1>7 DEF CtClose, mainVars, queueVars, entryVars
  <2>2. Held(d)
    BY <1>0, <1>7, <2>1 DEF CtClose, CtGoto, Held, Owns, CtTypes
  <2> QED BY <2>1, <2>2 DEF NeverRegistered
<1>8. ASSUME NEW t \in ClientThreads, CtRemove(t) \/ CtCloseEntry(t) \/ CtFreeEntry(t)
      PROVE  entry'[d] = "none"
  <2>1. /\ UNCHANGED <<mainConn, clientQ>>
        /\ ctPc[t] \in {"remove", "close_entry", "free_entry"}
        /\ \E l \in {"pop", "close_entry", "free_entry"} : ctPc' = [ctPc EXCEPT ![t] = l]
        /\ ctConn' = ctConn \/ ctConn' = [ctConn EXCEPT ![t] = None]
    BY <1>8 DEF CtRemove, CtCloseEntry, CtFreeEntry, CtAt, CtGoto, mainVars, queueVars
  <2>2. ctConn[t] # None
    BY <2>1 DEF Places
  <2>3. Held(d)
    BY <1>0, <2>1, ServerAssumption DEF Held, Owns, CtTypes
  <2>4. d # ctConn[t]
    BY <1>0, <2>1, <2>2, <2>3 DEF Held, Owns, Owned, CtTypes
  <2>5. d \notin respMap /\ entry'[d] = entry[d]
    BY <1>0, <1>8, <2>4 DEF CtRemove, CtCloseEntry, CtFreeEntry, EntryTypes
  <2> QED BY <2>3, <2>5 DEF NeverRegistered
<1> QED BY <1>1, <1>2, <1>3, <1>4, <1>5, <1>6, <1>7, <1>8, OwnerCases
-----------------------------------------------------------------------------
(* The end of the threads                                                  *)

LEMMA StepShutdown ==
  ASSUME TypeOK, Places, Shutdown, Step
  PROVE  Shutdown'
<1>0. MainTypes /\ QueueTypes /\ CtTypes /\ WTypes
  BY TypeParts
<1> USE DEF mainVars, queueVars, entryVars, ctVars, wVars, Shutdown
<1>1. CASE Outside
  BY <1>1 DEF Outside
<1>2. ASSUME NEW c \in Clients, MainAccept(c) PROVE Shutdown'
  BY <1>2 DEF MainAccept, MainAt
<1>3. CASE MainPush
  BY <1>3 DEF MainPush, MainAt
<1>4. CASE MainCloseClientQueue \/ MainCloseTaskQueue
  BY <1>4 DEF MainCloseClientQueue, MainCloseTaskQueue, MainAt
<1>5. CASE MainExit
  BY <1>5 DEF MainExit, MainAt
<1>6. ASSUME NEW t \in ClientThreads, CtNext(t) PROVE Shutdown'
  <2>1. CASE CtPop(t)
    BY <1>0, <2>1 DEF CtPop, CtAt, CtGoto, CtTypes
  <2>2. CASE CtPush(t)
    BY <1>0, <2>2 DEF CtPush, CtAt, CtGoto, CtTypes
  <2>3. CASE ~ CtPop(t) /\ ~ CtPush(t)
    <3>1. /\ ctPc[t] # "done"
          /\ \A u \in ClientThreads : ctPc'[u] = "done" <=> ctPc[u] = "done"
      BY <1>0, <1>6, <2>3
         DEF CtNext, CtReadCommand, CtReadUnknown, CtReadNoMemory, CtReadEnd, CtLog, CtLookup,
             CtTake, CtTimeout, CtClose, CtRemove, CtCloseEntry, CtFreeEntry, CtAt, CtGoto,
             CtTypes
    <3>2. /\ UNCHANGED <<mainPc, closed, clientQ, taskQ, wPc>>
          /\ respMap' \subseteq respMap
      BY <1>6, <2>3
         DEF CtNext, CtReadCommand, CtReadUnknown, CtReadNoMemory, CtReadEnd, CtLog, CtLookup,
             CtTake, CtTimeout, CtClose, CtRemove, CtCloseEntry, CtFreeEntry
    <3> QED BY <3>1, <3>2
  <2> QED BY <2>1, <2>2, <2>3
<1>7. ASSUME NEW w \in Workers, WNext(w) PROVE Shutdown'
  BY <1>0, <1>7 DEF WNext, WPop, WFind, WDeliver, WFree, WAt, WGoto, WTypes
<1> QED BY <1>1, <1>2, <1>3, <1>4, <1>5, <1>6, <1>7 DEF Step, MainNext
-----------------------------------------------------------------------------
LEMMA OwnerInit == Init => OwnerInv
<1> SUFFICES ASSUME Init PROVE OwnerInv
  OBVIOUS
<1> USE ServerAssumption DEF Init
<1>1. TypeOK
  <2>1. MainTypes /\ QueueTypes /\ CtTypes /\ WTypes /\ MemTypes /\ crashed \in BOOLEAN
    BY DEF MainTypes, QueueTypes, CtTypes, WTypes, MemTypes
  <2>2. \A S : << >> \in Seq(S)
    OBVIOUS
  <2>3. EntryTypes /\ SockTypes /\ ReplyTypes
    BY <2>2 DEF EntryTypes, SockTypes, ReplyTypes
  <2> QED BY <2>1, <2>3, TypeParts
<1>2. Places /\ LinesRead
  BY DEF Places, LinesRead
<1>3. Unconnected /\ Owned /\ Registered
  BY DEF Unconnected, Owned, Registered, Held, Owns
<1>4. EntriesHeld /\ NeverRegistered
  BY DEF EntriesHeld, NeverRegistered
<1>5. Shutdown
  BY DEF Shutdown
<1> QED BY <1>1, <1>2, <1>3, <1>4, <1>5 DEF OwnerInv

LEMMA OwnerStep ==
  ASSUME OwnerInv, Step
  PROVE  OwnerInv'
<1> USE DEF OwnerInv
<1>1. TypeOK' /\ LinesRead' /\ Places'
  BY StepTypes, StepPlaces
<1>2. Unconnected' /\ Owned' /\ Registered'
  BY StepUnconnected, StepOwned, StepRegistered
<1>3. EntriesHeld' /\ NeverRegistered' /\ Shutdown'
  BY StepEntriesHeld, StepNeverRegistered, StepShutdown
<1> QED BY <1>1, <1>2, <1>3

(* OwnerInv holds for the server with the peers of Next. *)
THEOREM OwnerInvariance == Spec => []OwnerInv
<1>1. OwnerInv /\ [Next]_vars => OwnerInv'
  BY NextIsStep, OwnerStep DEF OwnerInv
<1> QED BY <1>1, OwnerInit, PTL DEF Spec

LEMMA OwnedConnections == TypeOK /\ Owned => ConnectionOwned
<1> SUFFICES ASSUME TypeOK, Owned PROVE ConnectionOwned
  OBVIOUS
<1> DEFINE owned == clientQ \cup {c \in Clients : \/ mainConn = c
                                                  \/ \E t \in ClientThreads : Owns(t, c)}
<1>1. clientQ \subseteq Clients /\ fdOpen \subseteq Clients
  BY DEF TypeOK
<1>2. \A c \in Clients : c \in owned <=> Held(c)
  BY DEF Held
<1>3. owned \subseteq Clients
  BY <1>1
<1>4. failures = 0 => fdOpen = owned
  <2> HIDE DEF owned
  <2> QED BY <1>1, <1>2, <1>3 DEF Owned
<1> QED BY <1>4 DEF ConnectionOwned, Owned

(* The types hold in every state. *)
THEOREM TypeCorrect == Spec => []TypeOK
<1>1. OwnerInv => TypeOK
  BY DEF OwnerInv
<1> QED BY <1>1, OwnerInvariance, PTL

(* An accepted connection has one owner until its socket is closed: main,  *)
(* client_queue or one client thread.                                      *)
THEOREM ConnectionsOwned == Spec => []ConnectionOwned
<1>1. OwnerInv => ConnectionOwned
  BY OwnedConnections DEF OwnerInv
<1> QED BY <1>1, OwnerInvariance, PTL

(* The response queue that a client thread looks for is there, as long as  *)
(* no allocation failed.                                                   *)
THEOREM ServedRegistered == Spec => []ServedClientRegistered
<1>1. OwnerInv => ServedClientRegistered
  BY DEF OwnerInv, ServedClientRegistered, Registered, EntriesHeld, Held
<1> QED BY <1>1, OwnerInvariance, PTL

(* deregister_client_response_queue and the end of main free each entry of *)
(* the response map once.                                                  *)
THEOREM EntriesOnce == Spec => []EntriesFreedOnce
<1>1. OwnerInv => EntriesFreedOnce
  BY DEF OwnerInv, EntriesFreedOnce, EntriesHeld, TypeOK
<1> QED BY <1>1, OwnerInvariance, PTL

(* When main has joined its threads there is no connection and no task     *)
(* left, and no entry is allocated.                                        *)
THEOREM ExitsClean == Spec => []CleanExit
<1>1. OwnerInv => CleanExit
  <2> SUFFICES ASSUME OwnerInv, mainPc = "exit"
               PROVE  /\ taskQ = {} /\ clientQ = {}
                      /\ failures = 0 => fdOpen = {}
                      /\ \A c \in Clients : entry[c] \in {"none", "freed"}
    BY DEF CleanExit
  <2>1. /\ \A t \in ClientThreads : ctPc[t] = "done"
        /\ \A w \in Workers : wPc[w] = "done"
        /\ respMap = {}
    BY DEF OwnerInv, Shutdown
  <2>2. taskQ = {} /\ clientQ = {}
    BY <2>1, ServerAssumption DEF OwnerInv, Shutdown
  <2>3. mainConn = None
    BY DEF OwnerInv, Places
  <2>4. \A c \in Clients : ~ Held(c)
    BY <2>1, <2>2, <2>3, ServerAssumption DEF Held, Owns
  <2>5. failures = 0 => fdOpen = {}
    BY <2>4 DEF OwnerInv, Owned, TypeOK
  <2>6. \A c \in Clients : entry[c] \in {"none", "freed"}
    <3>1. EntryTypes /\ EntriesHeld
      BY TypeParts DEF OwnerInv
    <3> QED BY <2>1, <3>1 DEF EntriesHeld, EntryTypes
  <2> QED BY <2>2, <2>5, <2>6
<1> QED BY <1>1, OwnerInvariance, PTL
=============================================================================
