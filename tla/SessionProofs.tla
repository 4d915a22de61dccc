--------------------------- MODULE SessionProofs ---------------------------
(***************************************************************************)
(* Proofs about the client program and the server together, for any        *)
(* number of programs, commands, threads, timeouts and failures.  What is  *)
(* known about the server comes from ServerProofs and ReplyProofs, which   *)
(* allow for any peers.                                                    *)
(***************************************************************************)
EXTENDS Session, ReplyProofs

(* What is behind a line: a request, or QUIT. *)
Quits == [by : Clients, cmd : {"quit"}, user : Users, ok : BOOLEAN, cut : BOOLEAN]
Asked == Requests \cup Quits

Talking == {"prompt", "reply", "header"}

(* The program's variables are functions on the connections. *)
Total(f) == f = [c \in Clients |-> f[c]]

Functions ==
    /\ Total(place) /\ Total(user) /\ Total(req) /\ Total(asked) /\ Total(partial)
    /\ Total(taken) /\ files \in [Temps -> (Clients \cup {None}) \X Nat]
    /\ broken \subseteq Clients /\ splits \in 0 .. MaxSplits

(* The program of c, SessionTypeOK included. *)
ProgramTypes(c) ==
    /\ place[c] \in Talking \cup {"off", "bye", "left"}
    /\ user[c] \in Users \cup {None}
    /\ req[c] \in Requests \cup {None}
    /\ partial[c] \in Requests \cup {None}
    /\ asked[c] \in Seq(Asked) /\ taken[c] \in Nat
    /\ place[c] \in {"reply", "header"} => req[c] \in Requests
    /\ partial[c] # None => partial[c].cut

(* A line is what the program meant by it. *)
Behind(c) ==
    /\ Len(asked[c]) = Len(sent[c])
    /\ \A n \in 1 .. Len(asked[c]) : sent[c][n] = LineOf(asked[c][n].cmd)

(* How far the conversation has come. *)
Stage(c) ==
    /\ place[c] = "off" <=> peer[c] = "off"
    /\ place[c] = "off" => Len(sent[c]) = 0 /\ partial[c] = None /\ taken[c] = 0
    /\ peer[c] = "gone" => place[c] = "left"
    /\ partial[c] # None /\ place[c] # "left" => Len(sent[c]) < MaxLines
    /\ place[c] \in Talking \cup {"off"} =>
         \A n \in 1 .. Len(asked[c]) : asked[c][n] \in Requests

(* What the program wrote is there only while the upload waits for the     *)
(* reply.                                                                  *)
FileStage(c) ==
    \A s \in Temps, n \in Nat \ {0} :
      files[s] = <<c, n>> =>
        place[c] = "left" \/ (place[c] = "reply" /\ req[c].cmd = "upload" /\ req[c].tmp = s)

(* The socket of a connection that is held somewhere is open. *)
HeldOpen == \A c \in Clients : Held(c) => c \in fdOpen

(* A thread is about to close c. *)
Shut(c) == \E t \in ClientThreads : ctConn[t] = c /\ ctPc[t] = "close"

(* That is so only after QUIT or when the peer has gone. *)
OpenInv(c) == failures = 0 /\ place[c] \in Talking => c \in fdOpen /\ ~ Shut(c)

(* The replies that will ever be written, if no more lines are sent. *)
Final(c) ==
    IF HungUp(c) THEN Len(out[c])
    ELSE Len(sent[c]) + One(partial[c] # None /\ place[c] # "left")

(* RepliesRead, for the replies that are still to come too. *)
ReadInv(c) ==
    /\ taken[c] <= 2 * Len(out[c])
    /\ 2 * Final(c) - taken[c] <= 2 + 2 * splits
    /\ place[c] \in {"prompt", "header"} => 2 * Final(c) - taken[c] <= 2 * splits

(* c is with the server, and nobody is about to close it. *)
Open(c) == Held(c) /\ ~ Shut(c)

(* Until a timeout, the k-th reply answers the k-th line. *)
NumberInv(c) ==
    failures = 0 /\ NoTimeout(out[c]) =>
      /\ \A k \in 1 .. Len(out[c]) : out[c][k] = k
      /\ Open(c) => rd[c] = Len(out[c]) + One(Unanswered(c))

(* Nothing more will come. *)
Over(c) == taken[c] >= 2 * Len(sent[c]) \/ (HungUp(c) /\ taken[c] >= 2 * Len(out[c]))

(* What a program that waits will read, if replies are read whole, is the  *)
(* reply to its last request.                                              *)
LastInv(c) ==
    splits = 0 =>
      /\ taken[c] % 2 = 0
      /\ place[c] = "reply" =>
           \/ Over(c)
           \/ /\ Len(asked[c]) > 0 /\ asked[c][Len(asked[c])] = req[c]
              /\ taken[c] >= 2 * (Len(asked[c]) - 1)

Quiet(c) == NoTimeout(out[c]) /\ failures = 0 /\ splits = 0

(* LoginTruthful *)
Truthful(c) ==
    IF Accepted(c) = {} THEN user[c] = None
    ELSE \E n \in Accepted(c) :
           (\A m \in Accepted(c) : m <= n) /\ user[c] = asked[c][n].user

LoginInv(c) == Quiet(c) => Truthful(c)

(* The task is not carried out yet; see Undone. *)
Waiting(a) ==
    \/ a \in taskQ
    \/ \E w \in Workers : wPc[w] = "find" /\ With(w, a)
    \/ \E t \in ClientThreads : MadeBy(t, a)

(* The line n is not read yet, or its task is not carried out. *)
Due(c, n) == n > rd[c] \/ \E a \in live : Waiting(a) /\ a.client = c /\ a.n = n

Others(c, f) == f[1] \in Clients \ {c}

(* UploadSource: only other programs touch the file of an upload that is   *)
(* due.                                                                    *)
SourceInv(c) ==
    Quiet(c) /\ ~ crashed /\ place[c] # "left" =>
      \A n \in 1 .. Len(sent[c]) :
        asked[c][n].cmd = "upload" /\ Due(c, n) =>
          LET f == files[asked[c][n].tmp]
          IN  f = <<c, n>> \/ Others(c, f)

(* The inductive invariant. *)
ProgramInv(c) ==
    /\ ProgramTypes(c) /\ Behind(c) /\ Stage(c) /\ FileStage(c)
    /\ OpenInv(c) /\ ReadInv(c) /\ NumberInv(c) /\ LastInv(c)
    /\ LoginInv(c) /\ SourceInv(c)

SessionInv ==
    /\ ReplyInv /\ HeldOpen /\ Functions
    /\ \A c \in Clients : ProgramInv(c)
-----------------------------------------------------------------------------
(* The server: what a step does to a connection.                           *)

(* A connection is accepted, or is closed by the thread that has it, or    *)
(* stays open or closed.                                                   *)
LEMMA Holding ==
  ASSUME OwnerInv, Step, NEW c \in Clients
  PROVE  \/ (c \in fdOpen' <=> c \in fdOpen) /\ (Held(c)' => Held(c))
         \/ MainAccept(c)
         \/ c \notin fdOpen' /\ ~ Held(c)' /\ Shut(c)
<1>0. QueueTypes /\ CtTypes /\ SockTypes /\ Places
  BY TypeParts DEF OwnerInv
<1> DEFINE Kept == (c \in fdOpen' <=> c \in fdOpen) /\ (Held(c)' => Held(c))
<1>1. CASE Elsewhere
  BY <1>1 DEF Elsewhere, Held, Owns
<1>2. ASSUME NEW d \in Clients, d # c, MainAccept(d) PROVE Kept
  BY <1>2, AcceptFacts, ServerAssumption DEF OwnerInv, Held, Owns
<1>3. CASE MainPush
  BY <1>3, PushFacts, ServerAssumption DEF OwnerInv, Held, Owns
<1>4. CASE MainExit
  BY <1>4 DEF MainExit, Held, Owns, queueVars, ctVars, sockVars
<1>5. ASSUME NEW t \in ClientThreads, CtPop(t) PROVE Kept
  <2>1. UNCHANGED <<mainConn, fdOpen>> /\ ctPc[t] = "pop"
    BY <1>5 DEF CtPop, CtAt, mainVars, sockVars
  <2>2. CASE UNCHANGED <<clientQ, ctConn>> /\ ctPc' = [ctPc EXCEPT ![t] = "done"]
    BY <1>0, <2>1, <2>2 DEF Held, Owns, CtTypes
  <2>3. ASSUME NEW d \in clientQ, clientQ' = clientQ \ {d},
               ctConn' = [ctConn EXCEPT ![t] = d], ctPc' = [ctPc EXCEPT ![t] = "recv"]
        PROVE  Kept
    BY <1>0, <2>1, <2>3 DEF Held, Owns, CtTypes
  <2> QED BY <1>5, <2>2, <2>3 DEF CtPop, CtGoto
<1>6. ASSUME NEW t \in ClientThreads, Serve(t) PROVE Kept
  BY <1>0, <1>6 DEF Serve, Serving, Held, Owns, CtTypes
<1>7. ASSUME NEW t \in ClientThreads, CtClose(t)
      PROVE  Kept \/ (c \notin fdOpen' /\ ~ Held(c)' /\ Shut(c))
  <2>1. /\ ctPc[t] = "close" /\ ctPc' = [ctPc EXCEPT ![t] = "remove"]
        /\ fdOpen' = fdOpen \ {ctConn[t]}
        /\ UNCHANGED <<mainConn, clientQ, ctConn>>
    BY <1>7 DEF CtClose, CtAt, CtGoto, mainVars, queueVars
  <2>2. Held(c)' <=> Held(c) /\ c # ctConn[t]
    BY <1>0, <2>1 DEF Held, Owns, OwnerInv, Owned, Places, CtTypes
  <2> QED BY <2>1, <2>2 DEF Shut
<1>8. ASSUME NEW t \in ClientThreads, CtRemove(t) \/ CtCloseEntry(t) \/ CtFreeEntry(t)
      PROVE  Kept
  <2>1. /\ ctPc[t] \in {"remove", "close_entry", "free_entry"}
        /\ UNCHANGED <<mainConn, clientQ, fdOpen>>
        /\ \E l \in {"pop", "close_entry", "free_entry"} : ctPc' = [ctPc EXCEPT ![t] = l]
        /\ ctConn' = ctConn \/ ctConn' = [ctConn EXCEPT ![t] = None]
    BY <1>8 DEF CtRemove, CtCloseEntry, CtFreeEntry, CtAt, CtGoto, mainVars, queueVars, sockVars
  <2>2. \A u \in ClientThreads : ctConn'[u] = ctConn[u] \/ (u = t /\ ctConn'[u] = None)
    BY <1>0, <2>1 DEF CtTypes
  <2> QED BY <1>0, <2>1, <2>2, ServerAssumption DEF Held, Owns, CtTypes
<1> QED BY <1>1, <1>2, <1>3, <1>4, <1>5, <1>6, <1>7, <1>8, OwnerCases DEF OwnerInv

LEMMA StepHeldOpen ==
  ASSUME OwnerInv, HeldOpen, Step
  PROVE  HeldOpen'
<1> SUFFICES ASSUME NEW c \in Clients, Held(c)' PROVE c \in fdOpen'
  BY DEF HeldOpen
<1>1. MainAccept(c) => c \in fdOpen'
  BY DEF MainAccept
<1> QED BY <1>1, Holding DEF HeldOpen

(* Where a thread is about to close its connection, and how it got there. *)
LEMMA Shutting ==
  ASSUME OwnerInv, Step, NEW c \in Clients
  PROVE  /\ Shut(c) => Shut(c)' \/ ~ Held(c)'
         /\ Shut(c)' => \/ Shut(c)
                        \/ \E t \in ClientThreads : ctConn[t] = c /\ CtReadEnd(t)
                        \/ \E t \in ClientThreads : Owns(t, c) /\ c \notin respMap
<1>0. QueueTypes /\ CtTypes /\ SockTypes /\ Places
  BY TypeParts DEF OwnerInv
<1>1. CASE UNCHANGED <<ctPc, ctConn>>
  BY <1>1 DEF Shut
<1>2. ASSUME NEW t \in ClientThreads, CtPop(t) \/ CtRemove(t) \/ CtCloseEntry(t) \/ CtFreeEntry(t)
      PROVE  Shut(c)' <=> Shut(c)
  <2>1. /\ ctPc[t] # "close"
        /\ \E l \in {"recv", "done", "pop", "close_entry", "free_entry"} :
             ctPc' = [ctPc EXCEPT ![t] = l]
        /\ \A u \in ClientThreads : u # t => ctConn'[u] = ctConn[u]
    BY <1>0, <1>2 DEF CtPop, CtRemove, CtCloseEntry, CtFreeEntry, CtAt, CtGoto, CtTypes
  <2> QED BY <1>0, <2>1 DEF Shut, CtTypes
<1>3. ASSUME NEW t \in ClientThreads, CtClose(t)
      PROVE  /\ Shut(c)' => Shut(c)
             /\ Shut(c) => Shut(c)' \/ ~ Held(c)'
  <2>1. /\ ctPc[t] = "close" /\ ctPc' = [ctPc EXCEPT ![t] = "remove"]
        /\ UNCHANGED <<mainConn, clientQ, ctConn>>
    BY <1>3 DEF CtClose, CtAt, CtGoto, mainVars, queueVars
  <2>2. Held(c)' <=> Held(c) /\ c # ctConn[t]
    BY <1>0, <2>1 DEF Held, Owns, OwnerInv, Owned, Places, CtTypes
  <2> QED BY <1>0, <2>1, <2>2 DEF Shut, CtTypes
<1>4. ASSUME NEW t \in ClientThreads, UNCHANGED ctConn, ctPc[t] # "close",
             \E l \in Serving : ctPc' = [ctPc EXCEPT ![t] = l],
             ctPc'[t] = "close" => CtReadEnd(t) \/ (ctConn[t] \notin respMap /\ ctPc[t] = "lookup")
      PROVE  /\ Shut(c) => Shut(c)'
             /\ Shut(c)' => \/ Shut(c)
                            \/ \E u \in ClientThreads : ctConn[u] = c /\ CtReadEnd(u)
                            \/ \E u \in ClientThreads : Owns(u, c) /\ c \notin respMap
  <2>1. \A u \in ClientThreads : u # t => ctPc'[u] = ctPc[u]
    BY <1>0, <1>4 DEF CtTypes
  <2>2. Shut(c) => Shut(c)'
    BY <1>4, <2>1 DEF Shut
  <2>3. Shut(c)' => Shut(c) \/ (ctConn[t] = c /\ ctPc'[t] = "close")
    BY <1>4, <2>1 DEF Shut
  <2> QED BY <1>4, <2>2, <2>3 DEF Owns
<1>5. ASSUME NEW t \in ClientThreads, CtReadCommand(t) \/ CtReadNoMemory(t) \/ CtReadEnd(t)
      PROVE  /\ UNCHANGED ctConn /\ ctPc[t] # "close"
             /\ \E l \in Serving : ctPc' = [ctPc EXCEPT ![t] = l]
             /\ ctPc'[t] = "close" => CtReadEnd(t)
  <2>1. CtReadEnd(t) => ctPc' = [ctPc EXCEPT ![t] = "close"]
    BY DEF CtReadEnd, CtGoto
  <2>2. CtReadCommand(t) => ctPc' = [ctPc EXCEPT ![t] = "push"]
    BY DEF CtReadCommand, CtGoto
  <2>3. CtReadNoMemory(t) => ctPc' = [ctPc EXCEPT ![t] = "recv"]
    BY <1>0 DEF CtReadNoMemory, CtAt, CtTypes, ctVars
  <2>4. UNCHANGED ctConn /\ ctPc[t] # "close"
    BY <1>5 DEF CtReadCommand, CtReadNoMemory, CtReadEnd, CtAt, ctVars
  <2> QED BY <1>0, <1>5, <2>1, <2>2, <2>3, <2>4 DEF Serving, CtTypes
<1>6. ASSUME NEW t \in ClientThreads,
             CtPush(t) \/ CtLog(t) \/ CtLookup(t) \/ CtTake(t) \/ CtTimeout(t)
      PROVE  /\ UNCHANGED ctConn /\ ctPc[t] # "close"
             /\ \E l \in Serving : ctPc' = [ctPc EXCEPT ![t] = l]
             /\ ctPc'[t] = "close" => ctConn[t] \notin respMap /\ ctPc[t] = "lookup"
  BY <1>0, <1>6 DEF CtPush, CtLog, CtLookup, CtTake, CtTimeout, CtAt, CtGoto, CtTypes, Serving
<1>7. \/ UNCHANGED <<ctPc, ctConn>>
      \/ \E t \in ClientThreads :
           \/ CtPop(t) \/ CtRemove(t) \/ CtCloseEntry(t) \/ CtFreeEntry(t) \/ CtClose(t)
           \/ CtReadCommand(t) \/ CtReadNoMemory(t) \/ CtReadEnd(t)
           \/ CtPush(t) \/ CtLog(t) \/ CtLookup(t) \/ CtTake(t) \/ CtTimeout(t)
  BY DEF Step, Outside, MainAccept, MainNext, MainPush, MainCloseClientQueue, MainCloseTaskQueue,
         MainExit, CtNext, CtReadUnknown, WNext, WPop, WFind, WDeliver, WFree, ctVars
<1> QED BY <1>1, <1>2, <1>3, <1>4, <1>5, <1>6, <1>7

(* Only the thread that has c reads from it and writes to it. *)
LEMMA Writing ==
  ASSUME OwnerInv, Step, NEW c \in Clients
  PROVE  \/ rd'[c] = rd[c] /\ out'[c] = out[c]
         \/ \E t \in ClientThreads :
              /\ ~ crashed /\ ctConn[t] = c /\ ctPc[t] \in {"recv", "wait"}
              /\ \/ CtReadCommand(t) \/ CtReadUnknown(t) \/ CtReadNoMemory(t) \/ CtReadEnd(t)
                 \/ CtTake(t) \/ CtTimeout(t)
<1>1. SockTypes /\ ReplyTypes
  BY TypeParts DEF OwnerInv
<1>2. ASSUME NEW t \in ClientThreads,
             \/ CtReadCommand(t) \/ CtReadUnknown(t) \/ CtReadNoMemory(t) \/ CtReadEnd(t)
             \/ CtTake(t) \/ CtTimeout(t)
      PROVE  /\ ~ crashed /\ ctPc[t] \in {"recv", "wait"}
             /\ ctConn[t] # c => rd'[c] = rd[c] /\ out'[c] = out[c]
  <2>1. ~ crashed /\ ctPc[t] \in {"recv", "wait"}
    BY <1>2 DEF CtReadCommand, CtReadUnknown, CtReadNoMemory, CtReadEnd, CtTake, CtTimeout, CtAt
  <2>2. \/ rd' = rd
        \/ \E n : rd' = [rd EXCEPT ![ctConn[t]] = n]
    BY <1>2 DEF CtReadCommand, CtReadUnknown, CtReadNoMemory, CtReadEnd, CtTake, CtTimeout, sockVars
  <2>3. \/ out' = out
        \/ \E o : out' = [out EXCEPT ![ctConn[t]] = o]
    BY <1>2 DEF CtReadCommand, CtReadUnknown, CtReadNoMemory, CtReadEnd, CtTake, CtTimeout, Write,
                replyVars
  <2> QED BY <1>1, <2>1, <2>2, <2>3 DEF SockTypes, ReplyTypes
<1> QED BY <1>2, RepliesCases

(* The server never returns to a connection that it has closed. *)
LEMMA HangsUp ==
  ASSUME OwnerInv, HeldOpen, Step, NEW c \in Clients, peer[c] # "off", HungUp(c)
  PROVE  HungUp(c)' /\ out'[c] = out[c]
<1>1. CASE crashed
  <2>1. Outside
    BY <1>1 DEF Step, MainAccept, MainNext, MainPush, MainCloseClientQueue, MainCloseTaskQueue,
         MainExit, MainAt, CtNext, CtPop, CtReadCommand, CtReadUnknown, CtReadNoMemory, CtReadEnd,
         CtPush, CtLog, CtLookup, CtTake, CtTimeout, CtClose, CtRemove, CtCloseEntry, CtFreeEntry,
         CtAt, WNext, WPop, WFind, WDeliver, WFree, WAt
  <2> QED BY <1>1, <2>1 DEF Outside, HungUp, replyVars
<1>2. CASE c \notin fdOpen
  <2>1. ~ MainAccept(c)
    BY DEF MainAccept
  <2>2. c \notin fdOpen'
    BY <1>2, <2>1, Holding
  <2>3. ~ Held(c)
    BY <1>2 DEF HeldOpen
  <2>4. out'[c] = out[c]
    BY <2>3, Writing DEF Held, Owns
  <2> QED BY <2>2, <2>4 DEF HungUp
<1> QED BY <1>1, <1>2 DEF HungUp

LEMMA UnansweredOpen ==
  ASSUME OwnerInv, NEW c \in Clients, Unanswered(c)
  PROVE  Open(c)
<1>1. PICK t \in ClientThreads : ctConn[t] = c /\ ctPc[t] \in {"push", "log", "lookup", "wait"}
  BY DEF Unanswered
<1>2. \A u \in ClientThreads : u # t => ctConn[u] # c
  BY <1>1, ServedAlone
<1> QED BY <1>1, <1>2 DEF Open, Held, Owns, Shut

LEMMA Opening ==
  ASSUME OwnerInv, Step, NEW c \in Clients, Open(c)'
  PROVE  Open(c) \/ peer[c] = "off"
<1>1. MainAccept(c) => peer[c] = "off"
  BY DEF MainAccept
<1> QED BY <1>1, Holding, Shutting DEF Open

(* A line that is skipped is the last one, if all lines are commands or    *)
(* QUIT.                                                                   *)
LEMMA SkippedLine ==
  ASSUME OwnerInv, Step, NEW c \in Clients, Skipped(c), failures' = failures,
         \A n \in 1 .. Len(sent[c]) : sent[c][n] # "UNKNOWN"
  PROVE  Shut(c)'
<1>1. SockTypes /\ CtTypes /\ MemTypes
  BY TypeParts DEF OwnerInv
<1>2. rd[c] \in Nat /\ rd'[c] = rd[c] + 1 /\ ~ Unanswered(c)'
  BY <1>1 DEF Skipped, Reading, SockTypes
<1>3. PICK t \in ClientThreads :
        /\ ctConn[t] = c
        /\ \/ CtReadCommand(t) \/ CtReadUnknown(t) \/ CtReadNoMemory(t) \/ CtReadEnd(t)
           \/ CtTake(t) \/ CtTimeout(t)
  BY <1>2, Writing
<1>4. ~ CtReadCommand(t)
  BY <1>1, <1>2, <1>3 DEF CtReadCommand, CtGoto, Unanswered, CtTypes
<1>5. ~ CtReadUnknown(t)
  <2>1. SUFFICES ASSUME CtReadUnknown(t) PROVE FALSE
    OBVIOUS
  <2>2. rd[c] < Len(sent[c]) /\ sent[c][rd[c] + 1] = "UNKNOWN"
    BY <1>3, <2>1 DEF CtReadUnknown
  <2>3. sent[c] \in Seq(Lines)
    BY <1>1 DEF SockTypes
  <2>4. rd[c] + 1 \in 1 .. Len(sent[c])
    BY <1>2, <2>2, <2>3
  <2> QED BY <2>2, <2>4
<1>6. ~ CtReadNoMemory(t)
  BY <1>1 DEF CtReadNoMemory, Fail, MemTypes
<1>7. ~ CtTake(t) /\ ~ CtTimeout(t)
  BY <1>2 DEF CtTake, CtTimeout, sockVars
<1>8. CtReadEnd(t)
  BY <1>3, <1>4, <1>5, <1>6, <1>7
<1> QED BY <1>1, <1>3, <1>8 DEF CtReadEnd, CtGoto, Shut, CtTypes

LEMMA StepNumber ==
  ASSUME ReplyInv, Step, NEW c \in Clients, NumberInv(c),
         peer[c] = "off" => Len(sent[c]) = 0,
         \A n \in 1 .. Len(sent[c]) : sent[c][n] # "UNKNOWN"
  PROVE  NumberInv(c)'
<1> SUFFICES ASSUME failures' = 0, NoTimeout(out'[c])
             PROVE  /\ \A k \in 1 .. Len(out'[c]) : out'[c][k] = k
                    /\ Open(c)' => rd'[c] = Len(out'[c]) + One(Unanswered(c)')
  BY DEF NumberInv, One
<1>0. OwnerInv /\ TaskInv /\ OrderInv /\ CountInv
  BY DEF ReplyInv
<1>1. /\ failures = 0 /\ NoTimeout(out[c])
      /\ Idle(c) \/ Command(c) \/ Skipped(c) \/ Taken(c) \/ Dropped(c) \/ Delivered(c)
  BY <1>0, InOrderCases
<1>2. /\ \A k \in 1 .. Len(out[c]) : out[c][k] = k
      /\ Open(c) => rd[c] = Len(out[c]) + One(Unanswered(c))
  BY <1>1 DEF NumberInv
<1>3. /\ out[c] \in Seq(Replied) /\ resp[c] \in Seq(1 .. MaxLines) /\ rd[c] \in Nat
      /\ Len(out[c]) \in Nat
  BY <1>0, RespTypes, RespNumbers DEF OwnerInv
<1>4. CASE Taken(c)
  <2>1. Unanswered(c) /\ ~ Unanswered(c)' /\ rd'[c] = rd[c]
    BY <1>4 DEF Taken, Waited
  <2>2. rd[c] = Len(out[c]) + 1
    BY <1>0, <1>2, <2>1, UnansweredOpen DEF One
  <2>3. Head(resp[c]) = resp[c][1] /\ 1 \in 1 .. Len(resp[c])
    BY <1>3, <1>4 DEF Taken
  <2>4. Head(resp[c]) = rd[c]
    BY <1>0, <1>1, <2>3 DEF OrderInv
  <2>5. out'[c] = Append(out[c], rd[c])
    BY <1>4, <2>4 DEF Taken
  <2>6. /\ Len(out'[c]) = rd[c] /\ out'[c][rd[c]] = rd[c]
        /\ \A k \in 1 .. Len(out[c]) : out'[c][k] = out[c][k]
    BY <1>3, <2>2, <2>5, AppendFacts
  <2> QED BY <1>2, <1>3, <2>1, <2>2, <2>6 DEF One
<1>5. CASE Idle(c) \/ Command(c) \/ Skipped(c) \/ Dropped(c) \/ Delivered(c)
  <2>1. out'[c] = out[c]
    BY <1>5 DEF Idle, Command, Skipped, Dropped, Delivered
  <2>2. ASSUME Open(c)' PROVE rd'[c] = Len(out[c]) + One(Unanswered(c)')
    <3>1. CASE peer[c] = "off" /\ ~ Open(c)
      <4>1. rd[c] <= 0 /\ Len(out[c]) <= rd[c] /\ ~ Unanswered(c)
        BY <1>0, <1>3, <3>1, UnansweredOpen DEF OwnerInv, LinesRead, CountInv
      <4>2. MainAccept(c)
        BY <1>0, <2>2, <3>1, Holding, Shutting DEF Open
      <4>3. rd' = rd /\ UNCHANGED <<ctPc, ctConn>>
        BY <4>2 DEF MainAccept, ctVars
      <4>4. One(Unanswered(c)') = 0
        BY <4>1, <4>3 DEF One, Unanswered
      <4>5. rd[c] = 0 /\ Len(out[c]) = 0
        BY <1>3, <4>1
      <4> QED BY <4>3, <4>4, <4>5
    <3>2. CASE Open(c)
      <4>1. rd[c] = Len(out[c]) + One(Unanswered(c))
        BY <1>2, <3>2
      <4>2. ~ Skipped(c)
        BY <1>0, <1>1, <2>2, SkippedLine DEF Open, Skipped
      <4>3. CASE Command(c)
        BY <1>3, <4>1, <4>3 DEF Command, Reading, One
      <4>4. CASE Idle(c) \/ Dropped(c) \/ Delivered(c)
        BY <4>1, <4>4 DEF Idle, Dropped, Delivered, One
      <4> QED BY <1>5, <4>2, <4>3, <4>4
    <3> QED BY <1>0, <2>2, <3>1, <3>2, Opening
  <2> QED BY <1>2, <2>1, <2>2
<1> QED BY <1>1, <1>4, <1>5

LEMMA StepOpen ==
  ASSUME ReplyInv, Step, NEW c \in Clients, OpenInv(c),
         failures' = 0, place[c] \in Talking, peer[c] = "up",
         \A n \in 1 .. Len(sent[c]) : sent[c][n] # "QUIT"
  PROVE  c \in fdOpen' /\ ~ Shut(c)'
<1>0. OwnerInv /\ TaskInv /\ SockTypes
  BY TypeParts DEF ReplyInv, OwnerInv
<1>1. failures = 0
  <2>1. failures \in Nat /\ Episode(c)
    BY <1>0, RespTypes, Episodes DEF OwnerInv
  <2> QED BY <2>1 DEF Episode, Idle, Command, Skipped, Refused, Taken, Expired, Silent, Lost,
                      Dropped, Delivered
<1>2. c \in fdOpen /\ ~ Shut(c)
  BY <1>1 DEF OpenInv
<1>3. c \in fdOpen'
  <2>1. ~ MainAccept(c)
    BY DEF MainAccept
  <2> QED BY <1>0, <1>2, <2>1, Holding
<1>4. ASSUME NEW t \in ClientThreads, ctConn[t] = c, CtReadEnd(t) PROVE FALSE
  <2>1. rd[c] < Len(sent[c]) /\ sent[c][rd[c] + 1] = "QUIT"
    BY <1>4 DEF CtReadEnd
  <2>2. rd[c] \in Nat /\ sent[c] \in Seq(Lines)
    BY <1>0 DEF SockTypes
  <2>3. rd[c] + 1 \in 1 .. Len(sent[c])
    BY <2>1, <2>2
  <2> QED BY <2>1, <2>3
<1>5. ASSUME NEW t \in ClientThreads, Owns(t, c) PROVE c \in respMap
  BY <1>0, <1>1, <1>5 DEF OwnerInv, Registered, Held
<1> QED BY <1>0, <1>2, <1>3, <1>4, <1>5, Shutting
-----------------------------------------------------------------------------
(* The program: what a step does to the conversation over c.               *)

(* The server does nothing that matters here. *)
Calm == UNCHANGED <<out, fdOpen, crashed, failures, rd, ctPc, ctConn>>

(* The temporary files: c does not touch them, *)
Kept(c) == \A s \in Temps : files'[s] = files[s] \/ Others(c, files'[s])

(* a worker has stored an upload of c, *)
Unlinks(c) ==
    \E w \in Workers :
      /\ WFind(w) /\ wTask[w].client = c
      /\ files' = [files EXCEPT ![asked[c][wTask[w].n].tmp] = <<c, 0>>]

(* or c may not upload, as nobody is logged in. *)
Spurned(c) ==
    /\ place[c] = "prompt" /\ Calm
    /\ \E s \in Temps : files' = [files EXCEPT ![s] = <<c, 0>>]

(* It is the server's turn, or another program's, or nothing is sent. *)
Rest(c) ==
    /\ UNCHANGED <<place[c], user[c], req[c], asked[c], partial[c], taken[c]>>
    /\ UNCHANGED <<sent[c], peer[c]>>
    /\ splits <= splits'
    /\ Kept(c) \/ Unlinks(c) \/ Spurned(c)

Connects(c) ==
    /\ place[c] = "off" /\ place'[c] = "prompt"
    /\ Kept(c) /\ UNCHANGED <<user[c], req[c], asked[c], partial[c], taken[c]>>
    /\ UNCHANGED <<sent[c], splits>>
    /\ MainAccept(c)

(* The temporary file of an upload *)
Filed(c, r) ==
    IF r.cmd = "upload" THEN files' = [files EXCEPT ![r.tmp] = <<c, Len(sent[c]) + 1>>]
                        ELSE Kept(c)

Whole(c, r) == IF partial[c] = None THEN r ELSE partial[c]

Line(c, r) ==
    /\ Calm /\ ~ HungUp(c) /\ place[c] = "prompt" /\ Len(sent[c]) < MaxLines
    /\ asked'[c] = Append(asked[c], Whole(c, r))
    /\ sent'[c] = Append(sent[c], LineOf(Whole(c, r).cmd))
    /\ partial'[c] = None
    /\ UNCHANGED <<user[c], taken[c], peer[c], splits>>

(* A command is sent, *)
Sends(c) ==
    \E r \in Requests :
      Line(c, r) /\ place'[c] = "reply" /\ req'[c] = r /\ Filed(c, r)

(* without its newline, *)
Cuts(c) ==
    \E r \in Requests :
      /\ Calm /\ ~ HungUp(c) /\ place[c] = "prompt" /\ Len(sent[c]) < MaxLines
      /\ r.cut /\ partial[c] = None /\ partial'[c] = r
      /\ place'[c] = "reply" /\ req'[c] = r /\ Filed(c, r)
      /\ UNCHANGED <<user[c], asked[c], taken[c], sent[c], peer[c], splits>>

(* or to a socket that the server has closed. *)
Breaks(c) ==
    \E r \in Requests :
      /\ Calm /\ HungUp(c) /\ place[c] = "prompt"
      /\ place'[c] \in {"reply", "left"} /\ req'[c] = r /\ Filed(c, r)
      /\ UNCHANGED <<user[c], asked[c], partial[c], taken[c], sent[c], peer[c], splits>>

(* Something is read, or the end of the stream. *)
Reads(c) ==
    /\ Calm /\ place[c] \in {"reply", "header"} /\ place'[c] \in {"prompt", "header"}
    /\ \/ /\ taken'[c] \in taken[c] + 1 .. 2 * Len(out[c])
          /\ \/ taken'[c] = 2 * Len(out[c]) /\ splits' = splits
             \/ splits' = splits + 1
       \/ Unread(c) = 0 /\ HungUp(c) /\ UNCHANGED <<taken[c], splits>>
    /\ user'[c] = IF /\ place[c] = "reply" /\ req[c].cmd \in {"signup", "login"}
                     /\ ReadsOK(c)
                  THEN req[c].user ELSE user[c]
    /\ IF place[c] = "reply" /\ req[c].cmd = "upload"
         THEN files' = [files EXCEPT ![req[c].tmp] = <<c, 0>>] ELSE Kept(c)
    /\ UNCHANGED <<req[c], asked[c], partial[c], sent[c], peer[c]>>

(* QUIT is sent, *)
Parts(c) ==
    /\ user[c] # None
    /\ Line(c, Quitting(c)) /\ place'[c] = "bye" /\ UNCHANGED req[c] /\ Kept(c)

(* or is not. *)
Ends(c) ==
    /\ Calm /\ place[c] = "prompt" /\ place'[c] = "bye"
    /\ Kept(c) /\ UNCHANGED <<user[c], req[c], asked[c], partial[c], taken[c]>>
    /\ UNCHANGED <<sent[c], peer[c], splits>>

Leaves(c) ==
    /\ Calm /\ place[c] \in Talking \cup {"bye"} /\ place'[c] = "left" /\ peer'[c] = "gone"
    /\ IF partial[c] # None
         THEN /\ sent'[c] = Append(sent[c], LineOf(partial[c].cmd))
              /\ asked'[c] = Append(asked[c], partial[c])
         ELSE UNCHANGED <<sent[c], asked[c]>>
    /\ Kept(c) /\ UNCHANGED <<user[c], req[c], partial[c], taken[c], splits>>

Turn(c) ==
    \/ Rest(c) \/ Connects(c)
    \/ Sends(c) \/ Cuts(c) \/ Breaks(c)
    \/ Reads(c)
    \/ Parts(c) \/ Ends(c) \/ Leaves(c)

(* Nothing but the conversation over c is concerned. *)
Only(c) == Functions' /\ \A d \in Clients : d # c => Rest(d)

LEMMA Touching ==
  ASSUME Functions, NEW c \in Clients, NEW s, NEW n \in Nat,
         files' = [files EXCEPT ![s] = <<c, n>>]
  PROVE  /\ files' \in [Temps -> (Clients \cup {None}) \X Nat]
         /\ \A d \in Clients : d # c => Kept(d)
<1>1. files \in [Temps -> (Clients \cup {None}) \X Nat]
  BY DEF Functions
<1>2. \A x \in Temps : files'[x] = IF x = s THEN <<c, n>> ELSE files[x]
  BY <1>1
<1>3. <<c, n>> \in (Clients \cup {None}) \X Nat /\ <<c, n>>[1] = c
  OBVIOUS
<1> QED BY <1>1, <1>2, <1>3 DEF Kept, Others

LEMMA SendTurn ==
  ASSUME Functions, SockTypes, NEW c \in Clients, NEW r \in Requests, send_command(c, r),
         UNCHANGED user, Filed(c, r), files' \in [Temps -> (Clients \cup {None}) \X Nat],
         \A d \in Clients : d # c => Kept(d)
  PROVE  Only(c) /\ (Sends(c) \/ Cuts(c) \/ Breaks(c))
<1>0. /\ Total(place) /\ Total(req) /\ Total(asked) /\ Total(partial) /\ Total(user) /\ Total(taken)
      /\ broken \subseteq Clients /\ splits \in 0 .. MaxSplits /\ splits \in Int
  BY SessionAssumption DEF Functions
<1>1. /\ place[c] = "prompt" /\ Len(sent[c]) < MaxLines
      /\ req' = [req EXCEPT ![c] = r] /\ UNCHANGED <<taken, splits, user>>
  BY DEF send_command
<1>2. /\ Total(req') /\ req'[c] = r /\ \A d \in Clients : d # c => req'[d] = req[d]
      /\ Total(taken') /\ Total(user') /\ splits <= splits' /\ splits' \in 0 .. MaxSplits
  <2>1. Total(req') /\ req'[c] = r /\ \A d \in Clients : d # c => req'[d] = req[d]
    BY <1>0, <1>1 DEF Total
  <2> QED BY <1>0, <1>1, <2>1
<1>3. ASSUME NEW l, Goto(c, l)
      PROVE  /\ Total(place') /\ place'[c] = l /\ \A d \in Clients : d # c => place'[d] = place[d]
  BY <1>0, <1>3 DEF Goto, Total
<1>4. CASE /\ ~ HungUp(c) /\ ~ r.cut /\ SendLine(c, r) /\ Goto(c, "reply") /\ UNCHANGED broken
  <2>1. /\ sent' = [sent EXCEPT ![c] = Append(sent[c], LineOf(Whole(c, r).cmd))]
        /\ asked' = [asked EXCEPT ![c] = Append(asked[c], Whole(c, r))]
        /\ partial' = [partial EXCEPT ![c] = None]
        /\ peer' = peer
    BY <1>4 DEF SendLine, PeerSend, Whole
  <2>2. Calm
    BY <1>4 DEF SendLine, PeerSend, Calm, ctVars, replyVars, memVars
  <2>3. /\ sent'[c] = Append(sent[c], LineOf(Whole(c, r).cmd))
        /\ \A d \in Clients : d # c => sent'[d] = sent[d]
    BY <2>1 DEF SockTypes
  <2>4. /\ Total(asked') /\ Total(partial')
        /\ asked'[c] = Append(asked[c], Whole(c, r)) /\ partial'[c] = None
        /\ \A d \in Clients : d # c => asked'[d] = asked[d] /\ partial'[d] = partial[d]
    BY <1>0, <2>1 DEF Total
  <2>5. Only(c)
    BY <1>0, <1>1, <1>2, <1>3, <1>4, <2>1, <2>3, <2>4 DEF Only, Functions, Rest
  <2>6. Sends(c)
    BY <1>1, <1>2, <1>3, <1>4, <2>1, <2>2, <2>3, <2>4 DEF Sends, Line
  <2> QED BY <2>5, <2>6
<1>5. CASE /\ ~ HungUp(c) /\ r.cut /\ partial[c] = None
           /\ partial' = [partial EXCEPT ![c] = r]
           /\ Goto(c, "reply") /\ UNCHANGED <<vars, asked, broken>>
  <2>1. Calm /\ UNCHANGED <<sent, peer, asked, broken>>
    BY <1>5 DEF Calm, vars, sockVars, ctVars, replyVars, memVars
  <2>2. /\ Total(asked') /\ Total(partial') /\ partial'[c] = r
        /\ \A d \in Clients : d # c => partial'[d] = partial[d]
    BY <1>0, <1>5, <2>1 DEF Total
  <2>3. Only(c)
    BY <1>0, <1>1, <1>2, <1>3, <1>5, <2>1, <2>2 DEF Only, Functions, Rest
  <2>4. Cuts(c)
    BY <1>1, <1>2, <1>3, <1>5, <2>1, <2>2 DEF Cuts
  <2> QED BY <2>3, <2>4
<1>6. CASE /\ HungUp(c) /\ broken' = broken \cup {c}
           /\ Goto(c, IF c \in broken THEN "left" ELSE "reply")
           /\ UNCHANGED <<vars, asked, partial>>
  <2>1. Calm /\ UNCHANGED <<sent, peer, asked, partial>> /\ broken' \subseteq Clients
    BY <1>0, <1>6 DEF Calm, vars, sockVars, ctVars, replyVars, memVars
  <2>2. Total(asked') /\ Total(partial')
    BY <1>0, <2>1
  <2>3. Only(c)
    BY <1>0, <1>1, <1>2, <1>3, <1>6, <2>1, <2>2 DEF Only, Functions, Rest
  <2>4. place'[c] \in {"reply", "left"}
    BY <1>3, <1>6
  <2>5. Breaks(c)
    BY <1>1, <1>2, <1>6, <2>1, <2>4 DEF Breaks
  <2> QED BY <2>3, <2>5
<1> QED BY <1>4, <1>5, <1>6 DEF send_command

LEMMA ReadTurn ==
  ASSUME Functions, NEW c \in Clients, receive_response(c),
         place[c] \in {"reply", "header"}, NEW l \in {"prompt", "header"}, Goto(c, l),
         user' = IF /\ place[c] = "reply" /\ req[c].cmd \in {"signup", "login"}
                    /\ ReadsOK(c)
                 THEN [user EXCEPT ![c] = req[c].user] ELSE user,
         IF place[c] = "reply" /\ req[c].cmd = "upload"
           THEN files' = [files EXCEPT ![req[c].tmp] = <<c, 0>>] ELSE UNCHANGED files
  PROVE  Only(c) /\ Reads(c)
<1>0. /\ Total(place) /\ Total(req) /\ Total(asked) /\ Total(partial) /\ Total(user) /\ Total(taken)
      /\ files \in [Temps -> (Clients \cup {None}) \X Nat]
      /\ broken \subseteq Clients /\ splits \in 0 .. MaxSplits /\ splits \in Int
      /\ MaxSplits \in Int
  BY SessionAssumption DEF Functions
<1>1. UNCHANGED <<vars, req, asked, partial, broken>>
  BY DEF receive_response
<1>2. Calm /\ UNCHANGED <<sent, peer>>
  BY <1>1 DEF Calm, vars, sockVars, ctVars, replyVars, memVars
<1>3. Total(place') /\ place'[c] = l /\ \A d \in Clients : d # c => place'[d] = place[d]
  BY <1>0 DEF Goto, Total
<1>4. /\ Total(user') /\ \A d \in Clients : d # c => user'[d] = user[d]
      /\ user'[c] = IF /\ place[c] = "reply" /\ req[c].cmd \in {"signup", "login"}
                       /\ ReadsOK(c)
                    THEN req[c].user ELSE user[c]
  BY <1>0 DEF Total
<1>5. /\ files' \in [Temps -> (Clients \cup {None}) \X Nat]
      /\ \A d \in Clients : d # c => Kept(d)
      /\ UNCHANGED files => Kept(c)
  <2>1. CASE UNCHANGED files
    BY <1>0, <2>1 DEF Kept
  <2>2. CASE files' = [files EXCEPT ![req[c].tmp] = <<c, 0>>]
    <3>1. 0 \in Nat
      OBVIOUS
    <3>2. UNCHANGED files => Kept(c)
      BY DEF Kept
    <3> QED BY <2>2, <3>1, <3>2, Touching
  <2> QED BY <2>1, <2>2
<1> DEFINE Part == /\ taken'[c] \in taken[c] + 1 .. 2 * Len(out[c])
                   /\ \/ taken'[c] = 2 * Len(out[c]) /\ splits' = splits
                      \/ splits' = splits + 1
           End == Unread(c) = 0 /\ HungUp(c) /\ UNCHANGED <<taken[c], splits>>
<1>6. /\ Total(taken') /\ \A d \in Clients : d # c => taken'[d] = taken[d]
      /\ Part \/ End
      /\ splits' \in 0 .. MaxSplits /\ splits <= splits'
  <2>1. CASE Unread(c) = 0 /\ HungUp(c) /\ UNCHANGED <<taken, splits>>
    BY <1>0, <2>1
  <2>2. ASSUME NEW n \in taken[c] + 1 .. 2 * Len(out[c]), taken' = [taken EXCEPT ![c] = n],
               \/ n = 2 * Len(out[c]) /\ UNCHANGED splits
               \/ n < 2 * Len(out[c]) /\ splits < MaxSplits /\ splits' = splits + 1
        PROVE  /\ Total(taken') /\ \A d \in Clients : d # c => taken'[d] = taken[d]
               /\ Part
               /\ splits' \in 0 .. MaxSplits /\ splits <= splits'
    <3>1. /\ Total(taken') /\ \A d \in Clients : d # c => taken'[d] = taken[d]
          /\ taken'[c] = n
      BY <1>0, <2>2 DEF Total
    <3>2. splits' \in 0 .. MaxSplits /\ splits <= splits'
      BY <1>0, <2>2
    <3>3. Part
      BY <2>2, <3>1
    <3> QED BY <3>1, <3>2, <3>3
  <2> QED BY <2>1, <2>2 DEF receive_response
<1>7. Only(c)
  <2>1. Functions'
    BY <1>0, <1>1, <1>3, <1>4, <1>5, <1>6 DEF Functions
  <2>2. ASSUME NEW d \in Clients, d # c PROVE Rest(d)
    BY <1>1, <1>2, <1>3, <1>4, <1>5, <1>6, <2>2 DEF Rest
  <2> QED BY <2>1, <2>2 DEF Only
<1>8. Reads(c)
  BY <1>1, <1>2, <1>3, <1>4, <1>5, <1>6 DEF Reads
<1> QED BY <1>7, <1>8

LEMMA LeaveTurn ==
  ASSUME Functions, SockTypes, NEW c \in Clients, Close(c), place[c] \in Talking \cup {"bye"}
  PROVE  Only(c) /\ Leaves(c)
<1>0. /\ Total(place) /\ Total(req) /\ Total(asked) /\ Total(partial) /\ Total(user) /\ Total(taken)
      /\ files \in [Temps -> (Clients \cup {None}) \X Nat]
      /\ broken \subseteq Clients /\ splits \in 0 .. MaxSplits /\ splits \in Int
  BY SessionAssumption DEF Functions
<1>1. /\ Calm /\ UNCHANGED <<user, req, partial, taken, splits, broken, files>>
  BY DEF Close, Calm, ctVars, replyVars, memVars
<1>2. Total(place') /\ place'[c] = "left" /\ \A d \in Clients : d # c => place'[d] = place[d]
  BY <1>0 DEF Close, Goto, Total
<1>3. peer'[c] = "gone" /\ \A d \in Clients : d # c => peer'[d] = peer[d]
  BY DEF Close, SockTypes
<1>4. /\ Total(asked')
      /\ \A d \in Clients : d # c => sent'[d] = sent[d] /\ asked'[d] = asked[d]
      /\ IF partial[c] # None
           THEN /\ sent'[c] = Append(sent[c], LineOf(partial[c].cmd))
                /\ asked'[c] = Append(asked[c], partial[c])
           ELSE UNCHANGED <<sent[c], asked[c]>>
  <2>1. CASE partial[c] = None
    BY <1>0, <2>1 DEF Close
  <2>2. CASE partial[c] # None
    <3>1. /\ sent' = [sent EXCEPT ![c] = Append(sent[c], LineOf(partial[c].cmd))]
          /\ asked' = [asked EXCEPT ![c] = Append(asked[c], partial[c])]
      BY <2>2 DEF Close
    <3>2. /\ sent'[c] = Append(sent[c], LineOf(partial[c].cmd))
          /\ \A d \in Clients : d # c => sent'[d] = sent[d]
      BY <3>1 DEF SockTypes
    <3>3. /\ Total(asked') /\ asked'[c] = Append(asked[c], partial[c])
          /\ \A d \in Clients : d # c => asked'[d] = asked[d]
      BY <1>0, <3>1 DEF Total
    <3> QED BY <2>2, <3>2, <3>3
  <2> QED BY <2>1, <2>2
<1>5. \A d \in Clients : Kept(d)
  BY <1>1 DEF Kept
<1>6. Only(c)
  <2>1. Functions'
    BY <1>0, <1>1, <1>2, <1>4 DEF Functions
  <2>2. ASSUME NEW d \in Clients, d # c PROVE Rest(d)
    BY <1>0, <1>1, <1>2, <1>3, <1>4, <1>5, <2>2 DEF Rest
  <2> QED BY <2>1, <2>2 DEF Only
<1>7. Leaves(c)
  BY <1>1, <1>2, <1>3, <1>4, <1>5 DEF Leaves
<1> QED BY <1>6, <1>7

LEMMA QuitTurn ==
  ASSUME Functions, SockTypes, NEW c \in Clients, quit(c)
  PROVE  Only(c) /\ (Parts(c) \/ Ends(c))
<1> DEFINE r == Quitting(c)
<1> HIDE DEF r
<1>0. /\ Total(place) /\ Total(req) /\ Total(asked) /\ Total(partial) /\ Total(user) /\ Total(taken)
      /\ files \in [Temps -> (Clients \cup {None}) \X Nat]
      /\ broken \subseteq Clients /\ splits \in 0 .. MaxSplits /\ splits \in Int
  BY SessionAssumption DEF Functions
<1>1. place[c] = "prompt" /\ UNCHANGED <<user, req, taken, splits, broken, files>>
  BY DEF quit
<1>2. Total(place') /\ place'[c] = "bye" /\ \A d \in Clients : d # c => place'[d] = place[d]
  BY <1>0 DEF quit, Goto, Total
<1>k. \A d \in Clients : Kept(d)
  BY <1>1 DEF Kept
<1>3. CASE user[c] # None /\ SendLine(c, r)
  <2>1. /\ sent' = [sent EXCEPT ![c] = Append(sent[c], LineOf(Whole(c, r).cmd))]
        /\ asked' = [asked EXCEPT ![c] = Append(asked[c], Whole(c, r))]
        /\ partial' = [partial EXCEPT ![c] = None]
        /\ peer' = peer /\ Len(sent[c]) < MaxLines /\ ~ HungUp(c)
    BY <1>3 DEF SendLine, PeerSend, Whole, HungUp
  <2>2. Calm
    BY <1>3 DEF SendLine, PeerSend, Calm, ctVars, replyVars, memVars
  <2>3. /\ sent'[c] = Append(sent[c], LineOf(Whole(c, r).cmd))
        /\ \A d \in Clients : d # c => sent'[d] = sent[d]
    BY <2>1 DEF SockTypes
  <2>4. /\ Total(asked') /\ Total(partial')
        /\ asked'[c] = Append(asked[c], Whole(c, r)) /\ partial'[c] = None
        /\ \A d \in Clients : d # c => asked'[d] = asked[d] /\ partial'[d] = partial[d]
    BY <1>0, <2>1 DEF Total
  <2>5. Only(c)
    BY <1>0, <1>1, <1>2, <1>k, <2>1, <2>3, <2>4 DEF Only, Functions, Rest
  <2>6. Line(c, r)
    BY <1>1, <2>1, <2>2, <2>3, <2>4 DEF Line
  <2>7. Parts(c)
    BY <1>1, <1>2, <1>3, <1>k, <2>6 DEF Parts, r
  <2> QED BY <2>5, <2>7
<1>4. CASE UNCHANGED <<vars, asked, partial>>
  <2>1. Calm /\ UNCHANGED <<sent, peer, asked, partial>>
    BY <1>4 DEF Calm, vars, sockVars, ctVars, replyVars, memVars
  <2>2. Only(c)
    BY <1>0, <1>1, <1>2, <1>k, <2>1 DEF Only, Functions, Rest
  <2>3. Ends(c)
    BY <1>1, <1>2, <1>k, <2>1 DEF Ends
  <2> QED BY <2>2, <2>3
<1> QED BY <1>3, <1>4 DEF quit, r

LEMMA Turns ==
  ASSUME Functions, OwnerInv, [SessionNext]_sessionVars
  PROVE  Functions' /\ \A c \in Clients : Turn(c)
<1>0. /\ splits \in Int /\ files \in [Temps -> (Clients \cup {None}) \X Nat] /\ 0 \in Nat
      /\ SockTypes /\ WTypes /\ Places
  BY TypeParts DEF Functions, OwnerInv
<1>1. CASE UNCHANGED <<programVars, sent, peer, files>>
  BY <1>0, <1>1 DEF programVars, Functions, Turn, Rest, Kept
<1>2. UNCHANGED sessionVars => UNCHANGED <<programVars, sent, peer, files>>
  BY DEF sessionVars, vars, sockVars
<1>3. CASE ServerNext /\ UNCHANGED programVars
  <2>1. UNCHANGED <<sent, peer>>
    BY <1>3 DEF ServerNext, on_sigint, MainNext, MainPush, worker_thread_main,
         MainCloseClientQueue, MainCloseTaskQueue, MainExit, CtNext, CtPop, CtReadCommand,
         CtReadUnknown, CtReadNoMemory, CtReadEnd, CtPush, CtLog, CtLookup, CtTake, CtTimeout,
         CtClose, CtRemove, CtCloseEntry, CtFreeEntry, WPop, WFind, WDeliver, WFree, sockVars
  <2>2. CASE UNCHANGED files
    BY <1>1, <1>3, <2>1, <2>2
  <2>3. ASSUME NEW w \in Workers, WFind(w),
               files' = [files EXCEPT ![asked[wTask[w].client][wTask[w].n].tmp]
                           = <<wTask[w].client, 0>>]
        PROVE  Functions' /\ \A c \in Clients : Turn(c)
    <3> DEFINE c == wTask[w].client
    <3>1. c \in Clients
      BY <1>0, <2>3 DEF WFind, WAt, WTypes, Places, Task
    <3>2. Unlinks(c)
      BY <2>3 DEF Unlinks
    <3> HIDE DEF c
    <3>3. /\ files' \in [Temps -> (Clients \cup {None}) \X Nat]
          /\ \A d \in Clients : d # c => Kept(d)
      BY <1>0, <2>3, <3>1, Touching DEF c
    <3>4. Functions'
      BY <1>3, <3>3 DEF programVars, Functions
    <3>5. \A d \in Clients : Rest(d)
      BY <1>0, <1>3, <2>1, <3>2, <3>3 DEF programVars, Rest
    <3> QED BY <3>4, <3>5 DEF Turn
  <2> QED BY <1>3, <2>2, <2>3 DEF ServerNext, worker_thread_main
<1>4. ASSUME NEW c \in Clients, connect_to_server(c) PROVE Only(c) /\ Turn(c)
  <2>1. /\ place[c] = "off" /\ MainAccept(c)
        /\ UNCHANGED <<user, req, asked, partial, taken, splits, broken, files>>
    BY <1>4 DEF connect_to_server
  <2>2. Total(place') /\ place'[c] = "prompt" /\ \A d \in Clients : d # c => place'[d] = place[d]
    BY <1>4 DEF connect_to_server, Goto, Functions, Total
  <2>3. UNCHANGED sent /\ \A d \in Clients : d # c => peer'[d] = peer[d]
    BY <1>0, <2>1 DEF MainAccept, SockTypes
  <2>4. \A d \in Clients : Kept(d)
    BY <2>1 DEF Kept
  <2>5. Only(c)
    BY <1>0, <2>1, <2>2, <2>3, <2>4 DEF Only, Functions, Rest
  <2> QED BY <2>1, <2>2, <2>3, <2>4, <2>5 DEF Turn, Connects
<1>5. ASSUME NEW c \in Clients, NEW r \in Requests, send_command(c, r), UNCHANGED user,
             IF r.cmd = "upload" THEN files' = [files EXCEPT ![r.tmp] = <<c, Len(sent[c]) + 1>>]
                                 ELSE UNCHANGED files
      PROVE  Only(c) /\ Turn(c)
  <2>1. UNCHANGED files => \A d \in Clients : Kept(d)
    BY DEF Kept
  <2>2. Len(sent[c]) + 1 \in Nat
    BY <1>0 DEF SockTypes
  <2>3. Filed(c, r)
    BY <1>5, <2>1 DEF Filed
  <2>4. /\ files' \in [Temps -> (Clients \cup {None}) \X Nat]
        /\ \A d \in Clients : d # c => Kept(d)
    <3>1. CASE UNCHANGED files
      BY <1>0, <2>1, <3>1
    <3>2. CASE files' = [files EXCEPT ![r.tmp] = <<c, Len(sent[c]) + 1>>]
      BY <2>2, <3>2, Touching
    <3> QED BY <1>5, <3>1, <3>2
  <2> QED BY <1>0, <1>5, <2>3, <2>4, SendTurn DEF Turn
<1>6. ASSUME NEW c \in Clients, signup(c) \/ login(c) PROVE Only(c) /\ Turn(c)
  <2>1. ASSUME NEW cmd \in {"signup", "login"}, Waits(c, cmd), receive_response(c),
               user' = LoggedIn(c), Goto(c, "prompt"), UNCHANGED files
        PROVE  Only(c) /\ Turn(c)
    BY <2>1, ReadTurn DEF Waits, LoggedIn, Turn
  <2>2. ASSUME NEW cmd \in {"signup", "login"}, NEW r \in Asking(c, cmd), send_command(c, r),
               UNCHANGED <<user, files>>
        PROVE  Only(c) /\ Turn(c)
    BY <1>5, <2>2 DEF Asking
  <2> QED BY <1>6, <2>1, <2>2 DEF signup, login
<1>7. ASSUME NEW c \in Clients, upload_file(c)
      PROVE  Functions' /\ (\A d \in Clients : d # c => Rest(d)) /\ Turn(c)
  <2>1. ASSUME Waits(c, "upload"), receive_response(c), UNCHANGED user, Goto(c, "prompt"),
               files' = [files EXCEPT ![req[c].tmp] = <<c, 0>>]
        PROVE  Only(c) /\ Turn(c)
    BY <2>1, ReadTurn DEF Waits, Turn
  <2>2. ASSUME NEW r \in Asking(c, "upload"), send_command(c, r), UNCHANGED user,
               files' = [files EXCEPT ![r.tmp] = <<c, Len(sent[c]) + 1>>]
        PROVE  Only(c) /\ Turn(c)
    BY <1>5, <2>2 DEF Asking
  <2>3. ASSUME NEW r \in Asking(c, "upload"), place[c] = "prompt",
               files' = [files EXCEPT ![r.tmp] = <<c, 0>>], UNCHANGED <<vars, programVars>>
        PROVE  Only(c) /\ Turn(c)
    <3>1. Calm /\ UNCHANGED <<sent, peer>>
      BY <2>3 DEF Calm, vars, sockVars, ctVars, replyVars, memVars
    <3>2. r.tmp \in Temps
      BY SessionAssumption DEF Asking, Request
    <3>3. /\ files' \in [Temps -> (Clients \cup {None}) \X Nat]
          /\ \A d \in Clients : d # c => Kept(d)
      BY <1>0, <2>3, Touching
    <3>4. Functions'
      BY <2>3, <3>3 DEF programVars, Functions
    <3>5. Spurned(c)
      BY <2>3, <3>1, <3>2 DEF Spurned
    <3>6. \A d \in Clients : Rest(d)
      BY <1>0, <2>3, <3>1, <3>3, <3>5 DEF programVars, Rest
    <3> QED BY <3>4, <3>6 DEF Only, Turn
  <2> QED BY <1>7, <2>1, <2>2, <2>3 DEF upload_file, programVars, Only
<1>8. ASSUME NEW c \in Clients, delete_file(c) \/ list_files(c) \/ download_file(c)
      PROVE  Only(c) /\ Turn(c)
  <2>1. ASSUME NEW cmd \in {"delete", "list"}, Waits(c, cmd), receive_response(c),
               Goto(c, "prompt"), UNCHANGED <<user, files>>
        PROVE  Only(c) /\ Turn(c)
    BY <2>1, ReadTurn DEF Waits, Turn
  <2>2. ASSUME NEW cmd \in {"delete", "list", "download"}, NEW r \in Asking(c, cmd),
               send_command(c, r), UNCHANGED <<user, files>>
        PROVE  Only(c) /\ Turn(c)
    BY <1>5, <2>2 DEF Asking
  <2> QED BY <1>8, <2>1, <2>2 DEF delete_file, list_files, download_file
<1>9. ASSUME NEW c \in Clients, receive_file_data(c) PROVE Only(c) /\ Turn(c)
  <2>1. /\ receive_response(c) /\ UNCHANGED <<user, files>>
        /\ \E l \in {"prompt", "header"} : Goto(c, l)
        /\ place[c] = "header" \/ (place[c] = "reply" /\ req[c].cmd = "download")
    BY <1>9 DEF receive_file_data, Waits
  <2> QED BY <2>1, ReadTurn DEF Turn
<1>10. ASSUME NEW c \in Clients, quit(c) PROVE Only(c) /\ Turn(c)
  BY <1>0, <1>10, QuitTurn DEF Turn
<1>11. ASSUME NEW c \in Clients, cleanup_client(c) \/ Killed(c) PROVE Only(c) /\ Turn(c)
  BY <1>0, <1>11, LeaveTurn DEF cleanup_client, Killed, Talking, Turn
<1>12. ASSUME NEW c \in Clients,
              connect_to_server(c) \/ interactive_mode(c) \/ cleanup_client(c) \/ Killed(c)
       PROVE  Only(c) /\ Turn(c)
  BY <1>4, <1>6, <1>7, <1>8, <1>9, <1>10, <1>11, <1>12 DEF interactive_mode, Only
<1>13. ASSUME NEW c \in Clients, Only(c), Turn(c)
       PROVE  Functions' /\ \A d \in Clients : Turn(d)
  BY <1>13 DEF Only, Turn
<1> QED BY <1>1, <1>2, <1>3, <1>12, <1>13 DEF SessionNext

(* The lines that requests become. *)
LEMMA LineFacts ==
  /\ \A a \in Asked : LineOf(a.cmd) \in Lines /\ LineOf(a.cmd) # "UNKNOWN"
  /\ \A a \in Requests : LineOf(a.cmd) # "QUIT" /\ a # None
<1>1. /\ \A x \in {"login", "delete"} : LineOf(x) = "LOGIN"
      /\ \A x \in {"signup", "upload", "download"} : LineOf(x) = "UPLOAD"
      /\ LineOf("list") = "LIST" /\ LineOf("quit") = "QUIT"
  BY DEF LineOf
<1>2. \A a \in Requests : a \in Request /\ LineOf(a.cmd) \in Lines
  BY SessionAssumption
<1>3. \A a \in Requests : a.cmd \in Commands
  BY <1>2 DEF Request
<1>4. \A a \in Quits : a.cmd = "quit"
  BY DEF Quits
<1>5. \A a \in Requests : LineOf(a.cmd) \in {"LOGIN", "UPLOAD", "LIST"}
  BY <1>1, <1>3 DEF Commands
<1> QED BY <1>1, <1>2, <1>4, <1>5, SessionAssumption DEF Asked

LEMMA QuittingAsked ==
  ASSUME NEW c \in Clients, ProgramTypes(c), user[c] # None
  PROVE  Quitting(c) \in Quits /\ Quitting(c).cmd = "quit"
BY DEF Quitting, Quits, ProgramTypes

LEMMA WholeAsked ==
  ASSUME NEW c \in Clients, ProgramTypes(c), NEW r \in Asked
  PROVE  Whole(c, r) \in Asked /\ (partial[c] # None \/ r \in Requests => Whole(c, r) \in Requests)
<1>1. partial[c] # None => partial[c] \in Requests
  BY DEF ProgramTypes
<1> QED BY <1>1 DEF Whole, Asked

(* Every step of the two programs is one that the proofs about the server  *)
(* allow for.                                                              *)
LEMMA SessionIsStep ==
  ASSUME TypeOK, LinesRead, [SessionNext]_sessionVars,
         \A c \in Clients : ProgramTypes(c) /\ Stage(c)
  PROVE  Step
<1>0. SockTypes /\ MainTypes
  BY TypeParts
<1>1. UNCHANGED vars \/ Next => Step
  BY NextIsStep
<1>2. ASSUME NEW c \in Clients, NEW r \in Asked, SendLine(c, r) PROVE Next
  <2>1. Whole(c, r) \in Asked
    BY <1>2, WholeAsked
  <2>2. PeerSend(c, LineOf(Whole(c, r).cmd))
    BY <1>2 DEF SendLine, Whole
  <2> QED BY <2>1, <2>2, LineFacts DEF Next, PeerNext
<1>3. ASSUME NEW c \in Clients, Close(c), place[c] \in Talking \cup {"bye"} PROVE Step
  <2>1. /\ peer' = [peer EXCEPT ![c] = "gone"]
        /\ UNCHANGED <<mainVars, queueVars, entryVars, ctVars, wVars, fdOpen, rd, replyVars,
                        memVars, crashed>>
    BY <1>3 DEF Close
  <2>2. /\ peer' \in [Clients -> {"off", "up", "gone"}]
        /\ \A d \in Clients : peer'[d] = "off" <=> peer[d] = "off"
    BY <1>0, <1>3, <2>1 DEF SockTypes, Stage, Talking
  <2>3. /\ sent' \in [Clients -> Seq(Lines)]
        /\ \A d \in Clients : Len(sent[d]) <= Len(sent'[d]) /\ Len(sent'[d]) <= MaxLines
    <3>0. /\ sent \in [Clients -> Seq(Lines)] /\ MaxLines \in Nat
          /\ \A d \in Clients : Len(sent[d]) <= MaxLines /\ Len(sent[d]) \in Nat
      BY <1>0, ServerAssumption DEF SockTypes, LinesRead
    <3>1. CASE partial[c] = None
      <4>1. sent' = sent
        BY <1>3, <3>1 DEF Close
      <4> QED BY <3>0, <4>1
    <3>2. CASE partial[c] # None
      <4> DEFINE line == LineOf(partial[c].cmd)
      <4>1. sent' = [sent EXCEPT ![c] = Append(sent[c], line)]
        BY <1>3, <3>2 DEF Close
      <4>2. line \in Lines
        BY <3>2, LineFacts DEF ProgramTypes, Asked
      <4>3. Len(sent[c]) < MaxLines
        BY <1>3, <3>2 DEF Stage, Talking
      <4> HIDE DEF line
      <4>4. /\ Append(sent[c], line) \in Seq(Lines)
            /\ Len(Append(sent[c], line)) = Len(sent[c]) + 1
        BY <3>0, <4>2
      <4>5. \A d \in Clients : sent'[d] = IF d = c THEN Append(sent[c], line) ELSE sent[d]
        BY <3>0, <4>1
      <4>6. sent' \in [Clients -> Seq(Lines)]
        BY <3>0, <4>1, <4>4
      <4>7. Len(sent[c]) + 1 <= MaxLines /\ Len(sent[c]) <= Len(sent[c]) + 1
        BY <3>0, <4>3
      <4> QED BY <3>0, <4>4, <4>5, <4>6, <4>7
    <3> QED BY <3>1, <3>2
  <2>4. running' \in BOOLEAN
    BY <1>0, <2>1 DEF MainTypes, mainVars
  <2>5. Outside
    BY <2>1, <2>2, <2>3, <2>4 DEF Outside, mainVars
  <2> QED BY <2>5 DEF Step
<1>4. ASSUME NEW c \in Clients, NEW r \in Requests, send_command(c, r) PROVE UNCHANGED vars \/ Next
  BY <1>2, <1>4 DEF send_command, Asked
<1>5. ASSUME NEW c \in Clients, receive_response(c) PROVE UNCHANGED vars
  BY <1>5 DEF receive_response
<1>6. ASSUME NEW c \in Clients, quit(c) PROVE UNCHANGED vars \/ Next
  BY <1>2, <1>6, QuittingAsked DEF quit, Asked
<1>7. ASSUME NEW c \in Clients, interactive_mode(c) PROVE UNCHANGED vars \/ Next
  BY <1>4, <1>5, <1>6, <1>7 DEF interactive_mode, signup, login, upload_file, download_file,
       delete_file, list_files, receive_file_data, Asking
<1>8. ASSUME NEW c \in Clients, connect_to_server(c) PROVE Next
  BY <1>8 DEF connect_to_server, Next, PeerNext
<1>9. ServerNext => Next
  BY DEF ServerNext, worker_thread_main, Next, WNext
<1>10. ASSUME NEW c \in Clients, cleanup_client(c) \/ Killed(c) PROVE Step
  BY <1>3, <1>10 DEF cleanup_client, Killed, Talking
<1>11. UNCHANGED sessionVars => UNCHANGED vars
  BY DEF sessionVars
<1> QED BY <1>1, <1>7, <1>8, <1>9, <1>10, <1>11 DEF SessionNext
-----------------------------------------------------------------------------
(* The parts of the invariant, one turn after the other.                   *)

Adds(c, a) ==
    /\ asked'[c] = Append(asked[c], a)
    /\ sent'[c] = Append(sent[c], LineOf(a.cmd))

LEMMA Adding ==
  ASSUME NEW c \in Clients, ProgramTypes(c), Behind(c), sent[c] \in Seq(Lines),
         NEW a \in Asked, Adds(c, a)
  PROVE  /\ asked'[c] \in Seq(Asked) /\ Len(asked[c]) \in Nat
         /\ Len(asked'[c]) = Len(asked[c]) + 1 /\ Len(sent'[c]) = Len(sent[c]) + 1
         /\ \A n \in 1 .. Len(asked[c]) : asked'[c][n] = asked[c][n]
         /\ asked'[c][Len(asked[c]) + 1] = a
         /\ Behind(c)'
<1> DEFINE k == Len(asked[c])
<1>1. /\ asked[c] \in Seq(Asked) /\ k = Len(sent[c])
      /\ \A n \in 1 .. k : sent[c][n] = LineOf(asked[c][n].cmd)
  BY DEF ProgramTypes, Behind
<1>2. /\ k \in Nat /\ asked'[c] \in Seq(Asked) /\ Len(asked'[c]) = k + 1
      /\ \A n \in 1 .. k : asked'[c][n] = asked[c][n]
      /\ asked'[c][k + 1] = a
  BY <1>1, AppendFacts DEF Adds
<1>3. /\ Len(sent'[c]) = k + 1
      /\ \A n \in 1 .. k : sent'[c][n] = sent[c][n]
      /\ sent'[c][k + 1] = LineOf(a.cmd)
  BY <1>1, AppendFacts DEF Adds
<1> HIDE DEF k
<1>4. \A n \in 1 .. k + 1 : sent'[c][n] = LineOf(asked'[c][n].cmd)
  <2> SUFFICES ASSUME NEW n \in 1 .. k + 1 PROVE sent'[c][n] = LineOf(asked'[c][n].cmd)
    OBVIOUS
  <2>1. CASE n \in 1 .. k
    BY <1>1, <1>2, <1>3, <2>1
  <2>2. CASE n = k + 1
    BY <1>2, <1>3, <2>2
  <2> QED BY <1>2, <2>1, <2>2
<1>5. Behind(c)'
  BY <1>2, <1>3, <1>4 DEF Behind
<1> QED BY <1>1, <1>2, <1>3, <1>5 DEF k

(* What a turn adds to the lines. *)
LEMMA Added ==
  ASSUME NEW c \in Clients, ProgramTypes(c), Turn(c)
  PROVE  \/ UNCHANGED <<asked[c], sent[c]>>
         \/ \E a \in Requests : Adds(c, a) /\ (Sends(c) \/ Parts(c) \/ Leaves(c))
         \/ \E a \in Quits : Adds(c, a) /\ Parts(c)
<1>1. CASE Rest(c) \/ Connects(c) \/ Cuts(c) \/ Breaks(c) \/ Reads(c) \/ Ends(c)
  BY <1>1 DEF Rest, Connects, Cuts, Breaks, Reads, Ends
<1>2. CASE Sends(c)
  <2>1. PICK r \in Requests : Line(c, r)
    BY <1>2 DEF Sends
  <2>2. Whole(c, r) \in Requests
    BY WholeAsked DEF Asked
  <2> QED BY <1>2, <2>1, <2>2 DEF Line, Adds
<1>3. CASE Parts(c)
  <2>1. Line(c, Quitting(c)) /\ Quitting(c) \in Quits
    BY <1>3, QuittingAsked DEF Parts
  <2>2. Whole(c, Quitting(c)) \in Requests \cup Quits
    BY <2>1, WholeAsked DEF Asked
  <2> QED BY <1>3, <2>1, <2>2 DEF Line, Adds
<1>4. CASE Leaves(c)
  BY <1>4 DEF Leaves, Adds, ProgramTypes
<1> QED BY <1>1, <1>2, <1>3, <1>4 DEF Turn

LEMMA TurnBehind ==
  ASSUME NEW c \in Clients, ProgramTypes(c), Behind(c), sent[c] \in Seq(Lines), Turn(c)
  PROVE  Behind(c)' /\ asked'[c] \in Seq(Asked)
<1>1. CASE UNCHANGED <<asked[c], sent[c]>>
  BY <1>1 DEF Behind, ProgramTypes
<1>2. ASSUME NEW a \in Asked, Adds(c, a) PROVE Behind(c)' /\ asked'[c] \in Seq(Asked)
  BY <1>2, Adding
<1> QED BY <1>1, <1>2, Added DEF Asked

LEMMA TurnTypes ==
  ASSUME NEW c \in Clients, ProgramTypes(c), Behind(c), sent[c] \in Seq(Lines), Turn(c)
  PROVE  ProgramTypes(c)'
<1>0. asked'[c] \in Seq(Asked)
  BY TurnBehind
<1>1. CASE Rest(c) \/ Connects(c) \/ Ends(c) \/ Leaves(c) \/ Parts(c)
  <2>1. UNCHANGED <<user[c], req[c], taken[c]>> /\ (partial'[c] = partial[c] \/ partial'[c] = None)
    BY <1>1 DEF Rest, Connects, Ends, Leaves, Parts, Line
  <2>2. place'[c] = place[c] \/ place'[c] \in {"prompt", "bye", "left"}
    BY <1>1 DEF Rest, Connects, Ends, Leaves, Parts
  <2> QED BY <1>0, <2>1, <2>2 DEF ProgramTypes, Talking
<1>2. CASE Sends(c) \/ Cuts(c) \/ Breaks(c)
  <2>1. PICK r \in Requests :
          /\ req'[c] = r /\ place'[c] \in {"reply", "left"}
          /\ UNCHANGED <<user[c], taken[c]>>
          /\ \/ partial'[c] = partial[c] \/ partial'[c] = None
             \/ r.cut /\ partial'[c] = r
    BY <1>2 DEF Sends, Cuts, Breaks, Line
  <2> QED BY <1>0, <2>1 DEF ProgramTypes, Talking
<1>3. CASE Reads(c)
  <2>1. UNCHANGED <<req[c], partial[c]>> /\ place'[c] \in {"prompt", "header"}
    BY <1>3 DEF Reads
  <2>2. req[c] \in Requests
    BY <1>3 DEF Reads, ProgramTypes
  <2>3. req[c].user \in Users
    BY <2>2, SessionAssumption DEF Request
  <2>4. user'[c] \in Users \cup {None}
    BY <1>3, <2>3 DEF Reads, ProgramTypes
  <2>5. taken'[c] \in Nat
    BY <1>3 DEF Reads, ProgramTypes
  <2> QED BY <1>0, <2>1, <2>2, <2>4, <2>5 DEF ProgramTypes, Talking
<1> QED BY <1>1, <1>2, <1>3 DEF Turn

LEMMA TurnStage ==
  ASSUME SockTypes, NEW c \in Clients, ProgramTypes(c), Behind(c), Stage(c), Turn(c)
  PROVE  Stage(c)'
<1>0. /\ sent[c] \in Seq(Lines) /\ Len(sent[c]) \in Nat /\ Len(asked[c]) = Len(sent[c])
      /\ MaxLines \in Nat /\ peer[c] \in {"off", "up", "gone"}
  BY ServerAssumption DEF SockTypes, Behind
<1>1. CASE Rest(c)
  BY <1>1 DEF Rest, Stage
<1>2. CASE Connects(c)
  <2>1. peer'[c] = "up"
    BY <1>2 DEF Connects, MainAccept, SockTypes
  <2>2. /\ place[c] = "off" /\ place'[c] = "prompt"
        /\ UNCHANGED <<asked[c], partial[c], sent[c]>>
    BY <1>2 DEF Connects
  <2> QED BY <2>1, <2>2 DEF Stage, Talking
<1>3. CASE Ends(c) \/ Breaks(c) \/ Reads(c)
  <2>1. /\ place[c] \in Talking /\ place'[c] \in Talking \cup {"bye", "left"}
        /\ UNCHANGED <<asked[c], partial[c], sent[c], peer[c]>>
    BY <1>3 DEF Ends, Breaks, Reads, Talking
  <2> QED BY <2>1 DEF Stage, Talking
<1>4. CASE Cuts(c)
  <2>1. /\ place[c] = "prompt" /\ place'[c] = "reply" /\ Len(sent[c]) < MaxLines
        /\ UNCHANGED <<asked[c], sent[c], peer[c]>>
    BY <1>4 DEF Cuts
  <2> QED BY <2>1 DEF Stage, Talking
<1>5. CASE Sends(c)
  <2>1. PICK r \in Requests : Line(c, r) /\ place'[c] = "reply"
    BY <1>5 DEF Sends
  <2>2. /\ place[c] = "prompt" /\ partial'[c] = None /\ peer'[c] = peer[c]
        /\ Adds(c, Whole(c, r)) /\ Whole(c, r) \in Requests
    BY <2>1, WholeAsked DEF Line, Adds, Asked
  <2>3. /\ Len(asked[c]) \in Nat /\ Len(asked'[c]) = Len(asked[c]) + 1
        /\ \A n \in 1 .. Len(asked[c]) : asked'[c][n] = asked[c][n]
        /\ asked'[c][Len(asked[c]) + 1] = Whole(c, r)
    BY <1>0, <2>2, Adding DEF Asked
  <2>4. \A n \in 1 .. Len(asked[c]) : asked[c][n] \in Requests
    BY <2>2 DEF Stage, Talking
  <2>5. \A n \in 1 .. Len(asked'[c]) : asked'[c][n] \in Requests
    <3> SUFFICES ASSUME NEW n \in 1 .. Len(asked'[c]) PROVE asked'[c][n] \in Requests
      OBVIOUS
    <3>1. n \in 1 .. Len(asked[c]) \/ n = Len(asked[c]) + 1
      BY <2>3
    <3> QED BY <2>2, <2>3, <2>4, <3>1
  <2> QED BY <2>1, <2>2, <2>5 DEF Stage, Talking
<1>6. CASE Parts(c)
  <2>1. /\ place[c] = "prompt" /\ place'[c] = "bye" /\ partial'[c] = None /\ peer'[c] = peer[c]
    BY <1>6 DEF Parts, Line
  <2> QED BY <2>1 DEF Stage, Talking
<1>7. CASE Leaves(c)
  <2>1. place'[c] = "left" /\ peer'[c] = "gone"
    BY <1>7 DEF Leaves
  <2> QED BY <2>1 DEF Stage, Talking
<1> QED BY <1>1, <1>2, <1>3, <1>4, <1>5, <1>6, <1>7 DEF Turn

LEMMA NotWritten ==
  ASSUME Functions, NEW c \in Clients, NEW s \in Temps, NEW n \in Nat \ {0}, files'[s] = <<c, n>>,
         Kept(c) \/ \E x : files' = [files EXCEPT ![x] = <<c, 0>>]
  PROVE  files[s] = <<c, n>>
<1>1. files \in [Temps -> (Clients \cup {None}) \X Nat]
  BY DEF Functions
<1>2. CASE Kept(c)
  BY <1>2 DEF Kept, Others
<1>3. ASSUME NEW x, files' = [files EXCEPT ![x] = <<c, 0>>] PROVE files[s] = <<c, n>>
  BY <1>1, <1>3
<1> QED BY <1>2, <1>3

LEMMA TurnFiles ==
  ASSUME Functions, NEW c \in Clients, ProgramTypes(c), FileStage(c), Turn(c)
  PROVE  FileStage(c)'
<1> SUFFICES ASSUME NEW s \in Temps, NEW n \in Nat \ {0}, files'[s] = <<c, n>>
             PROVE  \/ place'[c] = "left"
                    \/ place'[c] = "reply" /\ req'[c].cmd = "upload" /\ req'[c].tmp = s
  BY DEF FileStage
<1>0. files[s] = <<c, n>> =>
        place[c] = "left" \/ (place[c] = "reply" /\ req[c].cmd = "upload" /\ req[c].tmp = s)
  BY DEF FileStage
<1>1. CASE Rest(c)
  <2>1. Kept(c) \/ \E x : files' = [files EXCEPT ![x] = <<c, 0>>]
    BY <1>1 DEF Rest, Unlinks, Spurned
  <2> QED BY <1>0, <1>1, <2>1, NotWritten DEF Rest
<1>2. CASE Connects(c) \/ Ends(c) \/ Parts(c)
  <2>1. place[c] \in {"off", "prompt"} /\ Kept(c)
    BY <1>2 DEF Connects, Ends, Parts, Line
  <2> QED BY <1>0, <2>1, NotWritten
<1>3. CASE Sends(c) \/ Cuts(c) \/ Breaks(c)
  <2>1. PICK r \in Requests :
          /\ place[c] = "prompt" /\ place'[c] \in {"reply", "left"} /\ req'[c] = r
          /\ Filed(c, r)
    BY <1>3 DEF Sends, Cuts, Breaks, Line
  <2>2. files[s] # <<c, n>>
    BY <1>0, <2>1
  <2>3. r.cmd = "upload"
    BY <2>1, <2>2, NotWritten DEF Filed
  <2>4. r.tmp = s
    BY <2>1, <2>2, <2>3 DEF Filed, Functions
  <2> QED BY <2>1, <2>3, <2>4
<1>4. CASE Reads(c)
  <2>1. Kept(c) \/ \E x : files' = [files EXCEPT ![x] = <<c, 0>>]
    BY <1>4 DEF Reads
  <2>2. place[c] = "reply" /\ req[c].cmd = "upload" /\ req[c].tmp = s
    BY <1>0, <1>4, <2>1, NotWritten DEF Reads
  <2>3. files' = [files EXCEPT ![s] = <<c, 0>>]
    BY <1>4, <2>2 DEF Reads
  <2> QED BY <2>3 DEF Functions
<1>5. CASE Leaves(c)
  BY <1>5 DEF Leaves
<1> QED BY <1>1, <1>2, <1>3, <1>4, <1>5 DEF Turn

(* There are no more replies than lines. *)
LEMMA Sizes ==
  ASSUME OwnerInv, CountInv, Functions, NEW c \in Clients, ProgramTypes(c), Behind(c)
  PROVE  /\ Len(out[c]) \in Nat /\ Len(sent[c]) \in Nat /\ taken[c] \in Nat /\ splits \in Nat
         /\ Len(out[c]) <= Len(sent[c]) /\ Len(asked[c]) = Len(sent[c])
         /\ out[c] \in Seq(Replied) /\ sent[c] \in Seq(Lines)
         /\ rd[c] \in Nat /\ Len(out[c]) <= rd[c] /\ rd[c] <= Len(sent[c])
<1>1. SockTypes /\ out[c] \in Seq(Replied) /\ rd[c] \in Nat
  BY TypeParts, RespTypes DEF OwnerInv
<1>2. Len(out[c]) <= rd[c] /\ rd[c] <= Len(sent[c])
  BY DEF CountInv, OwnerInv, LinesRead
<1>3. /\ Len(out[c]) \in Nat /\ sent[c] \in Seq(Lines) /\ Len(sent[c]) \in Nat
      /\ taken[c] \in Nat /\ Len(asked[c]) = Len(sent[c])
  BY <1>1, RespNumbers DEF SockTypes, ProgramTypes, Behind
<1>4. splits \in Nat
  BY SessionAssumption DEF Functions
<1> QED BY <1>1, <1>2, <1>3, <1>4

(* A step writes at most one reply. *)
LEMMA OneReply ==
  ASSUME OwnerInv, TaskInv, Step, NEW c \in Clients
  PROVE  \/ out'[c] = out[c]
         \/ \E x : out'[c] = Append(out[c], x) /\ Len(out'[c]) = Len(out[c]) + 1
<1>1. Episode(c) /\ out[c] \in Seq(Replied)
  BY Episodes, RespTypes DEF OwnerInv
<1>2. \A x : Len(Append(out[c], x)) = Len(out[c]) + 1
  BY <1>1, AppendFacts
<1> QED BY <1>1, <1>2 DEF Episode, Idle, Command, Skipped, Refused, Taken, Expired, Silent, Lost,
                          Dropped, Delivered

LEMMA TurnRead ==
  ASSUME OwnerInv, TaskInv, CountInv, HeldOpen, Functions, Step,
         OwnerInv', CountInv', Functions',
         NEW c \in Clients, ProgramTypes(c), Behind(c), Stage(c), ReadInv(c), Turn(c),
         ProgramTypes(c)', Behind(c)'
  PROVE  ReadInv(c)'
<1> DEFINE Near == place[c] \in {"prompt", "header"}
           Cut == partial[c] # None /\ place[c] # "left"
<1>1. PICK k \in Nat, m \in Nat, T \in Nat, s \in Nat, p \in 0 .. 1 :
        /\ k = Len(out[c]) /\ m = Len(sent[c]) /\ T = taken[c] /\ s = splits /\ p = One(Cut)
  BY Sizes DEF One
<1>2. PICK j \in Nat, n \in Nat, U \in Nat, r \in Nat, q \in 0 .. 1 :
        /\ j = Len(out'[c]) /\ n = Len(sent'[c]) /\ U = taken'[c] /\ r = splits' /\ q = One(Cut')
  <2>1. (Len(out[c]) \in Nat /\ Len(sent[c]) \in Nat /\ taken[c] \in Nat /\ splits \in Nat)'
    BY Sizes, PTL
  <2>2. One(Cut') \in 0 .. 1
    BY DEF One
  <2> QED BY <2>1, <2>2
<1>3. k <= m /\ j <= n
  <2>1. (Len(out[c]) <= Len(sent[c]))'
    BY Sizes, PTL
  <2> QED BY <1>1, <1>2, <2>1, Sizes
<1>4. PICK F \in Nat : F = Final(c) /\ (HungUp(c) => F = k) /\ (~ HungUp(c) => F = m + p)
  <2>1. Final(c) = IF HungUp(c) THEN k ELSE m + p
    BY <1>1 DEF Final
  <2> QED BY <2>1
<1>5. PICK G \in Nat : G = Final(c)' /\ (HungUp(c)' => G = j) /\ (~ HungUp(c)' => G = n + q)
  <2>1. Final(c)' = IF HungUp(c)' THEN j ELSE n + q
    BY <1>2 DEF Final
  <2>2. CASE HungUp(c)'
    BY <2>1, <2>2
  <2>3. CASE ~ HungUp(c)'
    <3>1. Final(c)' = n + q /\ n + q \in Nat
      BY <2>1, <2>3
    <3> QED BY <2>3, <3>1
  <2> QED BY <2>2, <2>3
<1>6. T <= 2 * k /\ 2 * F - T <= 2 + 2 * s /\ (Near => 2 * F - T <= 2 * s)
  BY <1>1, <1>4 DEF ReadInv
<1> DEFINE Goal == U <= 2 * j /\ 2 * G - U <= 2 + 2 * r /\ (Near' => 2 * G - U <= 2 * r)
<1>7. SUFFICES Goal
  BY <1>2, <1>5 DEF ReadInv
<1>8. k <= j /\ (out'[c] = out[c] => j = k)
  BY <1>1, <1>2, OneReply
<1>9. Calm => j = k /\ (HungUp(c)' <=> HungUp(c))
  BY <1>1, <1>2 DEF Calm, HungUp
<1>10. ASSUME U = T, G <= F, s <= r, Near' => Near PROVE Goal
  <2>1. U <= 2 * j /\ 2 * G - U <= 2 + 2 * r /\ (2 * F - T <= 2 * s => 2 * G - U <= 2 * r)
    BY <1>6, <1>8, <1>10
  <2> QED BY <1>6, <1>10, <2>1
<1>11. ASSUME U = T, G <= F + 1, r = s, Near, ~ Near' PROVE Goal
  <2>1. U <= 2 * j /\ 2 * G - U <= 2 + 2 * r
    BY <1>6, <1>8, <1>11
  <2> QED BY <1>11, <2>1
<1>12. ASSUME j = k, U \in T + 1 .. 2 * k, G = F, (U = 2 * k /\ r = s) \/ r = s + 1 PROVE Goal
  <2>1. U <= 2 * j /\ 2 * G - U <= 2 + 2 * r
    BY <1>6, <1>12
  <2>2. 2 * G - U <= 2 * r
    BY <1>6, <1>12
  <2> QED BY <2>1, <2>2
<1> HIDE DEF Goal, Near
<1>13. CASE Rest(c)
  <2>1. U = T /\ n = m /\ s <= r /\ (Near' <=> Near) /\ q = p
    BY <1>1, <1>2, <1>13 DEF Rest, Near, One
  <2>2. G <= F
    <3>1. CASE peer[c] = "off"
      <4>1. m = 0 /\ p = 0
        BY <1>1, <3>1 DEF Stage, One
      <4>2. CASE HungUp(c)'
        BY <1>3, <1>5, <2>1, <4>1, <4>2
      <4>3. CASE ~ HungUp(c)'
        BY <1>5, <2>1, <4>1, <4>3
      <4> QED BY <4>2, <4>3
    <3>2. CASE peer[c] # "off" /\ HungUp(c)
      <4>1. HungUp(c)' /\ j = k
        BY <1>8, <3>2, HangsUp
      <4> QED BY <1>4, <1>5, <3>2, <4>1
    <3>3. CASE ~ HungUp(c)
      <4>1. F = m + p
        BY <1>4, <3>3
      <4>2. G = j \/ G = n + q
        BY <1>5
      <4> QED BY <1>3, <2>1, <4>1, <4>2
    <3> QED BY <3>1, <3>2, <3>3
  <2> QED BY <1>10, <2>1, <2>2
<1>14. CASE Connects(c)
  <2>1. place[c] = "off" /\ U = T /\ n = m /\ partial'[c] = partial[c] /\ r = s
    BY <1>1, <1>2, <1>14 DEF Connects
  <2>2. m = 0 /\ partial[c] = None /\ T = 0
    BY <1>1, <2>1 DEF Stage
  <2>3. q = 0
    BY <1>2, <2>1, <2>2 DEF One
  <2>4. G = 0
    <3>1. G = j \/ G = n + q
      BY <1>5
    <3> QED BY <1>3, <2>1, <2>2, <2>3, <3>1
  <2>5. U <= 2 * j /\ 2 * G - U <= 2 + 2 * r /\ 2 * G - U <= 2 * r
    BY <2>1, <2>2, <2>4
  <2> QED BY <2>5 DEF Goal
<1>15. CASE Sends(c) \/ Parts(c)
  <2>1. PICK x : Line(c, x)
    BY <1>15 DEF Sends, Parts
  <2>2. /\ Calm /\ ~ HungUp(c) /\ Near /\ ~ Near'
        /\ U = T /\ r = s /\ partial'[c] = None
    BY <1>1, <1>2, <1>15, <2>1 DEF Sends, Parts, Line, Near
  <2>3. sent[c] \in Seq(Lines) /\ sent'[c] = Append(sent[c], LineOf(Whole(c, x).cmd))
    BY <2>1, Sizes DEF Line
  <2>4. n = m + 1
    BY <1>1, <1>2, <2>3, AppendFacts
  <2>5. q = 0
    BY <1>2, <2>2 DEF One
  <2>6. G = n + q /\ F = m + p
    BY <1>4, <1>5, <1>9, <2>2
  <2>7. G <= F + 1
    BY <2>4, <2>5, <2>6
  <2> QED BY <1>11, <2>2, <2>7
<1>16. CASE Cuts(c)
  <2>1. /\ Calm /\ ~ HungUp(c) /\ Near /\ ~ Near'
        /\ U = T /\ n = m /\ r = s
    BY <1>1, <1>2, <1>16 DEF Cuts, Near
  <2>2. G = n + q /\ F = m + p
    BY <1>4, <1>5, <1>9, <2>1
  <2>3. G <= F + 1
    BY <2>1, <2>2
  <2> QED BY <1>11, <2>1, <2>3
<1>17. CASE Breaks(c)
  <2>1. /\ Calm /\ HungUp(c) /\ Near /\ ~ Near' /\ U = T /\ r = s
    BY <1>1, <1>2, <1>17 DEF Breaks, Near
  <2>2. G = j /\ F = k /\ j = k
    BY <1>4, <1>5, <1>9, <2>1
  <2>3. G <= F /\ s <= r
    BY <2>1, <2>2
  <2> QED BY <1>10, <2>1, <2>3
<1>18. CASE Ends(c)
  <2>1. /\ Calm /\ Near /\ ~ Near' /\ U = T /\ n = m /\ r = s /\ q = p
    BY <1>1, <1>2, <1>18 DEF Ends, Near, One
  <2>2. G = F
    BY <1>4, <1>5, <1>9, <2>1
  <2>3. G <= F /\ s <= r
    BY <2>1, <2>2
  <2> QED BY <1>10, <2>1, <2>3
<1>19. CASE Reads(c)
  <2>1. /\ Calm /\ Near' /\ place[c] # "left" /\ place'[c] # "left"
        /\ n = m /\ partial'[c] = partial[c]
    BY <1>1, <1>2, <1>19 DEF Reads, Near
  <2>2. q = p
    BY <1>1, <1>2, <2>1 DEF One
  <2>3. G = F /\ j = k
    BY <1>4, <1>5, <1>9, <2>1, <2>2
  <2>4. \/ U \in T + 1 .. 2 * k /\ ((U = 2 * k /\ r = s) \/ r = s + 1)
        \/ 2 * k - T = 0 /\ HungUp(c) /\ U = T /\ r = s
    BY <1>1, <1>2, <1>19 DEF Reads, Unread
  <2>5. CASE U \in T + 1 .. 2 * k /\ ((U = 2 * k /\ r = s) \/ r = s + 1)
    BY <1>12, <2>3, <2>5
  <2>6. CASE 2 * k - T = 0 /\ HungUp(c) /\ U = T /\ r = s
    <3>1. G = k
      BY <1>4, <2>3, <2>6
    <3>2. U <= 2 * j /\ 2 * G - U <= 2 + 2 * r /\ 2 * G - U <= 2 * r
      BY <2>3, <2>6, <3>1
    <3> QED BY <3>2 DEF Goal
  <2> QED BY <2>4, <2>5, <2>6
<1>20. CASE Leaves(c)
  <2>1. /\ Calm /\ place[c] # "left" /\ place'[c] = "left" /\ ~ Near' /\ U = T /\ r = s
    BY <1>1, <1>2, <1>20 DEF Leaves, Talking, Near
  <2>2. q = 0 /\ p = One(partial[c] # None)
    BY <1>1, <1>2, <2>1 DEF One
  <2>3. n = m + p
    <3>1. sent[c] \in Seq(Lines)
      BY Sizes
    <3>2. CASE partial[c] # None
      <4>1. sent'[c] = Append(sent[c], LineOf(partial[c].cmd)) /\ p = 1
        BY <1>20, <2>2, <3>2 DEF Leaves, One
      <4> QED BY <1>1, <1>2, <3>1, <4>1, AppendFacts
    <3>3. CASE partial[c] = None
      BY <1>1, <1>2, <1>20, <2>2, <3>3 DEF Leaves, One
    <3> QED BY <3>2, <3>3
  <2>4. G <= F
    <3>1. CASE HungUp(c)
      BY <1>4, <1>5, <1>9, <2>1, <3>1
    <3>2. CASE ~ HungUp(c)
      BY <1>4, <1>5, <1>9, <2>1, <2>2, <2>3, <3>2
    <3> QED BY <3>1, <3>2
  <2>5. s <= r
    BY <2>1
  <2> QED BY <1>10, <2>1, <2>4, <2>5
<1> QED BY <1>13, <1>14, <1>15, <1>16, <1>17, <1>18, <1>19, <1>20 DEF Turn
LEMMA TurnOpen ==
  ASSUME ReplyInv, Step, NEW c \in Clients, ProgramTypes(c), Behind(c), Stage(c), OpenInv(c),
         Turn(c)
  PROVE  OpenInv(c)'
<1>0. OwnerInv /\ SockTypes
  BY TypeParts DEF ReplyInv, OwnerInv
<1> SUFFICES ASSUME failures' = 0, place'[c] \in Talking PROVE c \in fdOpen' /\ ~ Shut(c)'
  BY DEF OpenInv
<1>1. CASE Rest(c)
  <2>1. place[c] \in Talking
    BY <1>1 DEF Rest
  <2>2. peer[c] = "up"
    BY <1>0, <2>1 DEF Stage, Talking, SockTypes
  <2>3. \A n \in 1 .. Len(sent[c]) : sent[c][n] # "QUIT"
    BY <2>1, LineFacts DEF Stage, Behind
  <2> QED BY <2>1, <2>2, <2>3, StepOpen
<1>2. CASE Connects(c)
  <2>1. MainAccept(c)
    BY <1>2 DEF Connects
  <2>2. peer[c] = "off" /\ c \in fdOpen' /\ UNCHANGED <<ctPc, ctConn>>
    BY <2>1 DEF MainAccept, ctVars
  <2>3. \A t \in ClientThreads : ctConn[t] # c
    BY <1>0, <2>2 DEF OwnerInv, Unconnected
  <2> QED BY <2>2, <2>3 DEF Shut
<1>3. CASE Calm /\ place[c] \in Talking
  BY <1>3 DEF Calm, OpenInv, Shut
<1>4. Sends(c) \/ Cuts(c) \/ Breaks(c) \/ Reads(c) \/ Parts(c) \/ Ends(c)
        => Calm /\ place[c] \in Talking
  BY DEF Sends, Cuts, Breaks, Reads, Parts, Ends, Line, Talking
<1>5. ~ Leaves(c)
  BY DEF Leaves, Talking
<1> QED BY <1>1, <1>2, <1>3, <1>4, <1>5 DEF Turn

LEMMA TurnNumber ==
  ASSUME ReplyInv, Step, NEW c \in Clients, ProgramTypes(c), Behind(c), Stage(c), NumberInv(c)
  PROVE  NumberInv(c)'
<1>1. asked[c] \in Seq(Asked) /\ Len(asked[c]) = Len(sent[c])
  BY DEF ProgramTypes, Behind
<1>2. \A n \in 1 .. Len(asked[c]) : asked[c][n] \in Asked
  BY <1>1
<1>3. \A n \in 1 .. Len(sent[c]) : sent[c][n] # "UNKNOWN"
  BY <1>1, <1>2, LineFacts DEF Behind
<1> QED BY <1>3, StepNumber DEF Stage

(* At the prompt, if replies are read whole, everything has been answered  *)
(* and read, and no command lacks its newline.                             *)
LEMMA AtPrompt ==
  ASSUME OwnerInv, CountInv, Functions, NEW c \in Clients, ProgramTypes(c), Behind(c),
         ReadInv(c), splits = 0, place[c] = "prompt", ~ HungUp(c)
  PROVE  /\ taken[c] = 2 * Len(sent[c]) /\ Len(out[c]) = Len(sent[c]) /\ partial[c] = None
<1> DEFINE Cut == partial[c] # None /\ place[c] # "left"
<1>1. PICK k \in Nat, m \in Nat, T \in Nat, p \in 0 .. 1 :
        k = Len(out[c]) /\ m = Len(sent[c]) /\ T = taken[c] /\ k <= m /\ p = One(Cut)
  BY Sizes DEF One
<1>2. T <= 2 * k /\ 2 * (m + p) - T <= 0
  <2>1. Final(c) = m + p
    BY <1>1 DEF Final
  <2>2. T <= 2 * k /\ 2 * Final(c) - T <= 2 * 0
    BY <1>1 DEF ReadInv
  <2> QED BY <2>1, <2>2
<1>3. T = 2 * m /\ k = m /\ p = 0
  <2>1. k <= m
    BY <1>1
  <2>2. p = 0 \/ p = 1
    OBVIOUS
  <2> QED BY <1>2, <2>1, <2>2
<1> QED BY <1>1, <1>3 DEF One

(* A read, if replies are read whole, returns the last reply, or the end   *)
(* of the stream.                                                          *)
LEMMA LastRead ==
  ASSUME OwnerInv, CountInv, Functions, NEW c \in Clients, ProgramTypes(c), Behind(c),
         ReadInv(c), LastInv(c), splits' = 0, Reads(c)
  PROVE  \/ Unread(c) = 0 /\ HungUp(c) /\ taken'[c] = taken[c]
         \/ /\ place[c] = "reply" /\ Len(sent[c]) > 0 /\ Len(out[c]) = Len(sent[c])
            /\ taken[c] = 2 * (Len(sent[c]) - 1) /\ taken'[c] = 2 * Len(sent[c])
            /\ asked[c][Len(sent[c])] = req[c]
<1> DEFINE Cut == partial[c] # None /\ place[c] # "left"
<1>1. PICK k \in Nat, m \in Nat, T \in Nat, s \in Nat, p \in 0 .. 1 :
        /\ k = Len(out[c]) /\ m = Len(sent[c]) /\ T = taken[c] /\ s = splits /\ k <= m
        /\ p = One(Cut) /\ m = Len(asked[c])
  BY Sizes DEF One
<1>2. SUFFICES ASSUME taken'[c] \in T + 1 .. 2 * k, taken'[c] = 2 * k /\ s = 0
               PROVE  /\ place[c] = "reply" /\ m > 0 /\ k = m /\ T = 2 * (m - 1)
                      /\ asked[c][m] = req[c]
  <2>1. \/ taken'[c] \in T + 1 .. 2 * k /\ ((taken'[c] = 2 * k /\ splits' = s) \/ splits' = s + 1)
        \/ Unread(c) = 0 /\ HungUp(c) /\ taken'[c] = taken[c]
    BY <1>1 DEF Reads
  <2>2. splits' # s + 1
    BY <1>1
  <2> QED BY <1>1, <2>1, <2>2
<1>3. T < 2 * k
  BY <1>2
<1>4. PICK F \in Nat : F = Final(c) /\ k <= F
  <2>1. Final(c) = IF HungUp(c) THEN k ELSE m + p
    BY <1>1 DEF Final
  <2> QED BY <1>1, <2>1
<1>5. /\ place[c] \in {"reply", "header"} /\ 2 * F - T <= 2 + 2 * s
      /\ place[c] = "header" => 2 * F - T <= 2 * s
  BY <1>1, <1>4 DEF Reads, ReadInv
<1>6. place[c] = "reply"
  <2>1. ~ (2 * F - T <= 2 * s)
    BY <1>2, <1>3, <1>4
  <2> QED BY <1>5, <2>1
<1>7. ~ (T >= 2 * m) /\ ~ (T >= 2 * k)
  BY <1>1, <1>3
<1>8. T % 2 = 0 /\ m > 0 /\ asked[c][m] = req[c] /\ T >= 2 * (m - 1)
  BY <1>1, <1>2, <1>6, <1>7 DEF LastInv, Over
<1>9. T = 2 * (m - 1) /\ k = m
  BY <1>1, <1>3, <1>8
<1> QED BY <1>6, <1>8, <1>9

LEMMA TurnLast ==
  ASSUME OwnerInv, CountInv, HeldOpen, Functions, Functions', Step,
         NEW c \in Clients, ProgramTypes(c), Behind(c), Stage(c), ReadInv(c), LastInv(c), Turn(c)
  PROVE  LastInv(c)'
<1> DEFINE Last == \/ Over(c)
                   \/ /\ Len(asked[c]) > 0 /\ asked[c][Len(asked[c])] = req[c]
                      /\ taken[c] >= 2 * (Len(asked[c]) - 1)
<1> SUFFICES ASSUME splits' = 0
             PROVE  taken'[c] % 2 = 0 /\ (place'[c] = "reply" => Last')
  BY DEF LastInv
<1>0. /\ splits \in Nat /\ Len(sent[c]) \in Nat /\ Len(out[c]) \in Nat /\ taken[c] \in Nat
      /\ Len(out[c]) <= Len(sent[c]) /\ Len(asked[c]) = Len(sent[c]) /\ sent[c] \in Seq(Lines)
  BY Sizes
<1>1. ASSUME splits = 0 PROVE taken[c] % 2 = 0 /\ (place[c] = "reply" => Last)
  BY <1>1 DEF LastInv
<1>2. CASE Rest(c)
  <2>1. /\ UNCHANGED <<place[c], req[c], asked[c], taken[c], sent[c]>>
        /\ splits = 0
    BY <1>0, <1>2 DEF Rest
  <2>2. ASSUME place[c] = "reply", Over(c) PROVE Over(c)'
    <3>1. CASE taken[c] >= 2 * Len(sent[c])
      BY <2>1, <3>1 DEF Over
    <3>2. CASE HungUp(c) /\ taken[c] >= 2 * Len(out[c])
      <4>1. HungUp(c)' /\ out'[c] = out[c]
        BY <2>2, <3>2, HangsUp DEF Stage
      <4> QED BY <2>1, <3>2, <4>1 DEF Over
    <3> QED BY <2>2, <3>1, <3>2 DEF Over
  <2> QED BY <1>1, <2>1, <2>2
<1>3. CASE Connects(c) \/ Ends(c) \/ Leaves(c) \/ Parts(c)
  <2>1. UNCHANGED <<taken[c], splits>> /\ place'[c] # "reply"
    BY <1>3 DEF Connects, Ends, Leaves, Parts, Line
  <2> QED BY <1>1, <2>1
<1>4. CASE Sends(c)
  <2>1. PICK r \in Requests : Line(c, r) /\ req'[c] = r
    BY <1>4 DEF Sends
  <2>2. /\ splits = 0 /\ place[c] = "prompt" /\ ~ HungUp(c) /\ taken'[c] = taken[c]
        /\ Adds(c, Whole(c, r))
    BY <2>1 DEF Line, Adds
  <2>3. taken[c] = 2 * Len(sent[c]) /\ Whole(c, r) = r
    BY <2>2, AtPrompt DEF Whole
  <2>4. /\ Len(asked'[c]) = Len(asked[c]) + 1 /\ asked'[c][Len(asked[c]) + 1] = r
    BY <1>0, <2>2, <2>3, Adding DEF Asked
  <2>5. Len(asked'[c]) > 0 /\ taken'[c] >= 2 * (Len(asked'[c]) - 1)
    BY <1>0, <2>2, <2>3, <2>4
  <2> QED BY <1>1, <2>1, <2>2, <2>4, <2>5
<1>5. CASE Cuts(c)
  <2>1. /\ splits = 0 /\ place[c] = "prompt" /\ ~ HungUp(c) /\ UNCHANGED <<taken[c], sent[c]>>
    BY <1>5 DEF Cuts
  <2>2. taken[c] = 2 * Len(sent[c])
    BY <2>1, AtPrompt
  <2>3. taken'[c] >= 2 * Len(sent'[c])
    BY <1>0, <2>1, <2>2
  <2> QED BY <1>1, <2>1, <2>3 DEF Over
<1>6. CASE Breaks(c)
  <2>1. /\ splits = 0 /\ place[c] = "prompt" /\ HungUp(c) /\ taken'[c] = taken[c] /\ Calm
    BY <1>6 DEF Breaks
  <2>2. 2 * Len(out[c]) - taken[c] <= 2 * 0
    BY <2>1 DEF ReadInv, Final
  <2>3. taken[c] >= 2 * Len(out[c])
    BY <1>0, <2>2
  <2>4. HungUp(c)' /\ out' = out
    BY <2>1 DEF Calm, HungUp
  <2> QED BY <1>1, <2>1, <2>3, <2>4 DEF Over
<1>7. CASE Reads(c)
  <2>1. place'[c] # "reply"
    BY <1>7 DEF Reads
  <2>2. splits = 0
    BY <1>0, <1>7 DEF Reads
  <2>3. taken'[c] = taken[c] \/ taken'[c] = 2 * Len(sent[c])
    BY <1>7, LastRead
  <2>4. \A x \in Nat : (2 * x) % 2 = 0
    OBVIOUS
  <2> QED BY <1>0, <1>1, <2>1, <2>2, <2>3, <2>4
<1> QED BY <1>2, <1>3, <1>4, <1>5, <1>6, <1>7 DEF Turn

LEMMA QuietBefore ==
  ASSUME OwnerInv, TaskInv, Functions, Functions', Step, NEW c \in Clients, Turn(c), Quiet(c)'
  PROVE  Quiet(c)
<1>1. splits \in Nat /\ splits' \in Nat /\ splits' = 0
  BY SessionAssumption DEF Functions, Quiet
<1>2. splits' = splits \/ splits' = splits + 1 \/ splits <= splits'
  BY DEF Turn, Rest, Connects, Sends, Cuts, Breaks, Reads, Parts, Ends, Leaves, Line
<1>3. splits = 0
  BY <1>1, <1>2
<1>4. failures' = 0 /\ NoTimeout(out'[c])
  BY DEF Quiet, NoTimeout
<1> QED BY <1>3, <1>4, InOrderCases DEF Quiet

(* What is known of the requests does not change. *)
LEMMA Remembered ==
  ASSUME NEW c \in Clients, ProgramTypes(c), Behind(c), sent[c] \in Seq(Lines), Turn(c)
  PROVE  /\ \A n \in 1 .. Len(asked[c]) : asked'[c][n] = asked[c][n]
         /\ Len(asked[c]) \in Nat
         /\ \/ UNCHANGED <<asked[c], sent[c]>>
            \/ Len(asked'[c]) = Len(asked[c]) + 1 /\ (Sends(c) \/ Parts(c) \/ Leaves(c))
<1>1. Len(asked[c]) \in Nat
  BY DEF ProgramTypes
<1>2. CASE UNCHANGED <<asked[c], sent[c]>>
  BY <1>1, <1>2
<1>3. ASSUME NEW a \in Asked, Adds(c, a), Sends(c) \/ Parts(c) \/ Leaves(c)
      PROVE  /\ \A n \in 1 .. Len(asked[c]) : asked'[c][n] = asked[c][n]
             /\ Len(asked'[c]) = Len(asked[c]) + 1
  BY <1>3, Adding
<1> QED BY <1>1, <1>2, <1>3, Added DEF Asked

LEMMA TurnLogin ==
  ASSUME OwnerInv, TaskInv, CountInv, Functions, Functions', Step,
         NEW c \in Clients, ProgramTypes(c), Behind(c), ReadInv(c), NumberInv(c), LastInv(c),
         LoginInv(c), Turn(c)
  PROVE  LoginInv(c)'
<1> SUFFICES ASSUME Quiet(c)' PROVE Truthful(c)'
  BY DEF LoginInv
<1>1. Quiet(c) /\ Truthful(c) /\ splits' = 0
  BY QuietBefore DEF LoginInv, Quiet
<1>2. PICK k \in Nat, m \in Nat, T \in Nat :
        /\ k = Len(out[c]) /\ m = Len(sent[c]) /\ T = taken[c]
        /\ k <= m /\ m = Len(asked[c]) /\ T <= 2 * k
  BY Sizes DEF ReadInv
<1>3. \A n \in 1 .. m : asked'[c][n] = asked[c][n]
  BY <1>2, Remembered, Sizes
<1> DEFINE ok(n) == asked[c][n].cmd \in {"signup", "login"} /\ asked[c][n].ok
<1>4. ASSUME UNCHANGED <<user[c], taken[c]>> PROVE Truthful(c)'
  <2>1. T \div 2 <= k /\ T \div 2 \in Nat
    BY <1>2
  <2>2. \A n \in 1 .. T \div 2 : n \in 1 .. m
    BY <1>2, <2>1
  <2>3. Accepted(c)' = Accepted(c)
    BY <1>2, <1>3, <1>4, <2>2 DEF Accepted
  <2>4. \A n \in Accepted(c) : asked'[c][n] = asked[c][n]
    BY <1>2, <1>3, <2>2 DEF Accepted
  <2> QED BY <1>1, <1>4, <2>3, <2>4 DEF Truthful
<1>5. ASSUME Reads(c) PROVE Truthful(c)'
  <2>1. /\ asked'[c] = asked[c]
        /\ user'[c] = IF /\ place[c] = "reply" /\ req[c].cmd \in {"signup", "login"}
                         /\ ReadsOK(c)
                      THEN req[c].user ELSE user[c]
    BY <1>5 DEF Reads
  <2>2. CASE Unread(c) = 0 /\ HungUp(c) /\ taken'[c] = taken[c]
    <3>1. ~ ReadsOK(c)
      BY <2>2 DEF ReadsOK
    <3> QED BY <1>4, <2>1, <2>2, <3>1
  <2>3. CASE /\ place[c] = "reply" /\ Len(sent[c]) > 0 /\ Len(out[c]) = Len(sent[c])
             /\ taken[c] = 2 * (Len(sent[c]) - 1) /\ taken'[c] = 2 * Len(sent[c])
             /\ asked[c][Len(sent[c])] = req[c]
    <3>1. m > 0 /\ k = m /\ T = 2 * (m - 1) /\ taken'[c] = 2 * m /\ asked[c][m] = req[c]
      BY <1>2, <2>3
    <3>2. T \div 2 = m - 1 /\ (2 * m) \div 2 = m /\ T % 2 = 0
      BY <3>1
    <3>3. out[c][m] = m
      <4>1. \A i \in 1 .. k : out[c][i] = i
        BY <1>1, <1>2 DEF NumberInv, Quiet
      <4> QED BY <3>1, <4>1
    <3>4. ReadsOK(c) <=> req[c].ok
      <4>1. Unread(c) > 0
        BY <1>2, <3>1 DEF Unread
      <4>2. taken[c] % 2 = 0 /\ taken[c] \div 2 + 1 = m
        <5>1. taken[c] % 2 = 0 /\ taken[c] \div 2 = m - 1
          BY <1>2, <3>2
        <5>2. (m - 1) + 1 = m
          OBVIOUS
        <5> QED BY <5>1, <5>2
      <4> QED BY <3>1, <3>3, <4>1, <4>2 DEF ReadsOK
    <3>5. /\ Accepted(c) = {n \in 1 .. m - 1 : ok(n)}
          /\ Accepted(c)' = {n \in 1 .. m : ok(n)}
      BY <1>2, <2>1, <3>1, <3>2 DEF Accepted
    <3>6. CASE ok(m)
      <4>1. user'[c] = asked'[c][m].user
        <5>1. req[c].cmd \in {"signup", "login"} /\ req[c].ok
          BY <3>1, <3>6
        <5> QED BY <2>1, <2>3, <3>1, <3>4, <5>1
      <4>2. m \in Accepted(c)' /\ \A n \in Accepted(c)' : n <= m
        BY <3>1, <3>5, <3>6
      <4> QED BY <4>1, <4>2 DEF Truthful
    <3>7. CASE ~ ok(m)
      <4>1. user'[c] = user[c]
        BY <2>1, <3>1, <3>4, <3>7
      <4>2. Accepted(c)' = Accepted(c)
        <5>1. \A n \in 1 .. m : n \in 1 .. m - 1 \/ n = m
          BY <3>1
        <5>2. \A n \in 1 .. m - 1 : n \in 1 .. m
          BY <3>1
        <5> HIDE DEF ok
        <5> QED BY <3>5, <3>7, <5>1, <5>2
      <4> QED BY <1>1, <2>1, <4>1, <4>2 DEF Truthful
    <3> QED BY <3>6, <3>7
  <2> QED BY <1>1, <1>5, <2>2, <2>3, LastRead
<1>6. ~ Reads(c) => UNCHANGED <<user[c], taken[c]>>
  BY DEF Turn, Rest, Connects, Sends, Cuts, Breaks, Parts, Ends, Leaves, Line
<1> QED BY <1>4, <1>5, <1>6

(* The server does not come back to life. *)
LEMMA StaysCrashed ==
  ASSUME Step, crashed
  PROVE  crashed'
<1>1. Outside
  BY DEF Step, MainAccept, MainNext, MainPush, MainCloseClientQueue, MainCloseTaskQueue,
       MainExit, MainAt, CtNext, CtPop, CtReadCommand, CtReadUnknown, CtReadNoMemory, CtReadEnd,
       CtPush, CtLog, CtLookup, CtTake, CtTimeout, CtClose, CtRemove, CtCloseEntry, CtFreeEntry,
       CtAt, WNext, WPop, WFind, WDeliver, WFree, WAt
<1> QED BY <1>1 DEF Outside

(* A line that is due was due before. *)
LEMMA DueBefore ==
  ASSUME OwnerInv, TaskInv, Step, NEW c \in Clients, NEW n \in Nat, Due(c, n)'
  PROVE  Due(c, n)
<1>0. /\ CtTypes /\ QueueTypes /\ WTypes /\ Places /\ SockTypes
      /\ rd[c] \in Nat /\ rd'[c] \in Nat
  <2>1. OwnerInv'
    BY OwnerStep
  <2>2. SockTypes'
    BY <2>1, TypeParts, PTL DEF OwnerInv
  <2> QED BY <2>2, TypeParts DEF OwnerInv, SockTypes
<1>1. rd[c] <= rd'[c]
  <2>1. Episode(c)
    BY Episodes
  <2>2. rd'[c] = rd[c] \/ rd'[c] = rd[c] + 1
    BY <2>1 DEF Episode, Idle, Command, Skipped, Refused, Taken, Expired, Silent, Lost,
                Dropped, Delivered, Reading, Waited
  <2> QED BY <1>0, <2>2
<1>2. CASE n > rd'[c]
  BY <1>0, <1>1, <1>2 DEF Due
<1>3. ASSUME NEW a \in live', Waiting(a)', a.client = c, a.n = n
      PROVE  Due(c, n)
  <2>1. ASSUME NEW t \in ClientThreads, CtReadCommand(t) PROVE Due(c, n)
    <3>1. /\ ctPc[t] = "recv" /\ UNCHANGED <<taskQ, wPc, wTask>>
          /\ live' = live \cup {task_create(ctConn[t], rd[ctConn[t]] + 1)}
          /\ \A u \in ClientThreads : u # t => ctPc'[u] = ctPc[u] /\ ctTask'[u] = ctTask[u]
          /\ ctTask'[t] = task_create(ctConn[t], rd[ctConn[t]] + 1)
      BY <1>0, <2>1 DEF CtReadCommand, CtAt, CtGoto, CtTypes, queueVars, wVars
    <3>2. CASE a = task_create(ctConn[t], rd[ctConn[t]] + 1)
      <4>1. a.n = rd[c] + 1
        BY <1>3, <3>2 DEF task_create
      <4> QED BY <1>0, <1>3, <4>1 DEF Due
    <3>3. CASE a # task_create(ctConn[t], rd[ctConn[t]] + 1)
      <4>1. a \in live /\ Waiting(a)
        BY <1>3, <3>1, <3>3 DEF Waiting, With, MadeBy
      <4> QED BY <1>3, <4>1 DEF Due
    <3> QED BY <3>2, <3>3
  <2>2. CASE TasksStay /\ UNCHANGED wPc
    <3>1. a \in live /\ Waiting(a)
      BY <1>3, <2>2 DEF TasksStay, Waiting, With, MadeBy
    <3> QED BY <1>3, <3>1 DEF Due
  <2>3. ASSUME NEW t \in ClientThreads, CtPush(t) PROVE Due(c, n)
    <3>1. /\ ctPc[t] = "push" /\ ctPc' = [ctPc EXCEPT ![t] = "log"]
          /\ UNCHANGED <<wPc, wTask, live, ctTask>>
          /\ taskQ' \subseteq taskQ \cup {ctTask[t]}
      BY <2>3 DEF CtPush, CtAt, CtGoto, wVars
    <3>2. a \in live /\ Waiting(a)
      BY <1>0, <1>3, <3>1 DEF Waiting, With, MadeBy, CtTypes
    <3> QED BY <1>3, <3>2 DEF Due
  <2>4. ASSUME NEW w \in Workers, WPop(w) PROVE Due(c, n)
    <3>1. /\ wPc[w] = "pop" /\ UNCHANGED <<live, ctTask, ctPc>>
          /\ \A v \in Workers : v # w => wPc'[v] = wPc[v] /\ wTask'[v] = wTask[v]
          /\ \/ wTask'[w] \in taskQ /\ taskQ' \subseteq taskQ
             \/ wPc'[w] = "done" /\ taskQ' = taskQ
      BY <1>0, <2>4 DEF WPop, WAt, WGoto, WTypes, ctVars, memVars
    <3>2. a \in live /\ Waiting(a)
      BY <1>3, <3>1 DEF Waiting, With, MadeBy
    <3> QED BY <1>3, <3>2 DEF Due
  <2>5. ASSUME NEW w \in Workers, WFree(w) PROVE Due(c, n)
    <3>1. /\ live' \subseteq live /\ UNCHANGED <<taskQ, ctTask, ctPc>>
          /\ \A v \in Workers : v # w => wPc'[v] = wPc[v] /\ wTask'[v] = wTask[v]
          /\ wPc'[w] = "pop"
      BY <1>0, <2>5 DEF WFree, WGoto, WTypes, queueVars, ctVars
    <3>2. a \in live /\ Waiting(a)
      BY <1>3, <3>1 DEF Waiting, With, MadeBy
    <3> QED BY <1>3, <3>2 DEF Due
  <2>6. ASSUME NEW w \in Workers, WFind(w) \/ WDeliver(w) PROVE Due(c, n)
    <3>1. /\ UNCHANGED <<live, taskQ, ctTask, ctPc, wTask>>
          /\ \A v \in Workers : v # w => wPc'[v] = wPc[v]
          /\ wPc'[w] \in {"deliver", "free"}
      BY <1>0, <2>6 DEF WFind, WDeliver, WAt, WGoto, WTypes, queueVars, ctVars, memVars
    <3>2. a \in live /\ Waiting(a)
      BY <1>3, <3>1 DEF Waiting, With, MadeBy
    <3> QED BY <1>3, <3>2 DEF Due
  <2> QED BY <2>1, <2>2, <2>3, <2>4, <2>5, <2>6, TaskCases, WorkerCases DEF WNext
<1> QED BY <1>2, <1>3 DEF Due

(* The line that a task stands for is no longer due when the task has been *)
(* carried out.                                                            *)
LEMMA CarriedOut ==
  ASSUME OwnerInv, TaskInv, NEW w \in Workers, WFind(w), NEW c \in Clients, NEW n,
         wTask[w].client = c, wTask[w].n = n
  PROVE  ~ Due(c, n)'
<1> DEFINE a == wTask[w]
<1>0. WTypes /\ Places /\ SockTypes /\ wPc[w] = "find" /\ a # None
  BY TypeParts DEF OwnerInv, WFind, WAt, Places
<1>1. /\ UNCHANGED <<live, taskQ, ctTask, ctPc, wTask, rd>>
      /\ \A v \in Workers : v # w => wPc'[v] = wPc[v]
      /\ wPc'[w] \in {"deliver", "free"}
  BY <1>0 DEF WFind, WAt, WGoto, WTypes, queueVars, ctVars, memVars, sockVars
<1> HIDE DEF a
<1>2. /\ a \in live /\ a \notin taskQ /\ a.n <= rd[c]
      /\ \A v \in Workers : v # w => wTask[v] # a
      /\ \A t \in ClientThreads : ~ MadeBy(t, a)
  BY <1>0 DEF TaskInv, MadeBy, a
<1>3. ~ Waiting(a)'
  BY <1>1, <1>2 DEF Waiting, With, MadeBy, a
<1>4. \A b \in live : b.client = c /\ b.n = a.n => b = a
  BY <1>2 DEF TaskInv, a
<1>5. ~ (a.n > rd[c])
  <2>1. rd[c] \in Nat /\ a.n \in Nat
    BY <1>0, ServerAssumption DEF SockTypes, WTypes, Task, a
  <2> QED BY <1>2, <2>1
<1> QED BY <1>1, <1>3, <1>4, <1>5 DEF Due, a

(* While nothing goes wrong, a task that waits is that of the last line,   *)
(* which has no reply yet.                                                 *)
LEMMA DueLast ==
  ASSUME ReplyInv, HeldOpen, Functions, NEW c \in Clients, ProgramTypes(c), Behind(c), ReadInv(c),
         Quiet(c), ~ crashed, NEW a \in InFlight(c)
  PROVE  a.n = Len(sent[c]) /\ rd[c] = Len(sent[c]) /\ Len(out[c]) < Len(sent[c])
<1>0. OwnerInv /\ CountInv /\ OrderInv
  BY DEF ReplyInv
<1>1. Unanswered(c) /\ a.n = rd[c]
  BY <1>0 DEF OrderInv, Quiet
<1>2. ~ HungUp(c)
  BY <1>0, <1>1, UnansweredOpen DEF HungUp, HeldOpen, Open
<1>3. PICK k \in Nat, m \in Nat, q \in Nat, T \in Nat, p \in 0 .. 1 :
        /\ k = Len(out[c]) /\ m = Len(sent[c]) /\ q = rd[c] /\ T = taken[c]
        /\ p = One(partial[c] # None /\ place[c] # "left") /\ q <= m
  BY <1>0, Sizes DEF One
<1>4. k < q
  BY <1>0, <1>1, <1>3 DEF CountInv
<1>5. T <= 2 * k /\ 2 * (m + p) - T <= 2
  <2>1. Final(c) = m + p
    BY <1>2, <1>3 DEF Final
  <2>2. T <= 2 * k /\ 2 * Final(c) - T <= 2 + 2 * 0
    BY <1>3 DEF ReadInv, Quiet
  <2> QED BY <2>1, <2>2
<1>6. q = m
  BY <1>3, <1>4, <1>5
<1> QED BY <1>1, <1>3, <1>4, <1>6

(* When all lines have their replies, none is due. *)
LEMMA NoneDue ==
  ASSUME ReplyInv, HeldOpen, Functions, NEW c \in Clients, ProgramTypes(c), Behind(c), ReadInv(c),
         Quiet(c), ~ crashed, Len(out[c]) = Len(sent[c]), NEW n \in 1 .. Len(sent[c])
  PROVE  ~ Due(c, n)
<1>0. OwnerInv /\ CountInv
  BY DEF ReplyInv
<1>1. PICK m \in Nat : m = Len(sent[c]) /\ rd[c] = m
  BY <1>0, Sizes
<1>2. ~ (n > rd[c])
  BY <1>1
<1>3. ASSUME NEW a, Waiting(a), a.client = c PROVE FALSE
  <2>1. a \in InFlight(c)
    BY <1>3, InFlightIs DEF Flying, Waiting
  <2>2. Len(out[c]) < Len(sent[c])
    BY <2>1, DueLast
  <2> QED BY <1>1, <2>2
<1> QED BY <1>2, <1>3 DEF Due

LEMMA TurnSource ==
  ASSUME ReplyInv, HeldOpen, Functions, Functions', Step,
         NEW c \in Clients, ProgramTypes(c), Behind(c), Stage(c), OpenInv(c), ReadInv(c),
         LastInv(c), SourceInv(c), Turn(c)
  PROVE  SourceInv(c)'
<1> DEFINE Good(n) == files'[asked'[c][n].tmp] = <<c, n>> \/ Others(c, files'[asked'[c][n].tmp])
<1> SUFFICES ASSUME Quiet(c)', ~ crashed', place'[c] # "left",
                    NEW n \in 1 .. Len(sent'[c]), asked'[c][n].cmd = "upload", Due(c, n)'
             PROVE  Good(n)
  BY DEF SourceInv
<1>a. OwnerInv /\ TaskInv /\ CountInv
  BY DEF ReplyInv
<1>0. Quiet(c) /\ ~ crashed /\ splits = 0 /\ splits' = 0 /\ failures = 0
  BY <1>a, QuietBefore, StaysCrashed DEF Quiet
<1>1. PICK m \in Nat : m = Len(sent[c]) /\ m = Len(asked[c])
  BY <1>a, Sizes
<1>2. place[c] \in Talking => ~ HungUp(c)
  BY <1>0 DEF OpenInv, HungUp
<1>3. Due(c, n) /\ n \in Nat
  BY <1>a, DueBefore
<1>4. ASSUME UNCHANGED <<asked[c], sent[c]>>, place[c] # "left", Kept(c)
      PROVE  Good(n)
  <2>1. n \in 1 .. Len(sent[c])
    BY <1>4
  <2>2. files[asked[c][n].tmp] = <<c, n>> \/ Others(c, files[asked[c][n].tmp])
    BY <1>0, <1>3, <1>4, <2>1 DEF SourceInv
  <2>3. asked[c][n].tmp \in Temps
    <3>1. asked[c][n] \in Asked /\ asked[c][n].cmd = "upload"
      BY <1>1, <1>4, <2>1 DEF ProgramTypes
    <3>2. \A x \in Quits : x.cmd = "quit"
      BY DEF Quits
    <3> QED BY <3>1, <3>2, SessionAssumption DEF Asked, Request
  <2> QED BY <1>4, <2>2, <2>3 DEF Kept
<1>5. ASSUME Len(out[c]) = Len(sent[c]), n \in 1 .. Len(sent[c]) PROVE FALSE
  BY <1>0, <1>3, <1>5, NoneDue
<1>6. CASE Rest(c)
  <2>1. CASE Kept(c)
    BY <1>4, <1>6, <2>1 DEF Rest
  <2>2. CASE Spurned(c)
    <3>1. Len(out[c]) = Len(sent[c]) /\ UNCHANGED sent[c]
      BY <1>a, <1>0, <1>2, <1>6, <2>2, AtPrompt DEF Rest, Spurned, Talking
    <3> QED BY <1>5, <3>1
  <2>3. ASSUME NEW w \in Workers, WFind(w), wTask[w].client = c PROVE FALSE
    <3>1. Places /\ wTask[w] \in InFlight(c)
      BY <1>a, <2>3, InFlightIs DEF OwnerInv, WFind, WAt, Flying, With
    <3>2. wTask[w].n = Len(sent[c]) /\ rd[c] = Len(sent[c])
      BY <1>0, <3>1, DueLast
    <3>3. n = Len(sent[c])
      <4>1. n \in 1 .. Len(sent[c]) /\ ~ (n > rd[c])
        <5>1. sent'[c] = sent[c] /\ rd[c] = m
          BY <1>1, <1>6, <3>2 DEF Rest
        <5>2. n \in 1 .. m
          BY <1>1, <5>1
        <5> QED BY <1>1, <5>1, <5>2
      <4>2. PICK b \in live : Waiting(b) /\ b.client = c /\ b.n = n
        BY <1>3, <4>1 DEF Due
      <4>3. b \in InFlight(c)
        BY <4>2, InFlightIs DEF Flying, Waiting
      <4> QED BY <1>0, <4>2, <4>3, DueLast
    <3> QED BY <1>a, <2>3, <3>2, <3>3, CarriedOut
  <2> QED BY <1>6, <2>1, <2>2, <2>3 DEF Rest, Unlinks
<1>7. CASE Connects(c)
  BY <1>4, <1>7 DEF Connects
<1>8. CASE Breaks(c)
  BY <1>2, <1>8 DEF Breaks, Talking
<1>9. CASE Reads(c)
  <2>1. UNCHANGED sent[c] /\ place[c] \in {"reply", "header"} /\ ~ HungUp(c)
    BY <1>2, <1>9 DEF Reads, Talking
  <2>2. Len(out[c]) = Len(sent[c])
    BY <1>a, <1>0, <1>9, <2>1, LastRead
  <2> QED BY <1>5, <2>1, <2>2
<1>10. CASE Ends(c)
  BY <1>4, <1>10 DEF Ends
<1>11. CASE Leaves(c)
  BY <1>11 DEF Leaves
<1>12. CASE Cuts(c)
  <2>1. UNCHANGED sent[c] /\ place[c] = "prompt" /\ ~ HungUp(c)
    BY <1>12 DEF Cuts
  <2>2. Len(out[c]) = Len(sent[c])
    BY <1>a, <1>0, <2>1, AtPrompt
  <2> QED BY <1>5, <2>1, <2>2
<1>13. ASSUME NEW r, r \in Asked, Line(c, r)
       PROVE  n = m + 1 /\ asked'[c][n] = r
  <2>1. place[c] = "prompt" /\ ~ HungUp(c) /\ Adds(c, Whole(c, r))
    BY <1>13 DEF Line, Adds
  <2>2. Len(out[c]) = Len(sent[c]) /\ Whole(c, r) = r
    BY <1>a, <1>0, <2>1, AtPrompt DEF Whole
  <2>3. Len(sent'[c]) = m + 1 /\ asked'[c][m + 1] = r
    BY <1>a, <1>1, <1>13, <2>1, <2>2, Adding, Sizes
  <2>4. n \notin 1 .. m
    BY <1>1, <1>5, <2>2
  <2>5. n \in 1 .. m + 1
    BY <2>3
  <2> QED BY <1>1, <2>3, <2>4, <2>5
<1>14. CASE Sends(c)
  <2>1. PICK r \in Requests : Line(c, r) /\ Filed(c, r)
    BY <1>14 DEF Sends
  <2>2. n = m + 1 /\ asked'[c][n] = r /\ r.cmd = "upload" /\ r.tmp \in Temps
    BY <1>13, <2>1, SessionAssumption DEF Asked, Request
  <2>3. files' = [files EXCEPT ![r.tmp] = <<c, n>>]
    BY <1>1, <2>1, <2>2 DEF Filed
  <2>4. files'[r.tmp] = <<c, n>>
    BY <2>2, <2>3 DEF Functions
  <2> QED BY <2>2, <2>4
<1>15. CASE Parts(c)
  <2>1. Line(c, Quitting(c)) /\ Quitting(c) \in Asked /\ Quitting(c).cmd = "quit"
    BY <1>15, QuittingAsked DEF Parts, Asked
  <2> QED BY <1>13, <2>1
<1> QED BY <1>6, <1>7, <1>8, <1>9, <1>10, <1>11, <1>12, <1>14, <1>15 DEF Turn
-----------------------------------------------------------------------------
(* The invariant                                                           *)

LEMMA SessionInvInit == SessionInit => SessionInv
<1> SUFFICES ASSUME SessionInit PROVE SessionInv
  OBVIOUS
<1>1. ReplyInv
  BY ReplyInit DEF SessionInit
<1>2. /\ mainConn = None /\ clientQ = {} /\ ctPc = [t \in ClientThreads |-> "pop"]
      /\ ctConn = [t \in ClientThreads |-> None]
      /\ \A c \in Clients : peer[c] = "off" /\ sent[c] = << >> /\ rd[c] = 0 /\ out[c] = << >>
  BY DEF SessionInit, Init
<1>3. Functions
  <2>1. files \in [Temps -> (Clients \cup {None}) \X Nat]
    BY DEF SessionInit
  <2> QED BY <2>1, SessionAssumption DEF SessionInit, Functions, Total
<1>4. splits = 0 /\ \A c \in Clients :
                      /\ place[c] = "off" /\ user[c] = None /\ req[c] = None /\ asked[c] = << >>
                      /\ partial[c] = None /\ taken[c] = 0
  BY DEF SessionInit
<1>5. \A c \in Clients : ~ Held(c)
  BY <1>2, ServerAssumption DEF Held, Owns
<1>6. HeldOpen
  BY <1>5 DEF HeldOpen
<1>7. ASSUME NEW c \in Clients PROVE ProgramInv(c)
  <2>1. << >> \in Seq(Asked) /\ Len(<< >>) = 0 /\ 1 .. 0 = {}
    OBVIOUS
  <2>2. ProgramTypes(c) /\ Behind(c) /\ Stage(c) /\ FileStage(c) /\ OpenInv(c)
    <3>1. ProgramTypes(c)
      <4>1. asked[c] \in Seq(Asked) /\ taken[c] \in Nat
        <5>1. asked[c] = << >> /\ taken[c] = 0 /\ 0 \in Nat
          BY <1>4
        <5> QED BY <2>1, <5>1, Zenon
      <4>2. /\ place[c] \in Talking \cup {"off", "bye", "left"}
            /\ place[c] \notin {"reply", "header"}
        BY <1>4
      <4> QED BY <1>4, <4>1, <4>2, Zenon DEF ProgramTypes
    <3>2. Behind(c)
      BY <1>2, <1>4, <2>1 DEF Behind
    <3>3. Stage(c)
      BY <1>2, <1>4, <2>1 DEF Stage
    <3>4. FileStage(c) /\ OpenInv(c)
      <4>1. \A s \in Temps : files[s] = <<None, 0>>
        BY DEF SessionInit
      <4> QED BY <1>4, <4>1 DEF FileStage, OpenInv, Talking
    <3> QED BY <3>1, <3>2, <3>3, <3>4
  <2>3. Final(c) = 0
    <3>1. Len(out[c]) = 0 /\ Len(sent[c]) = 0 /\ One(partial[c] # None /\ place[c] # "left") = 0
      BY <1>2, <1>4, <2>1 DEF One
    <3>2. 0 + 0 = 0
      OBVIOUS
    <3> QED BY <3>1, <3>2 DEF Final
  <2>4. ReadInv(c)
    <3>1. 0 <= 2 * 0 /\ 2 * 0 - 0 <= 2 + 2 * 0 /\ 2 * 0 - 0 <= 2 * 0
      OBVIOUS
    <3>2. Len(out[c]) = 0 /\ taken[c] = 0
      BY <1>2, <1>4, <2>1
    <3> QED BY <1>4, <2>3, <3>1, <3>2 DEF ReadInv
  <2>5. NumberInv(c)
    BY <1>2, <1>5, <2>1 DEF NumberInv, Open
  <2>6. LastInv(c)
    BY <1>4 DEF LastInv
  <2>7. LoginInv(c)
    <3>1. 0 \div 2 = 0
      OBVIOUS
    <3> QED BY <1>4, <2>1, <3>1 DEF LoginInv, Truthful, Accepted
  <2>8. SourceInv(c)
    BY <1>2, <2>1 DEF SourceInv
  <2> QED BY <2>2, <2>4, <2>5, <2>6, <2>7, <2>8 DEF ProgramInv
<1> QED BY <1>1, <1>3, <1>6, <1>7 DEF SessionInv

LEMMA SessionInvStep ==
  ASSUME SessionInv, [SessionNext]_sessionVars
  PROVE  SessionInv'
<1>1. /\ ReplyInv /\ OwnerInv /\ TaskInv /\ CountInv /\ HeldOpen /\ Functions
      /\ TypeOK /\ LinesRead /\ SockTypes
  BY TypeParts DEF SessionInv, ReplyInv, OwnerInv
<1>2. \A c \in Clients : ProgramInv(c) /\ ProgramTypes(c) /\ Stage(c)
  BY DEF SessionInv, ProgramInv
<1>3. Step
  BY <1>1, <1>2, SessionIsStep
<1>4. ReplyInv' /\ HeldOpen'
  BY <1>1, <1>3, ReplyStep, StepHeldOpen
<1>5. OwnerInv' /\ CountInv'
  BY <1>4 DEF ReplyInv
<1>6. Functions' /\ \A c \in Clients : Turn(c)
  BY <1>1, Turns
<1>7. ASSUME NEW c \in Clients PROVE ProgramInv(c)'
  <2>1. /\ ProgramTypes(c) /\ Behind(c) /\ Stage(c) /\ FileStage(c) /\ OpenInv(c) /\ ReadInv(c)
        /\ NumberInv(c) /\ LastInv(c) /\ LoginInv(c) /\ SourceInv(c)
    BY <1>2 DEF ProgramInv
  <2>2. Turn(c) /\ sent[c] \in Seq(Lines)
    BY <1>1, <1>6 DEF SockTypes
  <2>3. ProgramTypes(c)' /\ Behind(c)'
    BY <2>1, <2>2, TurnTypes, TurnBehind
  <2>4. Stage(c)' /\ FileStage(c)'
    BY <1>1, <2>1, <2>2, TurnStage, TurnFiles
  <2>5. OpenInv(c)'
    BY <1>1, <1>3, <2>1, <2>2, TurnOpen
  <2>6. ReadInv(c)'
    BY <1>1, <1>3, <1>5, <1>6, <2>1, <2>2, <2>3, TurnRead
  <2>7. NumberInv(c)'
    BY <1>1, <1>3, <2>1, TurnNumber
  <2>8. LastInv(c)'
    BY <1>1, <1>3, <1>6, <2>1, <2>2, TurnLast
  <2>9. LoginInv(c)'
    BY <1>1, <1>3, <1>6, <2>1, <2>2, TurnLogin
  <2>10. SourceInv(c)'
    BY <1>1, <1>3, <1>6, <2>1, <2>2, TurnSource
  <2> QED BY <2>3, <2>4, <2>5, <2>6, <2>7, <2>8, <2>9, <2>10 DEF ProgramInv
<1> QED BY <1>4, <1>6, <1>7 DEF SessionInv

(* Every reachable state of the server and its client programs satisfies   *)
(* the inductive invariant.                                                *)
THEOREM SessionInvariance == SessionSpec => []SessionInv
<1>1. SessionInit => SessionInv
  BY SessionInvInit
<1>2. SessionInv /\ [SessionNext]_sessionVars => SessionInv'
  BY SessionInvStep
<1> QED BY <1>1, <1>2, PTL DEF SessionSpec

LEMMA Typed == SessionInv => SessionTypeOK
<1> SUFFICES ASSUME SessionInv PROVE SessionTypeOK
  OBVIOUS
<1>1. TypeOK /\ Functions /\ \A c \in Clients : ProgramTypes(c) /\ Behind(c) /\ ReadInv(c)
  BY DEF SessionInv, ProgramInv, ReplyInv, OwnerInv
<1>2. /\ place \in [Clients -> {"off", "prompt", "reply", "header", "bye", "left"}]
      /\ user \in [Clients -> Users \cup {None}]
      /\ req \in [Clients -> Requests \cup {None}]
      /\ partial \in [Clients -> Requests \cup {None}] /\ broken \subseteq Clients
      /\ taken \in [Clients -> Nat] /\ splits \in 0 .. MaxSplits
      /\ files \in [Temps -> (Clients \cup {None}) \X Nat]
  BY <1>1 DEF Functions, Total, ProgramTypes, Talking
<1>3. ASSUME NEW c \in Clients
      PROVE  /\ Len(asked[c]) = Len(sent[c]) /\ taken[c] <= 2 * Len(out[c])
             /\ \A n \in DOMAIN asked[c] : sent[c][n] = LineOf(asked[c][n].cmd)
  <2>1. DOMAIN asked[c] = 1 .. Len(asked[c])
    BY <1>1 DEF ProgramTypes
  <2> QED BY <1>1, <2>1 DEF Behind, ReadInv
<1> QED BY <1>1, <1>2, <1>3 DEF SessionTypeOK

(* The variables of the server and of its client programs have their       *)
(* types, and every line that was sent is that of the request behind it:   *)
(* the snprintf and write of send_command.                                 *)
THEOREM SessionTypes == SessionSpec => []SessionTypeOK
BY SessionInvariance, Typed, PTL

LEMMA AllRead == SessionInv => RepliesRead
<1> SUFFICES ASSUME SessionInv, NEW c \in Clients
             PROVE  /\ Unread(c) <= 2 + 2 * splits
                    /\ place[c] = "prompt" => Unread(c) <= 2 * splits
  BY DEF RepliesRead
<1>1. /\ OwnerInv /\ CountInv /\ Functions /\ ProgramTypes(c) /\ Behind(c) /\ ReadInv(c)
  BY DEF SessionInv, ProgramInv, ReplyInv
<1> DEFINE Cut == partial[c] # None /\ place[c] # "left"
<1>2. PICK k \in Nat, m \in Nat, T \in Nat, s \in Nat, p \in 0 .. 1 :
        /\ k = Len(out[c]) /\ m = Len(sent[c]) /\ T = taken[c] /\ s = splits /\ k <= m
        /\ p = One(Cut)
  BY <1>1, Sizes DEF One
<1>3. PICK F \in Nat : F = Final(c) /\ k <= F
  <2>1. Final(c) = IF HungUp(c) THEN k ELSE m + p
    BY <1>2 DEF Final
  <2> QED BY <1>2, <2>1
<1>4. 2 * F - T <= 2 + 2 * s /\ (place[c] = "prompt" => 2 * F - T <= 2 * s)
  BY <1>1, <1>2, <1>3 DEF ReadInv
<1>5. Unread(c) = 2 * k - T /\ 2 * k - T <= 2 * F - T
  BY <1>2, <1>3 DEF Unread
<1>6. /\ 2 * k - T <= 2 + 2 * s
      /\ 2 * F - T <= 2 * s => 2 * k - T <= 2 * s
  BY <1>3, <1>4, <1>5
<1> QED BY <1>2, <1>4, <1>5, <1>6

(* receive_response keeps up with the server: at the prompt nothing is     *)
(* left unread, and one reply while the program waits, but for the reads   *)
(* that returned a part.                                                   *)
THEOREM RepliesAllRead == SessionSpec => []RepliesRead
BY SessionInvariance, AllRead, PTL

(* Smooth, without the cardinality. *)
LEMMA SmoothQuiet ==
  ASSUME SessionInv, NEW c \in Clients, Smooth(c)
  PROVE  Quiet(c)
<1>1. out[c] \in Seq(Replied)
  BY RespTypes DEF SessionInv, ReplyInv, OwnerInv
<1>2. {i \in DOMAIN out[c] : out[c][i] = TimedOut} = {}
  BY <1>1, CountTimeouts, FS_EmptySet DEF TimeoutsIn, Timeouts, Smooth
<1>3. DOMAIN out[c] = 1 .. Len(out[c])
  BY <1>1
<1> QED BY <1>2, <1>3 DEF Quiet, Smooth, NoTimeout

LEMMA Truth == SessionInv => LoginTruthful
BY SmoothQuiet DEF SessionInv, ProgramInv, LoginInv, Truthful, LoginTruthful

(* The logged_in and username that signup and login set are the server's:  *)
(* until a timeout, a failed allocation or a partial read, the program     *)
(* believes to be the user whom the server accepted last.                  *)
THEOREM LoginsTruthful == SessionSpec => []LoginTruthful
BY SessionInvariance, Truth, PTL

LEMMA Sources == SessionInv => UploadSource
<1> SUFFICES ASSUME SessionInv, NEW c \in Clients
             PROVE  /\ Smooth(c) /\ ~crashed /\ place[c] # "left" =>
                         \A task \in Undone(c) :
                           asked[c][task.n].cmd = "upload" =>
                             LET f == files[asked[c][task.n].tmp]
                             IN  f = <<c, task.n>> \/ f[1] \in Clients \ {c}
                    /\ place[c] = "prompt" =>
                         \A s \in Temps, n \in 1 .. Len(sent[c]) + 1 : files[s] # <<c, n>>
  BY DEF UploadSource
<1>1. /\ ReplyInv /\ OwnerInv /\ TaskInv /\ CountInv /\ HeldOpen /\ Functions /\ ProgramTypes(c)
      /\ Behind(c) /\ ReadInv(c) /\ FileStage(c) /\ SourceInv(c)
  BY DEF SessionInv, ProgramInv, ReplyInv
<1>2. ASSUME place[c] = "prompt", NEW s \in Temps, NEW n \in 1 .. Len(sent[c]) + 1
      PROVE  files[s] # <<c, n>>
  <2>1. n \in Nat \ {0}
    BY <1>1, Sizes
  <2> QED BY <1>1, <1>2, <2>1 DEF FileStage
<1>3. ASSUME Smooth(c), ~ crashed, place[c] # "left", NEW task \in Undone(c),
             asked[c][task.n].cmd = "upload"
      PROVE  LET f == files[asked[c][task.n].tmp]
             IN  f = <<c, task.n>> \/ f[1] \in Clients \ {c}
  <2>1. Quiet(c)
    BY <1>3, SmoothQuiet
  <2>2. task \in InFlight(c) /\ \A w \in Workers : With(w, task) => wPc[w] # "deliver"
    BY DEF Undone, With
  <2>3. Flying(task) /\ task.client = c
    BY <2>2, InFlightIs
  <2>4. Waiting(task) /\ task \in live
    BY <1>1, <2>2, <2>3, FlyingLive DEF Flying, Waiting
  <2>5. task.n = Len(sent[c]) /\ Len(out[c]) < Len(sent[c])
    BY <1>1, <1>3, <2>1, <2>2, DueLast
  <2>6. task.n \in 1 .. Len(sent[c])
    BY <1>1, <2>5, Sizes
  <2>7. Due(c, task.n)
    BY <2>3, <2>4 DEF Due
  <2> QED BY <1>1, <1>3, <2>1, <2>6, <2>7 DEF SourceInv, Others
<1> QED BY <1>2, <1>3

(* Neither upload_file nor the worker removes the temporary file of an     *)
(* upload that is not carried out, and upload_file leaves none behind at   *)
(* the prompt.  Another program that picked the same name can remove it,   *)
(* and does.                                                               *)
THEOREM UploadSources == SessionSpec => []UploadSource
BY SessionInvariance, Sources, PTL

LEMMA StaysOpen == SessionInv => NoHangUp
BY DEF SessionInv, ProgramInv, OpenInv, NoHangUp, Talking

(* client_thread closes a connection only when recv_line ends or the line  *)
(* is QUIT, so a program that is at its prompt or waits has its socket.    *)
THEOREM NoHangUps == SessionSpec => []NoHangUp
BY SessionInvariance, StaysOpen, PTL
=============================================================================
