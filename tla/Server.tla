------------------------------- MODULE Server -------------------------------
(***************************************************************************)
(* The request path of the server: the main thread (main.c), the client    *)
(* threads (client.c), the worker threads (worker.c), the two queues and   *)
(* the response map between them, the peers at the other end of the        *)
(* sockets, SIGINT and the shutdown sequence.                              *)
(*                                                                         *)
(* A step is one critical section, one system call or one call that can    *)
(* fail.  A blocked queue_pop is an action that is not enabled; module     *)
(* TaskQueue shows that nobody sleeps through a push or a close.  What a   *)
(* worker does to users and files between queue_pop and send_response does *)
(* not touch this state: every branch of its switch sends one response.    *)
(***************************************************************************)
EXTENDS Integers, Sequences, FiniteSets

CONSTANTS Clients,        \* the connections, named by their client_id
          ClientThreads,  \* the threads that run client_thread_main
          Workers,        \* the threads that run worker_thread_main
          Lines,          \* the kinds of line the peers send
          MaxLines,       \* bound on the lines each peer sends
          Pipeline,       \* how many lines a peer may have unanswered
          MaxFailures,    \* bound on the failed memory allocations
          None            \* no connection, no task

AllLines == {"LOGIN", "UPLOAD", "LIST", "QUIT", "UNKNOWN"}

ASSUME ServerAssumption ==
    /\ Lines \subseteq AllLines
    /\ MaxLines \in Nat /\ Pipeline \in Nat /\ MaxFailures \in Nat
    /\ None \notin Clients
    /\ ClientThreads # {} /\ Workers # {}

VARIABLES
    running, mainPc, mainConn,   \* ServerState.running; the main thread, its connection
    closed,                      \* the closed queues among client_queue and task_queue
    clientQ, taskQ,              \* the contents of client_queue and task_queue
    respMap,                     \* the client_ids in response_map
    entry,                       \* the ResponseQueueEntry of each client_id
    resp,                        \* the responses in each entry's queue
    ctPc, ctConn, ctTask,        \* the client threads: place, connection, task
    wPc, wTask,                  \* the workers: place, task
    peer,                        \* "off", "up" or "gone"
    fdOpen,                      \* the connections whose socket the server holds open
    sent, rd,                    \* the lines each peer sent; how many were read
    out,                         \* the replies written to each socket
    late,                        \* the replies written after the peer had gone
    live,                        \* the Task objects that are allocated
    clock, failures,             \* the time; the allocations that failed so far
    crashed                      \* the process was killed

mainVars == <<running, mainPc, mainConn, closed>>
queueVars == <<clientQ, taskQ>>
entryVars == <<respMap, entry, resp>>
ctVars == <<ctPc, ctConn, ctTask>>
wVars == <<wPc, wTask>>
sockVars == <<peer, fdOpen, sent, rd>>
replyVars == <<out, late>>
memVars == <<live, clock, failures>>
vars == <<mainVars, queueVars, entryVars, ctVars, wVars, sockVars, replyVars,
          memVars, crashed>>
-----------------------------------------------------------------------------
(* A task is the n-th line of a client. *)
Task == [client : Clients, n : 1 .. MaxLines, priority : {0, 1, 2}, enqueue_time : Nat]

ASSUME NoneAssumption == None \notin Task

Order == INSTANCE TaskOrder WITH Tasks <- Task

(* The replies: n answers the n-th line. *)
TimedOut == 0     \* "ERR Request timed out"
NoMemory == -1    \* "Error: Failed to allocate task"

(* Which priority client_thread_main gives a line.  "LOGIN" stands for     *)
(* DELETE and SIGNUP ... HIGH too, "UPLOAD" for DOWNLOAD and SIGNUP, "LIST" *)
(* for SIGNUP ... LOW, "QUIT" for an empty line, which recv_line reports   *)
(* like the end of the stream.                                             *)
Priority(line) ==
    CASE line = "LOGIN" -> Order!PRIORITY_HIGH
      [] line = "UPLOAD" -> Order!PRIORITY_NORMAL
      [] line = "LIST" -> Order!PRIORITY_LOW

IsCommand(line) == line \in {"LOGIN", "UPLOAD", "LIST"}

(* queue_pop on a queue of responses.  The comparison reads zeros, so all  *)
(* responses are equal to the heap: the first is taken, and the last moves *)
(* to its place.                                                           *)
AfterPop(q) ==
    IF Len(q) = 1 THEN << >> ELSE <<q[Len(q)]>> \o SubSeq(q, 2, Len(q) - 1)

(* One more allocation fails. *)
Fail == failures < MaxFailures /\ failures' = failures + 1

NoFailure == UNCHANGED failures

(* The thread is at the place l, and the process is alive. *)
MainAt(l) == ~crashed /\ mainPc = l
CtAt(t, l) == ~crashed /\ ctPc[t] = l
WAt(w, l) == ~crashed /\ wPc[w] = l
-----------------------------------------------------------------------------
Init ==
    /\ running = TRUE /\ mainPc = "accept" /\ mainConn = None /\ closed = {}
    /\ clientQ = {} /\ taskQ = {}
    /\ respMap = {}
    /\ entry = [c \in Clients |-> "none"]
    /\ resp = [c \in Clients |-> << >>]
    /\ ctPc = [t \in ClientThreads |-> "pop"]
    /\ ctConn = [t \in ClientThreads |-> None]
    /\ ctTask = [t \in ClientThreads |-> None]
    /\ wPc = [w \in Workers |-> "pop"]
    /\ wTask = [w \in Workers |-> None]
    /\ peer = [c \in Clients |-> "off"]
    /\ fdOpen = {}
    /\ sent = [c \in Clients |-> << >>]
    /\ rd = [c \in Clients |-> 0]
    /\ out = [c \in Clients |-> << >>]
    /\ late = [c \in Clients |-> 0]
    /\ live = {} /\ clock = 0 /\ failures = 0
    /\ crashed = FALSE
-----------------------------------------------------------------------------
(* The environment: SIGINT, and the peers.  A peer that closes its socket  *)
(* in the middle of a line has sent that line as far as recv_line tells.   *)
on_sigint ==
    /\ ~crashed /\ running
    /\ running' = FALSE
    /\ UNCHANGED <<mainPc, mainConn, closed, queueVars, entryVars, ctVars, wVars,
                   sockVars, replyVars, memVars, crashed>>

PeerSend(c, line) ==
    /\ ~crashed /\ peer[c] = "up" /\ c \in fdOpen
    /\ Len(sent[c]) < MaxLines
    /\ Len(sent[c]) - Len(out[c]) < Pipeline
    /\ sent' = [sent EXCEPT ![c] = Append(@, line)]
    /\ UNCHANGED <<mainVars, queueVars, entryVars, ctVars, wVars, peer, fdOpen, rd,
                   replyVars, memVars, crashed>>

PeerClose(c) ==
    /\ ~crashed /\ peer[c] = "up"
    /\ peer' = [peer EXCEPT ![c] = "gone"]
    /\ UNCHANGED <<mainVars, queueVars, entryVars, ctVars, wVars, fdOpen, sent, rd,
                   replyVars, memVars, crashed>>
-----------------------------------------------------------------------------
(* The main thread.                                                        *)

register_client_response_queue_Skipped(c) == NoFailure /\ UNCHANGED <<respMap, entry>>

(* register_client_response_queue; it returns NULL, which main ignores,    *)
(* when an allocation fails.                                               *)
register_client_response_queue(c) ==
    \/ /\ respMap' = respMap \cup {c}
       /\ entry' = [entry EXCEPT ![c] = "live"]
       /\ NoFailure
    \/ Fail /\ UNCHANGED <<respMap, entry>>

(* accept returns a connection, which main registers under a new id. *)
MainAccept(c) ==
    /\ MainAt("accept") /\ running
    /\ peer[c] = "off"
    /\ peer' = [peer EXCEPT ![c] = "up"]
    /\ fdOpen' = fdOpen \cup {c}
    /\ register_client_response_queue(c)
    /\ mainPc' = "push" /\ mainConn' = c
    /\ UNCHANGED <<running, closed, queueVars, resp, ctVars, wVars, sent, rd, replyVars,
                   live, clock, crashed>>

MainPush_AfterReset ==
    /\ MainAt("push")
    /\ mainPc' = "accept" /\ mainConn' = None
    /\ clientQ' = clientQ \cup {mainConn'}
    /\ UNCHANGED <<running, closed, taskQ, entryVars, ctVars, wVars, sockVars, replyVars,
                   memVars, crashed>>

(* main hands the connection to the client threads.  A failed calloc of    *)
(* the ClientInfo is written through; a failed queue_push is ignored.      *)
MainPush ==
    /\ MainAt("push")
    /\ \/ NoFailure /\ clientQ' = clientQ \cup {mainConn} /\ UNCHANGED crashed
       \/ Fail /\ crashed' \in BOOLEAN /\ UNCHANGED clientQ
    /\ mainPc' = "accept" /\ mainConn' = None
    /\ UNCHANGED <<running, closed, taskQ, entryVars, ctVars, wVars, sockVars, replyVars,
                   live, clock>>

(* The accept loop ends, and main closes the queues one after the other.   *)
(* (response_map is closed too; only main pushes to it.)                   *)
MainCloseClientQueue ==
    /\ MainAt("accept") /\ ~running
    /\ closed' = closed \cup {"client_queue"}
    /\ mainPc' = "close"
    /\ UNCHANGED <<running, mainConn, queueVars, entryVars, ctVars, wVars, sockVars,
                   replyVars, memVars, crashed>>

MainCloseTaskQueue_Forgotten ==
    /\ MainAt("close")
    /\ mainPc' = "join"
    /\ UNCHANGED <<running, mainConn, closed, queueVars, entryVars, ctVars, wVars, sockVars,
                   replyVars, memVars, crashed>>

MainCloseTaskQueue ==
    /\ MainAt("close")
    /\ closed' = closed \cup {"task_queue"}
    /\ mainPc' = "join"
    /\ UNCHANGED <<running, mainConn, queueVars, entryVars, ctVars, wVars, sockVars,
                   replyVars, memVars, crashed>>

(* main joins all threads, frees the entries that are left and exits. *)
MainExit ==
    /\ MainAt("join")
    /\ \A t \in ClientThreads : ctPc[t] = "done"
    /\ \A w \in Workers : wPc[w] = "done"
    /\ entry' = [c \in Clients |-> IF c \in respMap THEN "freed" ELSE entry[c]]
    /\ respMap' = {}
    /\ mainPc' = "exit"
    /\ UNCHANGED <<running, mainConn, closed, queueVars, resp, ctVars, wVars, sockVars,
                   replyVars, memVars, crashed>>
-----------------------------------------------------------------------------
(* A client thread t, with its connection c == ctConn[t].                  *)

CtGoto(t, l) == ctPc' = [ctPc EXCEPT ![t] = l]

CtPop_NotRemoved(t) ==
    /\ CtAt(t, "pop")
    /\ \E c \in clientQ : ctConn' = [ctConn EXCEPT ![t] = c]
    /\ CtGoto(t, "recv")
    /\ UNCHANGED <<mainVars, queueVars, entryVars, ctTask, wVars, sockVars, replyVars,
                   memVars, crashed>>

(* queue_pop on client_queue.  The heap compares ClientInfo objects as if  *)
(* they were tasks and reads past their end, so any of them may come out.  *)
CtPop(t) ==
    /\ CtAt(t, "pop")
    /\ \/ \E c \in clientQ :
            /\ clientQ' = clientQ \ {c}
            /\ ctConn' = [ctConn EXCEPT ![t] = c]
            /\ CtGoto(t, "recv")
       \/ /\ clientQ = {} /\ "client_queue" \in closed
          /\ CtGoto(t, "done")
          /\ UNCHANGED <<clientQ, ctConn>>
    /\ UNCHANGED <<mainVars, taskQ, entryVars, ctTask, wVars, sockVars, replyVars,
                   memVars, crashed>>

(* write(fd, ...).  A peer that has gone answers the first write with a    *)
(* reset; a write after that raises SIGPIPE, which is not handled.         *)
Write(c, r) ==
    /\ out' = [out EXCEPT ![c] = Append(@, r)]
    /\ late' = [late EXCEPT ![c] = IF peer[c] = "gone" THEN @ + 1 ELSE @]
    /\ IF peer[c] = "gone" /\ late[c] > 0 THEN crashed' \in BOOLEAN ELSE UNCHANGED crashed

(* The Task for the n-th line of c, stamped with the time of its creation. *)
task_create(c, n) ==
    [client |-> c, n |-> n, priority |-> Priority(sent[c][n]), enqueue_time |-> clock]

(* recv_line returns a line, and the thread parses it.                     *)
CtReadCommand(t) ==
    LET c == ctConn[t]
        n == rd[c] + 1
        task == task_create(c, n)
    IN  /\ CtAt(t, "recv")
        /\ n <= Len(sent[c]) /\ IsCommand(sent[c][n])
        /\ rd' = [rd EXCEPT ![c] = n]
        /\ live' = live \cup {task}
        /\ clock' = clock + 1
        /\ ctTask' = [ctTask EXCEPT ![t] = task]
        /\ CtGoto(t, "push")
        /\ UNCHANGED <<mainVars, queueVars, entryVars, ctConn, wVars, peer, fdOpen, sent,
                       replyVars, failures, crashed>>

(* An unknown command: the task is freed, and the next line is read. *)
CtReadUnknown(t) ==
    LET c == ctConn[t]
    IN  /\ CtAt(t, "recv")
        /\ rd[c] < Len(sent[c]) /\ sent[c][rd[c] + 1] = "UNKNOWN"
        /\ rd' = [rd EXCEPT ![c] = @ + 1]
        /\ UNCHANGED <<mainVars, queueVars, entryVars, ctVars, wVars, peer, fdOpen, sent,
                       replyVars, memVars, crashed>>

(* task_create fails: the thread says so and reads the next line. *)
CtReadNoMemory(t) ==
    LET c == ctConn[t]
    IN  /\ CtAt(t, "recv")
        /\ rd[c] < Len(sent[c])
        /\ Fail
        /\ rd' = [rd EXCEPT ![c] = @ + 1]
        /\ Write(c, NoMemory)
        /\ UNCHANGED <<mainVars, queueVars, entryVars, ctVars, wVars, peer, fdOpen, sent,
                       live, clock>>

CtReadEnd_QuitOnly(t) ==
    LET c == ctConn[t]
    IN  /\ CtAt(t, "recv")
        /\ rd[c] < Len(sent[c]) /\ sent[c][rd[c] + 1] = "QUIT"
        /\ rd' = [rd EXCEPT ![c] = @ + 1]
        /\ CtGoto(t, "close")
        /\ UNCHANGED <<mainVars, queueVars, entryVars, ctConn, ctTask, wVars, peer, fdOpen,
                       sent, replyVars, memVars, crashed>>

(* QUIT, an empty line, the end of the stream or a reset connection. *)
CtReadEnd(t) ==
    LET c == ctConn[t]
    IN  /\ CtAt(t, "recv")
        /\ \/ /\ rd[c] < Len(sent[c]) /\ sent[c][rd[c] + 1] = "QUIT"
              /\ rd' = [rd EXCEPT ![c] = @ + 1]
           \/ /\ peer[c] = "gone" /\ (rd[c] = Len(sent[c]) \/ late[c] > 0)
              /\ UNCHANGED rd
        /\ CtGoto(t, "close")
        /\ UNCHANGED <<mainVars, queueVars, entryVars, ctConn, ctTask, wVars, peer, fdOpen,
                       sent, replyVars, memVars, crashed>>

(* queue_push on task_queue; its result is ignored. *)
CtPush(t) ==
    /\ CtAt(t, "push")
    /\ \/ /\ "task_queue" \notin closed /\ NoFailure
          /\ taskQ' = taskQ \cup {ctTask[t]}
       \/ /\ "task_queue" \in closed /\ NoFailure
          /\ UNCHANGED taskQ
       \/ /\ "task_queue" \notin closed /\ Fail
          /\ UNCHANGED taskQ
    /\ CtGoto(t, "log")
    /\ UNCHANGED <<mainVars, clientQ, entryVars, ctConn, ctTask, wVars, sockVars, replyVars,
                   live, clock, crashed>>

(* The log line reads task->type and task->priority, allocated or not. *)
CtLog(t) ==
    /\ CtAt(t, "log")
    /\ ctTask' = [ctTask EXCEPT ![t] = None]
    /\ CtGoto(t, "lookup")
    /\ UNCHANGED <<mainVars, queueVars, entryVars, ctConn, wVars, sockVars, replyVars,
                   memVars, crashed>>

(* Find the entry of this connection in response_map. *)
CtLookup(t) ==
    /\ CtAt(t, "lookup")
    /\ CtGoto(t, IF ctConn[t] \in respMap THEN "wait" ELSE "close")
    /\ UNCHANGED <<mainVars, queueVars, entryVars, ctConn, ctTask, wVars, sockVars,
                   replyVars, memVars, crashed>>

CtTake_NotRemoved(t) ==
    LET c == ctConn[t]
    IN  /\ CtAt(t, "wait")
        /\ resp[c] # << >>
        /\ Write(c, Head(resp[c]))
        /\ CtGoto(t, "recv")
        /\ UNCHANGED <<mainVars, queueVars, entryVars, ctConn, ctTask, wVars, sockVars,
                       memVars>>

(* A response is there, at once or before the 5 seconds are over: send it. *)
CtTake(t) ==
    LET c == ctConn[t]
    IN  /\ CtAt(t, "wait")
        /\ resp[c] # << >>
        /\ resp' = [resp EXCEPT ![c] = AfterPop(@)]
        /\ Write(c, Head(resp[c]))
        /\ CtGoto(t, "recv")
        /\ UNCHANGED <<mainVars, queueVars, respMap, entry, ctConn, ctTask, wVars, sockVars,
                       memVars>>

CtTimeout_KeepsWaiting(t) ==
    /\ CtAt(t, "wait")
    /\ resp[ctConn[t]] = << >>
    /\ Write(ctConn[t], TimedOut)
    /\ UNCHANGED <<mainVars, queueVars, entryVars, ctVars, wVars, sockVars, memVars>>

CtTimeout_Untimed(t) == FALSE

(* The 5 seconds are over and there is no response: report the timeout.    *)
(* When its calloc fails, the peer gets no reply at all.                   *)
CtTimeout(t) ==
    LET c == ctConn[t]
    IN  /\ CtAt(t, "wait")
        /\ resp[c] = << >>
        /\ \/ Write(c, TimedOut) /\ NoFailure
           \/ Fail /\ UNCHANGED <<replyVars, crashed>>
        /\ CtGoto(t, "recv")
        /\ UNCHANGED <<mainVars, queueVars, entryVars, ctConn, ctTask, wVars, sockVars,
                       live, clock>>

(* close(fd) *)
CtClose(t) ==
    /\ CtAt(t, "close")
    /\ fdOpen' = fdOpen \ {ctConn[t]}
    /\ CtGoto(t, "remove")
    /\ UNCHANGED <<mainVars, queueVars, entryVars, ctConn, ctTask, wVars, peer, sent, rd,
                   replyVars, memVars, crashed>>

CtRemove_KeepsMapping(t) ==
    /\ CtAt(t, "remove")
    /\ CtGoto(t, "close_entry")
    /\ UNCHANGED <<mainVars, queueVars, entryVars, ctConn, ctTask, wVars, sockVars,
                   replyVars, memVars, crashed>>

(* deregister_client_response_queue, in its three parts: take the entry    *)
(* out of the map, close its queue, free it.                               *)
CtRemove(t) ==
    LET c == ctConn[t]
    IN  /\ CtAt(t, "remove")
        /\ respMap' = respMap \ {c}
        /\ IF c \in respMap
             THEN CtGoto(t, "close_entry") /\ UNCHANGED ctConn
             ELSE CtGoto(t, "pop") /\ ctConn' = [ctConn EXCEPT ![t] = None]
        /\ UNCHANGED <<mainVars, queueVars, entry, resp, ctTask, wVars, sockVars, replyVars,
                       memVars, crashed>>

CtCloseEntry(t) ==
    /\ CtAt(t, "close_entry")
    /\ entry' = [entry EXCEPT ![ctConn[t]] = "closed"]
    /\ CtGoto(t, "free_entry")
    /\ UNCHANGED <<mainVars, queueVars, respMap, resp, ctConn, ctTask, wVars, sockVars,
                   replyVars, memVars, crashed>>

(* The responses that are still in the entry's queue go with it. *)
CtFreeEntry(t) ==
    LET c == ctConn[t]
    IN  /\ CtAt(t, "free_entry")
        /\ entry' = [entry EXCEPT ![c] = "freed"]
        /\ resp' = [resp EXCEPT ![c] = << >>]
        /\ ctConn' = [ctConn EXCEPT ![t] = None]
        /\ CtGoto(t, "pop")
        /\ UNCHANGED <<mainVars, queueVars, respMap, ctTask, wVars, sockVars, replyVars,
                       memVars, crashed>>
-----------------------------------------------------------------------------
(* A worker w, with its task wTask[w].                                     *)

WGoto(w, l) == wPc' = [wPc EXCEPT ![w] = l]

WPop_ClosedFirst(w) ==
    /\ WAt(w, "pop")
    /\ IF "task_queue" \in closed
         THEN WGoto(w, "done") /\ UNCHANGED <<taskQ, wTask>>
         ELSE /\ \E task \in taskQ : /\ taskQ' = taskQ \ {task}
                                     /\ wTask' = [wTask EXCEPT ![w] = task]
              /\ WGoto(w, "find")
    /\ UNCHANGED <<mainVars, clientQ, entryVars, ctVars, sockVars, replyVars, memVars,
                   crashed>>

WPop_NotRemoved(w) ==
    /\ WAt(w, "pop")
    /\ \E task \in taskQ : wTask' = [wTask EXCEPT ![w] = task]
    /\ WGoto(w, "find")
    /\ UNCHANGED <<mainVars, queueVars, entryVars, ctVars, sockVars, replyVars, memVars,
                   crashed>>

(* queue_pop on task_queue *)
WPop(w) ==
    /\ WAt(w, "pop")
    /\ \/ \E task \in taskQ :
            /\ Order!IsTop(task, taskQ)
            /\ taskQ' = taskQ \ {task}
            /\ wTask' = [wTask EXCEPT ![w] = task]
            /\ WGoto(w, "find")
       \/ /\ taskQ = {} /\ "task_queue" \in closed
          /\ WGoto(w, "done")
          /\ UNCHANGED <<taskQ, wTask>>
    /\ UNCHANGED <<mainVars, clientQ, entryVars, ctVars, sockVars, replyVars, memVars,
                   crashed>>

(* The first half of send_response, after the task was carried out: look   *)
(* up the entry under the map's mutex, which is released before the entry  *)
(* is used.  Without memory or entry there is no response.                 *)
WFind(w) ==
    /\ WAt(w, "find")
    /\ \/ /\ NoFailure
          /\ WGoto(w, IF wTask[w].client \in respMap THEN "deliver" ELSE "free")
       \/ Fail /\ WGoto(w, "free")
    /\ UNCHANGED <<mainVars, queueVars, entryVars, ctVars, wTask, sockVars, replyVars,
                   live, clock, crashed>>

WDeliver_Twice(w) ==
    LET c == wTask[w].client
    IN  /\ WAt(w, "deliver")
        /\ entry[c] = "live"
        /\ resp' = [resp EXCEPT ![c] = @ \o <<wTask[w].n, wTask[w].n>>]
        /\ WGoto(w, "free")
        /\ UNCHANGED <<mainVars, queueVars, respMap, entry, ctVars, wTask, sockVars,
                       replyVars, memVars, crashed>>

(* The second half: push the response.  A closed queue refuses it.  An     *)
(* entry that was freed in between is undefined behaviour: the response    *)
(* ends up nowhere, or the process dies.                                   *)
WDeliver(w) ==
    LET c == wTask[w].client
    IN  /\ WAt(w, "deliver")
        /\ \/ /\ entry[c] = "live" /\ NoFailure
              /\ resp' = [resp EXCEPT ![c] = Append(@, wTask[w].n)]
              /\ UNCHANGED crashed
           \/ /\ entry[c] = "live" /\ Fail
              /\ UNCHANGED <<resp, crashed>>
           \/ /\ entry[c] = "closed" /\ NoFailure
              /\ UNCHANGED <<resp, crashed>>
           \/ /\ entry[c] = "freed" /\ NoFailure
              /\ crashed' \in BOOLEAN
              /\ UNCHANGED resp
        /\ WGoto(w, "free")
        /\ UNCHANGED <<mainVars, queueVars, respMap, entry, ctVars, wTask, sockVars,
                       replyVars, live, clock>>

(* task_free *)
WFree(w) ==
    /\ WAt(w, "free")
    /\ live' = live \ {wTask[w]}
    /\ wTask' = [wTask EXCEPT ![w] = None]
    /\ WGoto(w, "pop")
    /\ UNCHANGED <<mainVars, queueVars, entryVars, ctVars, sockVars, replyVars, clock,
                   failures, crashed>>
-----------------------------------------------------------------------------
MainNext == MainPush \/ MainCloseClientQueue \/ MainCloseTaskQueue \/ MainExit

CtNext(t) ==
    \/ CtPop(t)
    \/ CtReadCommand(t) \/ CtReadUnknown(t) \/ CtReadNoMemory(t) \/ CtReadEnd(t)
    \/ CtPush(t) \/ CtLog(t) \/ CtLookup(t)
    \/ CtTake(t) \/ CtTimeout(t)
    \/ CtClose(t) \/ CtRemove(t) \/ CtCloseEntry(t) \/ CtFreeEntry(t)

WNext(w) == WPop(w) \/ WFind(w) \/ WDeliver(w) \/ WFree(w)

PeerNext ==
    \E c \in Clients :
      MainAccept(c) \/ PeerClose(c) \/ \E line \in Lines : PeerSend(c, line)

Next ==
    \/ MainNext
    \/ \E t \in ClientThreads : CtNext(t)
    \/ \E w \in Workers : WNext(w)
    \/ PeerNext
    \/ on_sigint

Spec == Init /\ [][Next]_vars
-----------------------------------------------------------------------------
(* The types; in particular main queues only connections it accepted. *)
TypeOK ==
    /\ running \in BOOLEAN /\ crashed \in BOOLEAN
    /\ mainPc \in {"accept", "push", "close", "join", "exit"}
    /\ mainConn \in Clients \cup {None}
    /\ closed \subseteq {"client_queue", "task_queue"}
    /\ clientQ \subseteq Clients /\ taskQ \subseteq Task
    /\ respMap \subseteq Clients
    /\ entry \in [Clients -> {"none", "live", "closed", "freed"}]
    /\ resp \in [Clients -> Seq(1 .. MaxLines)]
    /\ ctPc \in [ClientThreads -> {"pop", "recv", "push", "log", "lookup", "wait", "close",
                                   "remove", "close_entry", "free_entry", "done"}]
    /\ ctConn \in [ClientThreads -> Clients \cup {None}]
    /\ ctTask \in [ClientThreads -> Task \cup {None}]
    /\ wPc \in [Workers -> {"pop", "find", "deliver", "free", "done"}]
    /\ wTask \in [Workers -> Task \cup {None}]
    /\ peer \in [Clients -> {"off", "up", "gone"}]
    /\ fdOpen \subseteq Clients
    /\ sent \in [Clients -> Seq(Lines)]
    /\ rd \in [Clients -> 0 .. MaxLines]
    /\ out \in [Clients -> Seq({TimedOut, NoMemory} \cup 1 .. MaxLines)]
    /\ late \in [Clients -> Nat]
    /\ live \subseteq Task
    /\ clock \in Nat /\ failures \in Nat

(* The thread t has c's socket. *)
Owns(t, c) ==
    /\ ctConn[t] = c
    /\ ctPc[t] \in {"recv", "push", "log", "lookup", "wait", "close"}

(* An accepted connection is in exactly one place until its socket is      *)
(* closed: with the main thread, in client_queue or with one client        *)
(* thread.  None is forgotten and no two threads share one.  (A failed     *)
(* allocation in the accept loop makes main drop the connection.)          *)
ConnectionOwned ==
    /\ failures = 0 =>
         fdOpen = clientQ \cup {c \in Clients : \/ mainConn = c
                                                \/ \E t \in ClientThreads : Owns(t, c)}
    /\ clientQ \cap {mainConn} = {}
    /\ \A t \in ClientThreads : ctConn[t] # None => ctConn[t] \notin clientQ \cup {mainConn}
    /\ \A t, u \in ClientThreads : t # u /\ ctConn[t] # None => ctConn[t] # ctConn[u]

(* A client thread finds its response queue when it looks for it, and the  *)
(* entry stays allocated while it waits there: main registers a connection *)
(* before it hands it over, and only the thread that serves it removes it. *)
(* Failing that, "connection lost" would be reported to nobody.            *)
ServedClientRegistered ==
    failures = 0 =>
      \A c \in Clients :
        (c \in clientQ \/ \E t \in ClientThreads : Owns(t, c))
          => c \in respMap /\ entry[c] = "live"

(* The response map and the memory of its entries agree: an entry in the   *)
(* map is allocated, one that is not in the map is still allocated only    *)
(* while one thread is about to free it, and none is freed twice.          *)
EntriesFreedOnce ==
    /\ \A c \in respMap : entry[c] = "live"
    /\ \A c \in Clients \ respMap :
         entry[c] \in {"live", "closed"} <=>
           \E t \in ClientThreads :
             ctConn[t] = c /\ ctPc[t] = IF entry[c] = "live" THEN "close_entry"
                                                             ELSE "free_entry"

(* The tasks of c that have not led to a response yet. *)
InFlight(c) ==
    {task \in taskQ : task.client = c}
      \cup {task \in {wTask[w] : w \in {v \in Workers : wPc[v] \in {"find", "deliver"}}} :
              task.client = c}
      \cup {task \in {ctTask[t] : t \in {u \in ClientThreads : ctPc[u] = "push"}} :
              task.client = c}

(* A task is freed once, by the worker that took it, and never while it is *)
(* queued: no two workers have the same one.  None is lost either, as long *)
(* as the queue is open: an allocated task is with the client thread that  *)
(* made it, queued, or with a worker.  (A task that queue_push refuses is  *)
(* never freed.)                                                           *)
TasksFreedOnce ==
    LET taken == {wTask[w] : w \in Workers} \ {None}
        made == {ctTask[t] : t \in {u \in ClientThreads : ctPc[u] = "push"}}
    IN  /\ taskQ \cup taken \cup made \subseteq live
        /\ taskQ \cap taken = {} /\ made \cap (taskQ \cup taken) = {}
        /\ \A v, w \in Workers : v # w /\ wTask[v] # None => wTask[v] # wTask[w]
        /\ failures = 0 /\ closed = {} => live = taskQ \cup taken \cup made

Timeouts(c) == Cardinality({i \in DOMAIN out[c] : out[c][i] = TimedOut})

(* A thread waits for an answer to the last line it read from c. *)
Unanswered(c) ==
    \E t \in ClientThreads : ctConn[t] = c /\ ctPc[t] \in {"push", "log", "lookup", "wait"}

(* Each line is answered at most once: a line that is in flight, one whose *)
(* response is queued and one whose response was sent are three different  *)
(* lines.                                                                  *)
AnsweredOnce ==
    \A c \in Clients :
      LET q == resp[c] \o out[c]
      IN  /\ \A i, j \in DOMAIN q : q[i] > 0 /\ i # j => q[i] # q[j]
          /\ \A i \in DOMAIN q : \A task \in InFlight(c) : q[i] # task.n
          /\ \A i \in DOMAIN q : q[i] <= rd[c]

(* Responses pile up for a client only through timeouts: those on their    *)
(* way and those queued are at most one for each timeout reported and each *)
(* failed allocation, and one for the line being answered.                 *)
BacklogBounded ==
    \A c \in Clients :
      Cardinality(InFlight(c)) + Len(resp[c])
        <= Timeouts(c) + failures + (IF Unanswered(c) THEN 1 ELSE 0)

(* A peer that goes away with k lines unanswered has at most k replies     *)
(* written to its socket after that.  One that waits for each reply never  *)
(* makes the server write to a socket it knows to be reset, and so raises  *)
(* no SIGPIPE.                                                             *)
LateWritesBounded == \A c \in Clients : late[c] <= Pipeline

(* Once main has joined all threads, no task and no connection is left in  *)
(* a queue, no entry is allocated and, if no allocation failed, no socket  *)
(* is open.  (A task that queue_push refused is never freed.)              *)
CleanExit ==
    mainPc = "exit" =>
      /\ taskQ = {} /\ clientQ = {}
      /\ failures = 0 => fdOpen = {}
      /\ \A c \in Clients : entry[c] \in {"none", "freed"}

(* As long as no timeout was reported to c, and no allocation failed, each *)
(* reply to c answers the line that was read last.                         *)
InOrderUntilTimeout ==
    [][\A c \in Clients :
         Len(out'[c]) > Len(out[c]) /\ Timeouts(c)' = 0 /\ failures' = 0
           => out'[c][Len(out'[c])] = rd[c]]_vars

Replies == INSTANCE ReplyService WITH read <- rd

(* What a peer can rely on, whatever else goes wrong: client_thread_main   *)
(* implements ReplyService.                                                *)
ImplementsReplyService == Replies!Spec

(* Every command that was read is answered, by a worker's response or by   *)
(* the timeout, unless the memory for the reply is missing.                *)
CommandAnswered ==
    \A c \in Clients :
      (Unanswered(c) /\ failures = 0) ~> (Len(out[c]) = rd[c] \/ failures > 0 \/ crashed)

(* All client threads serve peers other than c who are still there.  While *)
(* these stay, nobody looks after c: a thread leaves a peer only when the  *)
(* peer ends the connection.                                               *)
Crowded(c) ==
    \A t \in ClientThreads : \E d \in Clients \ {c} : ctConn[t] = d /\ peer[d] = "up"

(* When a peer is gone, with or without QUIT and wherever its connection   *)
(* is then, the server lets go of the connection: it closes the socket and *)
(* takes the entry out of the response map.  The exception is a connection *)
(* in client_queue while other peers hold all client threads for ever.     *)
ConnectionReleased ==
    \A c \in Clients :
      \/ (peer[c] = "gone") ~> (c \notin fdOpen \cup respMap \/ failures > 0 \/ crashed)
      \/ <>[]Crowded(c)

(* After SIGINT the process ends, provided that all peers go away.         *)
ShutdownCompletes ==
    <>[](\A c \in Clients : peer[c] # "up") =>
      ((~running) ~> (mainPc = "exit" \/ crashed))
-----------------------------------------------------------------------------
(* What the documentation says, and the code does not do. *)

(* "No race conditions": a worker locks a client's entry only while it is  *)
(* allocated.                                                              *)
EntryUsedBeforeFree ==
    \A w \in Workers : wPc[w] = "deliver" => entry[wTask[w].client] # "freed"
=============================================================================
