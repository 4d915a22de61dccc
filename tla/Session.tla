------------------------------ MODULE Session ------------------------------
(***************************************************************************)
(* The client program (client_program.c) as the peer of Server's           *)
(* connections: it sends one command at a time, waits for the reply and    *)
(* draws its conclusions from it.                                          *)
(*                                                                         *)
(* A request carries the answer that the user store and the file store     *)
(* will have for it (module Storage).  The replies are a stream of bytes:  *)
(* a read returns all that is there, or, at most MaxSplits times, a part;  *)
(* taken counts the halves of replies that were read.  The text of         *)
(* messages, and input that only leads to a usage message, are left out.   *)
(*                                                                         *)
(* The temporary files of uploads lie in one directory, under a name made  *)
(* of the file's name and the second: two programs can pick the same one.  *)
(* The worker that stored an upload unlinks the file, too.                 *)
(***************************************************************************)
EXTENDS Server

CONSTANTS Users,
          Temps,      \* names /tmp/upload_<file>_<second>
          Requests,   \* what the people at the prompts ask for
          MaxSplits   \* bound on the reads that return part of a reply

Commands == {"signup", "login", "upload", "download", "delete", "list"}

(* by: the program it is typed at.  cut: the arguments are so long that    *)
(* snprintf cuts the newline off; the command of an upload that is cut is  *)
(* as long as recv_line's buffer, and read without a newline.  tmp: the    *)
(* name that an upload would have for its temporary file.                  *)
Request == [by : Clients, cmd : Commands, user : Users, ok : BOOLEAN, cut : BOOLEAN,
            tmp : Temps]

(* The line that a command sends, by the priority it gets in Server. *)
LineOf(cmd) ==
    CASE cmd \in {"login", "delete"} -> "LOGIN"
      [] cmd \in {"signup", "upload", "download"} -> "UPLOAD"
      [] cmd = "list" -> "LIST"
      [] cmd = "quit" -> "QUIT"

ASSUME SessionAssumption ==
    /\ Requests \subseteq Request
    /\ \A r \in Requests : r.cut => r.cmd \in {"signup", "login", "delete"}
    /\ {LineOf(r.cmd) : r \in Requests} \cup {"QUIT"} \subseteq Lines
    /\ None \notin Users /\ None \notin Request /\ MaxSplits \in Nat

VARIABLES
    place,     \* "off", "prompt", "reply", "header", "bye" or "left"
    user,      \* ClientState: the username if logged_in, else None
    req,       \* the request that is being carried out
    asked,     \* the requests behind the lines that were sent
    partial,   \* the request whose command was sent without its newline, or None
    taken,     \* how much of the replies was read, in halves
    splits,    \* the reads that returned part of a reply
    broken,    \* the programs that wrote to a socket the server has closed
    files      \* whose hand was last on a temporary file: <<c, n>> if c wrote
               \* it for its line n, <<c, 0>> if it was removed for c,
               \* <<None, 0>> if nobody used the name

programVars == <<place, user, req, asked, partial, taken, splits, broken>>
sessionVars == <<vars, programVars, files>>

Asking(c, cmd) == {r \in Requests : r.by = c /\ r.cmd = cmd}
Waits(c, cmd) == place[c] = "reply" /\ req[c].cmd = cmd
Goto(c, l) == place' = [place EXCEPT ![c] = l]

HungUp(c) == crashed \/ c \notin fdOpen
Unread(c) == 2 * Len(out[c]) - taken[c]

(* A read would begin with "OK": it begins with a reply, and the reply is  *)
(* a response to a request that succeeded.                                 *)
ReadsOK(c) ==
    /\ Unread(c) > 0 /\ taken[c] % 2 = 0
    /\ LET n == out[c][taken[c] \div 2 + 1]
       IN  n > 0 /\ asked[c][n].ok

(* main: not connected, and not logged in *)
SessionInit ==
    /\ Init
    /\ place = [c \in Clients |-> "off"]
    /\ user = [c \in Clients |-> None]
    /\ req = [c \in Clients |-> None]
    /\ asked = [c \in Clients |-> << >>]
    /\ partial = [c \in Clients |-> None]
    /\ broken = {}
    /\ taken = [c \in Clients |-> 0] /\ splits = 0
    /\ files = [s \in Temps |-> <<None, 0>>]

(* socket, connect; the server accepts the connection *)
connect_to_server(c) ==
    /\ place[c] = "off"
    /\ MainAccept(c)
    /\ Goto(c, "prompt")
    /\ UNCHANGED <<user, req, asked, partial, taken, splits, broken, files>>
-----------------------------------------------------------------------------
(* A command reaches the server as a line: with what was sent before it    *)
(* without a newline, and which then decides what the line is.             *)
SendLine(c, r) ==
    LET whole == IF partial[c] = None THEN r ELSE partial[c]
    IN  /\ PeerSend(c, LineOf(whole.cmd))
        /\ asked' = [asked EXCEPT ![c] = Append(@, whole)]
        /\ partial' = [partial EXCEPT ![c] = None]

(* write, unless the user has to log in first.  A first write to a socket  *)
(* that the server has closed seems to succeed; the second one kills the   *)
(* program.  (There is no second command without a newline in one line.)   *)
send_command(c, r) ==
    /\ place[c] = "prompt"
    /\ user[c] # None \/ r.cmd \in {"signup", "login"}
    /\ Len(sent[c]) < MaxLines
    /\ req' = [req EXCEPT ![c] = r]
    /\ \/ /\ ~HungUp(c) /\ ~r.cut
          /\ SendLine(c, r)
          /\ Goto(c, "reply") /\ UNCHANGED broken
       \/ /\ ~HungUp(c) /\ r.cut /\ partial[c] = None
          /\ partial' = [partial EXCEPT ![c] = r]
          /\ Goto(c, "reply") /\ UNCHANGED <<vars, asked, broken>>
       \/ /\ HungUp(c)
          /\ broken' = broken \cup {c}
          /\ Goto(c, IF c \in broken THEN "left" ELSE "reply")
          /\ UNCHANGED <<vars, asked, partial>>
    /\ UNCHANGED <<taken, splits>>

receive_response_Peeks(c) ==
    Unread(c) > 0 /\ UNCHANGED <<vars, req, asked, partial, broken, taken, splits>>

receive_response_ToTheEnd(c) ==
    /\ HungUp(c)
    /\ taken' = [taken EXCEPT ![c] = 2 * Len(out[c])]
    /\ UNCHANGED <<vars, req, asked, partial, broken, splits>>

(* One read.  It returns nothing when the server has closed the socket. *)
receive_response(c) ==
    /\ \/ \E n \in taken[c] + 1 .. 2 * Len(out[c]) :
            /\ taken' = [taken EXCEPT ![c] = n]
            /\ \/ n = 2 * Len(out[c]) /\ UNCHANGED splits
               \/ n < 2 * Len(out[c]) /\ splits < MaxSplits /\ splits' = splits + 1
       \/ Unread(c) = 0 /\ HungUp(c) /\ UNCHANGED <<taken, splits>>
    /\ UNCHANGED <<vars, req, asked, partial, broken>>

LoggedIn_AnyReply(c) == [user EXCEPT ![c] = req[c].user]

(* What a reply to signup or login says about who is logged in. *)
LoggedIn(c) == IF ReadsOK(c) THEN [user EXCEPT ![c] = req[c].user] ELSE user

signup(c) ==
    \/ \E r \in Asking(c, "signup") : send_command(c, r) /\ UNCHANGED <<user, files>>
    \/ /\ Waits(c, "signup") /\ receive_response(c)
       /\ user' = LoggedIn(c)
       /\ Goto(c, "prompt") /\ UNCHANGED files

login(c) ==
    \/ \E r \in Asking(c, "login") : send_command(c, r) /\ UNCHANGED <<user, files>>
    \/ /\ Waits(c, "login") /\ receive_response(c)
       /\ user' = LoggedIn(c)
       /\ Goto(c, "prompt") /\ UNCHANGED files

upload_file_UnlinksEarly(c) ==
    /\ \/ \E r \in Asking(c, "upload") :
            send_command(c, r) /\ files' = [files EXCEPT ![r.tmp] = <<c, 0>>]
       \/ /\ Waits(c, "upload") /\ receive_response(c)
          /\ Goto(c, "prompt") /\ UNCHANGED files
    /\ UNCHANGED user

(* The temporary file is written before the command is sent, and removed   *)
(* after the reply, whatever that is; or at once if nobody is logged in.   *)
upload_file(c) ==
    /\ \/ \E r \in Asking(c, "upload") :
            /\ send_command(c, r)
            /\ files' = [files EXCEPT ![r.tmp] = <<c, Len(sent[c]) + 1>>]
       \/ \E r \in Asking(c, "upload") :
            /\ place[c] = "prompt" /\ user[c] = None
            /\ files' = [files EXCEPT ![r.tmp] = <<c, 0>>]
            /\ UNCHANGED <<vars, place, req, asked, partial, taken, splits, broken>>
       \/ /\ Waits(c, "upload") /\ receive_response(c)
          /\ files' = [files EXCEPT ![req[c].tmp] = <<c, 0>>]
          /\ Goto(c, "prompt")
    /\ UNCHANGED user

download_file(c) ==
    \E r \in Asking(c, "download") : send_command(c, r) /\ UNCHANGED <<user, files>>

(* After an OK the program reads again, for a header "FILE_DATA" that the  *)
(* server never sends.  Anything else that comes is refused.               *)
receive_file_data(c) ==
    /\ \/ Waits(c, "download") /\ Goto(c, IF ReadsOK(c) THEN "header" ELSE "prompt")
       \/ place[c] = "header" /\ Goto(c, "prompt")
    /\ receive_response(c)
    /\ UNCHANGED <<user, files>>

delete_file(c) ==
    \/ \E r \in Asking(c, "delete") : send_command(c, r) /\ UNCHANGED <<user, files>>
    \/ /\ Waits(c, "delete") /\ receive_response(c)
       /\ Goto(c, "prompt") /\ UNCHANGED <<user, files>>

list_files(c) ==
    \/ \E r \in Asking(c, "list") : send_command(c, r) /\ UNCHANGED <<user, files>>
    \/ /\ Waits(c, "list") /\ receive_response(c)
       /\ Goto(c, "prompt") /\ UNCHANGED <<user, files>>
-----------------------------------------------------------------------------
Quitting(c) == [by |-> c, cmd |-> "quit", user |-> user[c], ok |-> FALSE, cut |-> FALSE]

quit_Stays(c) ==
    /\ place[c] = "prompt" /\ user[c] # None
    /\ SendLine(c, Quitting(c))
    /\ UNCHANGED <<place, user, req, taken, splits, broken, files>>

(* "quit", which sends QUIT if the user is logged in, or the end of the    *)
(* input.                                                                  *)
quit(c) ==
    /\ place[c] = "prompt"
    /\ \/ /\ user[c] # None
          /\ SendLine(c, Quitting(c))
       \/ UNCHANGED <<vars, asked, partial>>
    /\ Goto(c, "bye")
    /\ UNCHANGED <<user, req, taken, splits, broken, files>>

(* The socket is closed.  A command without its newline becomes a line. *)
Close(c) ==
    /\ peer' = [peer EXCEPT ![c] = "gone"]
    /\ IF partial[c] # None
         THEN /\ sent' = [sent EXCEPT ![c] = Append(@, LineOf(partial[c].cmd))]
              /\ asked' = [asked EXCEPT ![c] = Append(@, partial[c])]
         ELSE UNCHANGED <<sent, asked>>
    /\ Goto(c, "left")
    /\ UNCHANGED <<mainVars, queueVars, entryVars, ctVars, wVars, fdOpen, rd, replyVars,
                   memVars, crashed, user, req, partial, taken, splits, broken, files>>

cleanup_client(c) == place[c] = "bye" /\ Close(c)

(* The program is interrupted; what it has not removed stays. *)
Killed(c) == place[c] \in {"prompt", "reply", "header"} /\ Close(c)

(* What the program does by itself once a command has been typed. *)
Proceeds(c) ==
    \/ /\ place[c] \in {"reply", "header"}
       /\ \/ signup(c) \/ login(c) \/ upload_file(c) \/ delete_file(c) \/ list_files(c)
          \/ receive_file_data(c)
    \/ cleanup_client(c)

interactive_mode(c) ==
    \/ signup(c) \/ login(c) \/ upload_file(c) \/ download_file(c) \/ delete_file(c)
    \/ list_files(c) \/ receive_file_data(c)
    \/ quit(c)

(* A worker carries its task out before it looks for the entry: once the   *)
(* file is stored, the temporary file is unlinked.                         *)
worker_thread_main(w) ==
    LET task == wTask[w]
        r == asked[task.client][task.n]
    IN  \/ (WPop(w) \/ WDeliver(w) \/ WFree(w)) /\ UNCHANGED files
        \/ /\ WFind(w) /\ r.cmd = "upload" /\ r.ok
           /\ files' = [files EXCEPT ![r.tmp] = <<task.client, 0>>]
        \/ WFind(w) /\ ~(r.cmd = "upload" /\ r.ok) /\ UNCHANGED files

ServerNext ==
    \/ (MainNext \/ on_sigint) /\ UNCHANGED files
    \/ \E t \in ClientThreads : CtNext(t) /\ UNCHANGED files
    \/ \E w \in Workers : worker_thread_main(w)

SessionNext ==
    \/ ServerNext /\ UNCHANGED programVars
    \/ \E c \in Clients :
         connect_to_server(c) \/ interactive_mode(c) \/ cleanup_client(c) \/ Killed(c)

SessionSpec == SessionInit /\ [][SessionNext]_sessionVars

(* The operating system runs every thread that can run.  A client thread   *)
(* that waits for a response can always run: its wait is timed.  A program *)
(* goes on when its read can return; nobody has to type anything, and      *)
(* nothing is assumed of SIGINT.                                           *)
FairSessionSpec ==
    /\ SessionSpec
    /\ WF_sessionVars(MainNext /\ UNCHANGED <<programVars, files>>)
    /\ \A t \in ClientThreads :
         WF_sessionVars(CtNext(t) /\ UNCHANGED <<programVars, files>>)
    /\ \A w \in Workers : WF_sessionVars(worker_thread_main(w) /\ UNCHANGED programVars)
    /\ \A c \in Clients : WF_sessionVars(Proceeds(c))
-----------------------------------------------------------------------------
(* The types of the server's and the program's variables; main queues only *)
(* connections it accepted, and the requests belong to lines.              *)
SessionTypeOK ==
    /\ TypeOK
    /\ place \in [Clients -> {"off", "prompt", "reply", "header", "bye", "left"}]
    /\ user \in [Clients -> Users \cup {None}]
    /\ req \in [Clients -> Requests \cup {None}]
    /\ partial \in [Clients -> Requests \cup {None}] /\ broken \subseteq Clients
    /\ taken \in [Clients -> Nat] /\ splits \in 0 .. MaxSplits
    /\ files \in [Temps -> (Clients \cup {None}) \X Nat]
    /\ \A c \in Clients :
         /\ Len(asked[c]) = Len(sent[c]) /\ taken[c] <= 2 * Len(out[c])
         /\ \A n \in DOMAIN asked[c] : sent[c][n] = LineOf(asked[c][n].cmd)

(* Nothing has gone wrong on c's connection. *)
Smooth(c) == Timeouts(c) = 0 /\ failures = 0 /\ splits = 0

(* The lines of c whose reply was read, and which logged somebody in. *)
Accepted(c) ==
    {n \in 1 .. taken[c] \div 2 : asked[c][n].cmd \in {"signup", "login"} /\ asked[c][n].ok}

(* The program believes to be logged in as the user whom the server        *)
(* accepted last, and as nobody before that.  (It no longer does after a   *)
(* timeout: then it takes a late response for the reply to another login.) *)
LoginTruthful ==
    \A c \in Clients :
      Smooth(c) =>
        IF Accepted(c) = {} THEN user[c] = None
        ELSE \E n \in Accepted(c) :
               (\A m \in Accepted(c) : m <= n) /\ user[c] = asked[c][n].user

(* However many timeouts there are, the program reads the replies as fast  *)
(* as they come: at the prompt none is left unread, and while it waits     *)
(* there is at most one.  Each read of a part adds one reply at most.      *)
RepliesRead ==
    \A c \in Clients :
      /\ Unread(c) <= 2 + 2 * splits
      /\ place[c] = "prompt" => Unread(c) <= 2 * splits

(* c's tasks that wait for a worker, or that a worker has not carried out. *)
Undone(c) ==
    {task \in InFlight(c) : \A w \in Workers : wTask[w] = task => wPc[w] # "deliver"}

(* Until a worker carries an upload out, neither the program nor the       *)
(* server removes its temporary file or writes another file under its      *)
(* name: only a program that picked the same name can.  And at the prompt  *)
(* the program has left no file behind.                                    *)
UploadSource ==
    \A c \in Clients :
      /\ Smooth(c) /\ ~crashed /\ place[c] # "left" =>
           \A task \in Undone(c) :
             asked[c][task.n].cmd = "upload" =>
               LET f == files[asked[c][task.n].tmp]
               IN  f = <<c, task.n>> \/ f[1] \in Clients \ {c}
      /\ place[c] = "prompt" =>
           \A s \in Temps, n \in 1 .. Len(sent[c]) + 1 : files[s] # <<c, n>>

(* The server does not hang up on a program that has not said QUIT.  (A    *)
(* connection is here accepted at once: one in the listen backlog is reset *)
(* when the server exits.)                                                 *)
NoHangUp ==
    \A c \in Clients :
      place[c] \in {"prompt", "reply", "header"} /\ failures = 0 /\ ~crashed => c \in fdOpen

(* A command is over at some time: the prompt returns, with the reply, the *)
(* timeout or a lost connection.  Not so for a download that succeeds, for *)
(* a command whose newline was cut off, and while the other programs that  *)
(* are connected keep every client thread to themselves.                   *)
PromptReturns ==
    \A c \in Clients :
      \/ (place[c] = "reply" /\ partial[c] = None /\ req[c].cmd # "download")
           ~> (place[c] \in {"prompt", "left"} \/ failures > 0)
      \/ <>[]Crowded(c)
-----------------------------------------------------------------------------
(* What the documentation says, and the code does not do.                  *)

(* "Download response: OK File downloaded successfully", and then the next *)
(* prompt: a download ends.                                                *)
DownloadReturns ==
    \A c \in Clients :
      (place[c] = "reply" /\ req[c].cmd = "download") ~> (place[c] \in {"prompt", "left"})
=============================================================================
