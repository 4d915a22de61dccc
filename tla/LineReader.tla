----------------------------- MODULE LineReader -----------------------------
(***************************************************************************)
(* How the bytes of a connection become lines: recv_line, and the loop of  *)
(* client_thread_main that calls it, for one client thread and the         *)
(* connections it serves one after the other.  The buffer for the line     *)
(* belongs to the thread: it is not cleared between lines or connections.  *)
(*                                                                         *)
(* A stream is what the peer has sent on the present connection; the       *)
(* thread reads it through the index start + pos.  What a command does is  *)
(* the matter of module Server; here only QUIT matters, which ends the     *)
(* connection.  Peers send text, that is no NUL.                           *)
(***************************************************************************)
EXTENDS Integers, Sequences, FiniteSets

CONSTANTS Chars,          \* the characters of a line
          Newline, Nul,
          Junk,           \* a byte of the buffer that was never written
          Quit,           \* the character that QUIT begins with
          Limit,          \* sizeof(line) - 1, which is 511
          MaxConns,       \* bound on the connections
          MaxSent         \* bound on the characters of a connection

ASSUME LineAssumption ==
    /\ Newline \notin Chars /\ Nul \notin Chars /\ Junk \notin Chars
    /\ Nul # Junk
    /\ Limit \in Nat \ {0} /\ MaxConns \in Nat /\ MaxSent \in Nat

VARIABLES
    conns,       \* how many connections the thread has taken
    stream, end, \* what the peer sent; "open", "closed" or "reset"
    pc,          \* "idle" between two connections, else "recv"
    start, pos,  \* the characters used up by earlier lines; those of this line
    buf,         \* the array line[512]
    lines,       \* the lines of this connection that recv_line returned
    past         \* history: what the thread saw in its buffer, ever

peerVars == <<stream, end>>
vars == <<conns, peerVars, pc, start, pos, buf, lines, past>>

Byte == Chars \cup {Nul, Junk}

(* What a C function sees in the buffer b: the characters before the first *)
(* NUL.  (Without one it reads on past the end; that is not shown.)        *)
StrLen(b) == Cardinality({m \in 0 .. Limit : \A i \in 0 .. m : b[i] # Nul})

CString(b) == [i \in 1 .. StrLen(b) |-> b[i - 1]]

Init ==
    /\ conns = 0 /\ stream = << >> /\ end = "open"
    /\ pc = "idle" /\ start = 0 /\ pos = 0
    /\ buf = [i \in 0 .. Limit |-> Junk]
    /\ lines = << >> /\ past = {}
-----------------------------------------------------------------------------
(* The peer.  A reset takes with it what was not read yet. *)
PeerSend(ch) ==
    /\ pc = "recv" /\ end = "open" /\ Len(stream) < MaxSent
    /\ stream' = Append(stream, ch)
    /\ UNCHANGED <<conns, end, pc, start, pos, buf, lines, past>>

PeerEnd ==
    /\ pc = "recv" /\ end = "open"
    /\ end' \in {"closed", "reset"}
    /\ UNCHANGED <<conns, stream, pc, start, pos, buf, lines, past>>
-----------------------------------------------------------------------------
(* The thread. *)

(* The thread takes the next connection. *)
Take ==
    /\ pc = "idle" /\ conns < MaxConns
    /\ conns' = conns + 1
    /\ stream' = << >> /\ end' = "open"
    /\ start' = 0 /\ pos' = 0 /\ lines' = << >>
    /\ pc' = "recv"
    /\ UNCHANGED <<buf, past>>

Reading_PastLimit == pc = "recv" /\ pos <= Limit

(* recv_line is in its loop, and the peer has sent more. *)
Reading == pc = "recv" /\ pos < Limit
More == end # "reset" /\ start + pos < Len(stream)
NextChar == stream[start + pos + 1]

Store_Shifted ==
    /\ buf' = [buf EXCEPT ![pos + 1] = NextChar]
    /\ pos' = pos + 1

(* buf[pos++] = c *)
Store ==
    /\ buf' = [buf EXCEPT ![pos] = NextChar]
    /\ pos' = pos + 1

ReadChar ==
    /\ Reading /\ More /\ NextChar # Newline
    /\ Store
    /\ UNCHANGED <<conns, peerVars, pc, start, lines, past>>

(* recv_line returns pos, with b in the buffer and the stream used up to   *)
(* next.  The caller leaves its loop at an empty line and at QUIT.         *)
Return(kind, b, next) ==
    /\ buf' = b /\ start' = next /\ pos' = 0
    /\ IF pos = 0
         THEN pc' = "idle" /\ UNCHANGED <<lines, past>>
         ELSE /\ lines' = Append(lines, [first |-> start + 1, len |-> pos, kind |-> kind,
                                         text |-> CString(b)])
              /\ past' = past \cup {CString(b)}
              /\ pc' = IF CString(b)[1] = Quit THEN "idle" ELSE "recv"
    /\ UNCHANGED <<conns, peerVars>>

ReadNewline_Unterminated ==
    /\ Reading /\ More /\ NextChar = Newline
    /\ Return("newline", buf, start + pos + 1)

ReadNewline ==
    /\ Reading /\ More /\ NextChar = Newline
    /\ Return("newline", [buf EXCEPT ![pos] = Nul], start + pos + 1)

ReadFull_Early ==
    /\ pc = "recv" /\ pos = Limit - 1
    /\ Return("full", [buf EXCEPT ![pos] = Nul], start + pos)

ReadFull_DropsChar ==
    /\ pc = "recv" /\ pos = Limit /\ start + pos < Len(stream)
    /\ Return("full", [buf EXCEPT ![pos] = Nul], start + pos + 1)

ReadFull_AtEndOnly ==
    /\ pc = "recv" /\ pos = Limit /\ end # "open"
    /\ Return("full", [buf EXCEPT ![pos] = Nul], start + pos)

(* The buffer is full: the loop ends without reading. *)
ReadFull ==
    /\ pc = "recv" /\ pos = Limit
    /\ Return("full", [buf EXCEPT ![pos] = Nul], start + pos)

(* read returns 0 or an error.  What was read so far counts as a line, but *)
(* nothing ends it in the buffer.                                          *)
ReadEnd ==
    /\ Reading
    /\ end # "open" /\ ~More
    /\ Return("end", buf, start + pos)

ThreadNext == ReadChar \/ ReadNewline \/ ReadFull \/ ReadEnd

Next ==
    \/ \E ch \in Chars \cup {Newline} : PeerSend(ch)
    \/ PeerEnd
    \/ Take
    \/ ThreadNext

Spec == Init /\ [][Next]_vars

(* The operating system runs a thread whose read can return. *)
FairSpec == Spec /\ WF_vars(ThreadNext)
-----------------------------------------------------------------------------
Line == [first : Nat \ {0}, len : 1 .. Limit, kind : {"newline", "full", "end"},
         text : Seq(Byte)]

(* The types; in particular recv_line never writes past the buffer. *)
TypeOK ==
    /\ conns \in Nat
    /\ stream \in Seq(Chars \cup {Newline}) /\ end \in {"open", "closed", "reset"}
    /\ pc \in {"idle", "recv"}
    /\ start \in Nat /\ pos \in 0 .. Limit /\ start + pos <= Len(stream)
    /\ buf \in [0 .. Limit -> Byte]
    /\ lines \in Seq(Line) /\ past \subseteq Seq(Byte)

(* The place in the stream after the line l. *)
After(l) == l.first + l.len + (IF l.kind = "newline" THEN 1 ELSE 0)

(* The lines that recv_line returned lie side by side in the stream: no    *)
(* character is lost between two of them, and none is in both.             *)
LinesTile ==
    /\ \A i \in DOMAIN lines :
         lines[i].first = IF i = 1 THEN 1 ELSE After(lines[i - 1])
    /\ pc = "recv" =>
         start + 1 = IF lines = << >> THEN 1 ELSE After(lines[Len(lines)])

(* The text of l is what is in the stream at the place of l. *)
AsSent(l) ==
    /\ l.len <= Len(l.text) /\ After(l) <= Len(stream) + 1
    /\ \A k \in 1 .. l.len : l.text[k] = stream[l.first + k - 1] /\ l.text[k] \in Chars
    /\ l.kind # "end" => Len(l.text) = l.len
    /\ l.kind = "newline" => stream[l.first + l.len] = Newline

(* What the parser sees of a line is what the peer sent, with no newline   *)
(* in it, whatever was in the buffer before.  Only a line that the end of  *)
(* the stream cut off may be followed by something else.                   *)
LineAsSent == \A i \in DOMAIN lines : AsSent(lines[i])

(* A line of Limit characters or more does not fit. *)
Fits == \A i \in 1 .. Len(stream) - Limit + 1 :
          \E j \in i .. i + Limit - 1 : stream[j] = Newline

(* As long as the peer's lines fit, the lines that recv_line returns are   *)
(* the peer's lines: each begins where one of them begins, and none is cut *)
(* off by the buffer.                                                      *)
WholeLines ==
    Fits => \A i \in DOMAIN lines :
              /\ lines[i].kind # "full"
              /\ lines[i].first = 1 \/ stream[lines[i].first - 1] = Newline

(* The buffer behind the present line holds what an earlier line of this   *)
(* thread had in the same place, on this connection or another one.  This  *)
(* is what follows a line that the end of the stream cut off.              *)
StaleBytes ==
    \A i \in pos .. Limit :
      \/ buf[i] \in {Nul, Junk}
      \/ \E t \in past : i < Len(t) /\ buf[i] = t[i + 1]

(* A line that the peer has completed is returned, unless the connection   *)
(* ends before it.                                                         *)
LineArrives ==
    \A i \in 1 .. MaxSent :
      (pc = "recv" /\ i <= Len(stream) /\ stream[i] = Newline)
        ~> (start >= i \/ pc = "idle")
=============================================================================
