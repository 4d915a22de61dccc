---------------------------- MODULE ReplyService ----------------------------
(***************************************************************************)
(* What the server promises a peer about the replies on its connection,    *)
(* with timeouts, lost responses and failed allocations: there is at most  *)
(* one reply for each line that was read, a response is to a line that was *)
(* read before, and no line is responded to twice.                         *)
(***************************************************************************)
EXTENDS Integers, Sequences

CONSTANTS Clients, TimedOut, NoMemory

VARIABLES read,  \* how many lines of each client were read
          out    \* the replies to each client; n > 0 responds to line n

vars == <<read, out>>

Init ==
    /\ read = [c \in Clients |-> 0]
    /\ out = [c \in Clients |-> << >>]

Open(c, k) == {n \in 1 .. k : \A i \in DOMAIN out[c] : out[c][i] # n}

(* a reply to c, of whose lines k have been read *)
Reply(c, k) ==
    /\ Len(out[c]) < k
    /\ \E r \in Open(c, k) \cup {TimedOut, NoMemory} :
         out' = [out EXCEPT ![c] = Append(@, r)]

Read(c) == read' = [read EXCEPT ![c] = @ + 1] /\ UNCHANGED out

Answer(c) == UNCHANGED read /\ Reply(c, read[c])

(* a line that is refused as soon as it is read *)
ReadAndAnswer(c) == read' = [read EXCEPT ![c] = @ + 1] /\ Reply(c, read[c] + 1)

Next == \E c \in Clients : Read(c) \/ Answer(c) \/ ReadAndAnswer(c)

Spec == Init /\ [][Next]_vars
=============================================================================
