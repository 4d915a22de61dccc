----------------------------- MODULE MCSession -----------------------------
(* Instances of Session for TLC: two programs. *)
EXTENDS Session

CONSTANTS c1, c2

Req(c, cmd, u, ok) ==
    [by |-> c, cmd |-> cmd, user |-> u, ok |-> ok, cut |-> FALSE, tmp |-> "f"]

(* The first program asks for everything: a user who is let in, one who is *)
(* refused, one of each of the other commands, and one that is cut off.    *)
(* The second one uploads a file of the same name.                         *)
AllRequests ==
    {Req(c1, "login", "u", TRUE), Req(c1, "signup", "v", FALSE),
     Req(c1, "upload", "u", TRUE), Req(c1, "download", "u", TRUE),
     Req(c1, "list", "u", TRUE), [Req(c1, "delete", "u", TRUE) EXCEPT !.cut = TRUE],
     Req(c2, "upload", "v", TRUE)}

(* The first program logs in and lists; the second one sends a command     *)
(* that is cut off, and keeps the client thread if it is the first to have *)
(* it.                                                                     *)
FewRequests ==
    {Req(c1, "login", "u", TRUE), Req(c1, "list", "u", TRUE),
     [Req(c2, "login", "v", FALSE) EXCEPT !.cut = TRUE]}

Downloads == {Req(c1, "login", "u", TRUE), Req(c1, "download", "u", TRUE)}
=============================================================================
