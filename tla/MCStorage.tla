----------------------------- MODULE MCStorage -----------------------------
(* Instances of Storage for TLC. *)
EXTENDS Storage, TLC

Symmetry == Permutations(Workers) \cup Permutations(Passwords)

Cmd(type, u, p) ==
    [type |-> type, user |-> u, path |-> p, pass |-> None, tmp |-> 1, large |-> FALSE]

(* Two users and one name. *)
a == <<"a">>
b == <<"b">>
c == <<"c">>

OneUser == {a}
TwoUsers == {a, b}
OneName == {c}

(* Two SIGNUPs of one name with different passwords, and the LOGINs. *)
AccountCommands ==
    {[Cmd(t, a, << >>) EXCEPT !.pass = p] : t \in {"SIGNUP", "LOGIN"}, p \in Passwords}

(* Everything that is done to one file, an upload of another user to the   *)
(* same file, and one to a file that is in no user's directory.            *)
FileCommands ==
    {Cmd("UPLOAD", a, c), Cmd("DOWNLOAD", a, c), Cmd("DELETE", a, c),
     Cmd("DELETE", a, << >>), Cmd("UPLOAD", a, << >>), Cmd("LIST", a, << >>),
     [Cmd("UPLOAD", a, c) EXCEPT !.large = TRUE],
     Cmd("UPLOAD", b, Upwards(<<a, c>>)), Cmd("UPLOAD", a, Upwards(<<Root, c>>))}

(* Uploads of one file only. *)
UploadCommands == {[Cmd("UPLOAD", a, c) EXCEPT !.tmp = s] : s \in 1 .. Tmps}

AllCommands == FileCommands \cup AccountCommands
-----------------------------------------------------------------------------
(* The configuration that comes with the server. *)
Conf == INSTANCE Config

ConfigIni ==
    << <<"#", " ", "text">>, <<"#", " ", "use_persistent_storage", " ", "1">>,
       <<"#", " ", "text">>,
       <<"use_persistent_storage", "=", "1">>, << >>,
       <<"#", " ", "use_persistent_storage", "=", "1", "text">>,
       <<"storage_path", "=", "./storage">>, << >>,
       <<"#", " ", "use_persistent_storage", "=", "1", "text">>,
       <<"database_file", "=", "users.db">> >>

ASSUME ShippedConfig == Persistent = Conf!config_use_persistent_storage(ConfigIni)

(* A setting takes effect with blanks anywhere around its words, the last  *)
(* one wins, "1" alone means persistent, and comments and other lines make *)
(* no difference.                                                          *)
Blanks == {<< >>, <<" ">>, <<" ", " ">>}
Values == {<<"0">>, <<"1">>, <<"1", " ", "1">>, <<"yes">>}

Setting(p, q, value) ==
    p \o <<"use_persistent_storage">> \o q \o <<"=">> \o p \o value \o q

Others ==
    {<< >>, <<" ">>, <<"#", "use_persistent_storage", "=", "0">>,
     <<" ", "#", "use_persistent_storage", "=", "0">>, <<"use_persistent_storage">>,
     <<"use_persistent_storage", "=">>, <<"text", "=", "use_persistent_storage", "=", "0">>}

ASSUME ConfigAssumption ==
    \A p, q \in Blanks : \A v, w \in Values : \A o \in Others :
      LET lines == <<Setting(p, q, v), o, Setting(q, p, w), o>>
      IN  /\ Conf!config_use_persistent_storage(lines) = (w = <<"1">>)
          /\ Conf!config_use_persistent_storage(<<o, o>>) = TRUE
          /\ Conf!config_init(lines).storage_path = <<"./storage">>
-----------------------------------------------------------------------------
(* Decoding undoes encoding, on short keys and buffers (CryptoProofs has   *)
(* it for all of them).                                                    *)
Crypt == INSTANCE Crypto

SomeBytes == {[k \in 0 .. 7 |-> 0], [k \in 0 .. 7 |-> 1], [k \in 0 .. 7 |-> k % 2]}

ShortBuffers == UNION {[1 .. n -> SomeBytes] : n \in 0 .. 3}

ASSUME CryptoAssumption ==
    \A key \in ShortBuffers \ {<< >>}, s, t \in ShortBuffers :
      Crypt!DownloadLoop(Crypt!UploadLoop(<<s, t>>, key), key) = <<s, t>>
=============================================================================
