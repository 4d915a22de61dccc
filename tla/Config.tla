------------------------------- MODULE Config -------------------------------
(***************************************************************************)
(* How the server reads its configuration (config.c), once, before any     *)
(* thread runs.                                                            *)
(*                                                                         *)
(* A line is what one fgets returns, without the end of line: a sequence   *)
(* of tokens, which are words, "=", "#" and " " (a blank or a tab).  A     *)
(* line of more than 255 characters arrives as several, and so does a long *)
(* comment, whose rest is no comment to config_init.                       *)
(***************************************************************************)
EXTENDS Integers, Sequences, FiniteSetsExt, SequencesExt

set_default_config ==
    [use_persistent_storage |-> TRUE, storage_path |-> <<"./storage">>,
     database_file |-> <<"users.db">>]

(* The first field of s that is not empty, << >> if there is none, and     *)
(* what follows the delimiter after it.                                    *)
strtok(s) ==
    LET field == {k \in DOMAIN s : s[k] # "="}
        from == Min(field)
        to == Min({k \in from .. Len(s) : s[k] = "="} \cup {Len(s) + 1})
    IN  IF field = {} THEN [token |-> << >>, rest |-> << >>]
        ELSE [token |-> SubSeq(s, from, to - 1), rest |-> SubSeq(s, to + 1, Len(s))]

trim_whitespace(s) ==
    LET word == {k \in DOMAIN s : s[k] # " "}
    IN  IF word = {} THEN << >> ELSE SubSeq(s, Min(word), Max(word))

(* One pass of the loop. *)
ReadLine(config, line) ==
    LET first == strtok(line)
        second == strtok(first.rest)
        key == trim_whitespace(first.token)
        value == trim_whitespace(second.token)
        skipped == line = << >> \/ line[1] = "#" \/ second.token = << >>
    IN  CASE ~skipped /\ key = <<"use_persistent_storage">> ->
               [config EXCEPT !.use_persistent_storage = (value = <<"1">>)]
          [] ~skipped /\ key = <<"storage_path">> -> [config EXCEPT !.storage_path = value]
          [] ~skipped /\ key = <<"database_file">> -> [config EXCEPT !.database_file = value]
          [] OTHER -> config

(* The configuration after the lines of the file; without a file there are *)
(* no lines.                                                               *)
config_init(lines) == FoldLeft(ReadLine, set_default_config, lines)

config_use_persistent_storage(lines) == config_init(lines).use_persistent_storage
=============================================================================
