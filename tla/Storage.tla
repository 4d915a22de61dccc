------------------------------ MODULE Storage ------------------------------
(***************************************************************************)
(* What the workers do to users and files: the switch of                   *)
(* worker_thread_main, the user store (user_db.c), the stored files and    *)
(* the temporary files of downloads (fs.c), the temporary files that       *)
(* clients leave for their uploads (client_program.c), and restarts of the *)
(* server on the storage it left.                                          *)
(*                                                                         *)
(* A step is one critical section of the user store, one system call, or   *)
(* one pass of a copy loop.  The lock that user_store_lock_user returns is *)
(* a mutex of a new object which is never locked, so it excludes nobody.   *)
(* A file is a sequence of blocks of 8192 bytes (the unit of both loops).  *)
(* Paths are not checked: "../u/n" is the file n of another user u, "../n" *)
(* one beside the directories of the users.  Longer paths, paths that name *)
(* a directory, users with a "/" in their names and "../users.db", the     *)
(* database of the accounts itself, are left out, as are what LIST returns *)
(* and the text of messages.                                               *)
(***************************************************************************)
EXTENDS Integers, Sequences, FiniteSets

CONSTANTS Workers,      \* the threads that run worker_thread_main
          Users,        \* names are sequences of characters
          FileNames,
          Passwords,
          Commands,     \* the tasks that clients submit
          Blocks,       \* how many blocks an uploaded file has
          Tmps,         \* how many temporary files for uploads there are at first
          Persistent,   \* use_persistent_storage of config.ini
          MaxTasks,     \* bound on the tasks carried out
          Seconds,      \* what time(NULL) may return
          MaxMishaps,   \* bound on failing calls, restarts and rewritten files together
          None          \* no password, no file

(* The directories: those of the users, and the one these are in. *)
Root == << >>
Dirs == Users \cup {Root}

(* A stored file: the directory it is in, and its name there. *)
Files == Dirs \X FileNames

(* The path that leads from a user's directory to f by way of "..". *)
Upwards(f) ==
    <<"..", "/">> \o (IF f[1] = Root THEN f[2] ELSE f[1] \o <<"/">> \o f[2])

Paths == FileNames \cup {Upwards(f) : f \in Files}

Command ==
    [type : {"SIGNUP", "LOGIN", "UPLOAD", "DOWNLOAD", "DELETE", "LIST"},
     user : Users, path : Paths \cup {<< >>}, pass : Passwords \cup {None},
     tmp : 1 .. Tmps,   \* the temporary file of an UPLOAD
     large : BOOLEAN]   \* size > 10 MB

ASSUME StorageAssumption ==
    /\ Commands \subseteq Command
    /\ \A cmd \in Commands : cmd.type = "SIGNUP" => cmd.pass \in Passwords
    /\ << >> \notin Paths \cup Users
    /\ Users \cap FileNames = {}
    /\ \A s \in Users \cup FileNames : \A i \in DOMAIN s : s[i] # "/"
    /\ Persistent \in BOOLEAN
    /\ {Blocks, Tmps, MaxTasks, MaxMishaps} \subseteq Nat
    /\ None \notin Passwords /\ None \notin Int

Ids == 1 .. MaxTasks    \* the tasks, in the order in which they are begun

(* What a file holds: the n-th copy that clients made, n > 0, or one of     *)
(* these.                                                                  *)
Versions == 1 .. Tmps + MaxMishaps
Absent == 0
Mixed == -1   \* nothing is promised

VARIABLES
    accounts,             \* the password of each user in the store, or None
    dirs,                 \* the users whose directory exists
    link, disk,           \* the file object of each name; the contents of file objects
    temp,                 \* the temporary files of downloads
    source, copies,       \* what the temporary files for uploads hold; the copies made
    src, holds,           \* what each upload reads; those whose file still has its name
    pc, op, reply,        \* each worker: its place, its task, its last reply
    started, failures, restarts,
    granted,              \* history: the SIGNUPs of each user that were answered OK
    expect                \* history: the copy that each file should hold

storeVars == <<accounts, dirs>>
fileVars == <<link, disk, temp>>
sourceVars == <<source, copies>>
readVars == <<src, holds>>
workVars == <<pc, op, reply>>
countVars == <<started, restarts>>
histVars == <<granted, expect>>
vars == <<storeVars, fileVars, sourceVars, readVars, workVars, countVars, failures,
          histVars>>
-----------------------------------------------------------------------------
(* The blocks.  xor_cipher with a fixed key, which starts anew with every  *)
(* block, is undone by applying it again.                                  *)
Block == [of : Versions \cup {Mixed}, i : 1 .. Blocks, encoded : BOOLEAN]
Hole == [encoded |-> FALSE]   \* zeros between the end of a file and a later write

encode_data(b) == [b EXCEPT !.encoded = ~@]

decode_data_Forgotten(b) == b

decode_data(b) == encode_data(b)

(* The n-th copy, and its stored form. *)
Source(n) == [i \in 1 .. Blocks |-> [of |-> n, i |-> i, encoded |-> FALSE]]
Stored(n) == [i \in 1 .. Blocks |-> encode_data(Source(n)[i])]

(* Contents s after a write of block b at place i. *)
WriteAt(s, i, b) ==
    [j \in 1 .. (IF i > Len(s) THEN i ELSE Len(s)) |->
        IF j = i THEN b ELSE IF j <= Len(s) THEN s[j] ELSE Hole]

(* The name of the temporary file of a download, but for the time in it:   *)
(* "user_path" with some characters replaced.                              *)
Replaced == {"/", "\\", ":", "*", "?", "\"", "<", ">", "|"}

TempName(u, p) ==
    LET s == u \o <<"_">> \o p
    IN  [i \in 1 .. Len(s) |-> IF s[i] \in Replaced THEN "_" ELSE s[i]]

TempNames ==
    {TempName(cmd.user, cmd.path) : cmd \in {d \in Commands : d.type = "DOWNLOAD"}}
      \X Seconds

(* The file that root/u/p is: p is appended to the user's directory as it  *)
(* is, and the system follows the "..".                                    *)
build_user_path(u, p) ==
    IF \E f \in Files : p = Upwards(f) THEN CHOOSE f \in Files : p = Upwards(f)
                                       ELSE <<u, p>>

(* The user of w's task, the file it is about, and whether the system can  *)
(* follow the path: it leads through the user's own directory.             *)
User(w) == op[w].cmd.user
File(w) == build_user_path(User(w), op[w].cmd.path)
Reaches(w) == User(w) \in dirs
Active(w) == pc[w] # "idle"

(* A call fails. *)
Mishap == failures + restarts + copies < Tmps + MaxMishaps
Fail == Mishap /\ failures' = failures + 1
NoFailure == UNCHANGED failures

At(w, type, l) == pc[w] = l /\ op[w].cmd.type = type
Goto(w, l) == pc' = [pc EXCEPT ![w] = l] /\ UNCHANGED <<op, reply, readVars>>

NoOp == [cmd |-> None, id |-> 0, file |-> 0, i |-> 0, temp |-> None,
         named |-> FALSE, alone |-> TRUE]   \* no task

(* send_response, and on to the next task *)
Done(w, r) == reply' = [reply EXCEPT ![w] = r] /\ pc' = [pc EXCEPT ![w] = "idle"]

Reply(w, r) ==
    /\ Done(w, r)
    /\ src' = [src EXCEPT ![w] = Mixed] /\ holds' = holds \ {w}
    /\ op' = [op EXCEPT ![w] = NoOp]
-----------------------------------------------------------------------------
Op == [cmd : Commands \cup {None}, id : Nat, file : Nat, i : Nat,
       temp : TempNames \cup {None}, named : BOOLEAN, alone : BOOLEAN]

(* user_store_create, on the users and directories of an earlier run *)
Init ==
    /\ accounts \in (IF Persistent THEN [Users -> Passwords \cup {None}]
                                   ELSE [Users -> {None}])
    /\ dirs = {Root} \cup {u \in Users : accounts[u] # None}
    /\ link = [f \in Files |-> None]
    /\ disk = [n \in Ids |-> << >>]
    /\ temp = [t \in TempNames |-> None]
    /\ source = [s \in 1 .. Tmps |-> s] /\ copies = Tmps
    /\ src = [w \in Workers |-> Mixed] /\ holds = {}
    /\ pc = [w \in Workers |-> "idle"]
    /\ op = [w \in Workers |-> NoOp]
    /\ reply = [w \in Workers |-> "none"]
    /\ started = 0 /\ failures = 0 /\ restarts = 0
    /\ granted = [u \in Users |-> IF accounts[u] = None THEN 0 ELSE 1]
    /\ expect = [f \in Files |-> Absent]

(* a, an operation on a file, disturbs b: it changes the file, by whatever *)
(* path, or both are downloads to temporary files of the same name.        *)
Disturbs(a, b) ==
    \/ /\ a.type \in {"UPLOAD", "DELETE"}
       /\ build_user_path(a.user, a.path) = build_user_path(b.user, b.path)
    \/ /\ a.type = "DOWNLOAD" /\ b.type = "DOWNLOAD"
       /\ TempName(a.user, a.path) = TempName(b.user, b.path)

(* queue_pop: the worker begins a task. *)
Begin(w, cmd) ==
    /\ ~Active(w) /\ started < MaxTasks
    /\ started' = started + 1
    /\ pc' = [pc EXCEPT ![w] = "begin"]
    /\ op' = [v \in Workers |->
                IF v = w
                  THEN [NoOp EXCEPT !.cmd = cmd, !.id = started + 1,
                                    !.alone = \A x \in Workers \ {w} :
                                                Active(x) => ~Disturbs(op[x].cmd, cmd)]
                  ELSE IF Active(v) /\ Disturbs(cmd, op[v].cmd)
                         THEN [op[v] EXCEPT !.alone = FALSE]
                         ELSE op[v]]
    /\ reply' = [reply EXCEPT ![w] = "none"]
    /\ UNCHANGED <<storeVars, fileVars, sourceVars, readVars, restarts, failures,
                   histVars>>
-----------------------------------------------------------------------------
(* SIGNUP *)

user_store_signup_Unchecked(w) ==
    /\ At(w, "SIGNUP", "begin")
    /\ accounts' = [accounts EXCEPT ![User(w)] = op[w].cmd.pass]
    /\ Goto(w, "mkdir")
    /\ UNCHANGED <<dirs, fileVars, sourceVars, countVars, failures, histVars>>

(* user_store_signup, its critical section: look for the name, insert it. *)
user_store_signup(w) ==
    /\ At(w, "SIGNUP", "begin")
    /\ \/ /\ accounts[User(w)] = None /\ NoFailure
          /\ accounts' = [accounts EXCEPT ![User(w)] = op[w].cmd.pass]
          /\ Goto(w, "mkdir")
       \/ /\ \/ accounts[User(w)] # None /\ NoFailure
             \/ accounts[User(w)] = None /\ Fail
          /\ Reply(w, "err")
          /\ UNCHANGED accounts
    /\ UNCHANGED <<dirs, fileVars, sourceVars, countVars, histVars>>

(* After the unlock: create the directory.  A failure of mkdir is ignored. *)
SignupMkdir(w) ==
    /\ At(w, "SIGNUP", "mkdir")
    /\ \/ dirs' = dirs \cup {User(w)} /\ NoFailure
       \/ UNCHANGED dirs /\ Fail
    /\ Reply(w, "ok")
    /\ granted' = [granted EXCEPT ![User(w)] = @ + 1]
    /\ UNCHANGED <<accounts, fileVars, sourceVars, countVars, expect>>
-----------------------------------------------------------------------------
(* The other commands first look the user up. *)

user_store_lock_user_Unchecked(w) ==
    /\ pc[w] = "begin" /\ op[w].cmd.type # "SIGNUP"
    /\ IF op[w].cmd.path = << >> /\ op[w].cmd.type \in {"UPLOAD", "DOWNLOAD"}
         THEN Reply(w, "err") ELSE Goto(w, "found")
    /\ UNCHANGED <<storeVars, fileVars, sourceVars, countVars, failures, histVars>>

(* user_store_lock_user, after the check for an empty path. *)
user_store_lock_user(w) ==
    /\ pc[w] = "begin" /\ op[w].cmd.type # "SIGNUP"
    /\ \/ /\ op[w].cmd.path = << >> /\ op[w].cmd.type \in {"UPLOAD", "DOWNLOAD"}
          /\ NoFailure /\ Reply(w, "err")
       \/ /\ op[w].cmd.path # << >> \/ op[w].cmd.type \notin {"UPLOAD", "DOWNLOAD"}
          /\ \/ accounts[User(w)] # None /\ NoFailure /\ Goto(w, "found")
             \/ accounts[User(w)] = None /\ NoFailure /\ Reply(w, "err")
             \/ accounts[User(w)] # None /\ Fail /\ Reply(w, "err")
    /\ UNCHANGED <<storeVars, fileVars, sourceVars, countVars, histVars>>

user_store_login(w) ==
    /\ At(w, "LOGIN", "found")
    /\ \/ NoFailure /\ Reply(w, IF accounts[User(w)] = op[w].cmd.pass THEN "ok" ELSE "err")
       \/ Fail /\ Reply(w, "err")
    /\ UNCHANGED <<storeVars, fileVars, sourceVars, countVars, histVars>>

(* opendir, readdir *)
fs_list(w) ==
    /\ At(w, "LIST", "found")
    /\ \/ NoFailure /\ Reply(w, IF User(w) \in dirs THEN "ok" ELSE "err")
       \/ Fail /\ Reply(w, "err")
    /\ UNCHANGED <<storeVars, fileVars, sourceVars, countVars, histVars>>

(* remove.  Without a path it is about the user's directory, and removes   *)
(* that if it is empty.                                                    *)
fs_delete(w) ==
    /\ At(w, "DELETE", "found")
    /\ \/ /\ op[w].cmd.path # << >> /\ Reaches(w) /\ link[File(w)] # None /\ NoFailure
          /\ link' = [link EXCEPT ![File(w)] = None]
          /\ expect' = [expect EXCEPT ![File(w)] = IF op[w].alone THEN Absent ELSE Mixed]
          /\ Reply(w, "ok") /\ UNCHANGED dirs
       \/ /\ op[w].cmd.path = << >> /\ Reaches(w) /\ NoFailure
          /\ \A n \in FileNames : link[<<User(w), n>>] = None
          /\ dirs' = dirs \ {User(w)}
          /\ Reply(w, "ok") /\ UNCHANGED <<link, expect>>
       \/ /\ \/ /\ op[w].cmd.path # << >> /\ NoFailure
                /\ ~Reaches(w) \/ link[File(w)] = None
             \/ /\ op[w].cmd.path = << >> /\ NoFailure
                /\ ~Reaches(w) \/ \E n \in FileNames : link[<<User(w), n>>] # None
             \/ Fail
          /\ Reply(w, "err") /\ UNCHANGED <<dirs, link, expect>>
    /\ UNCHANGED <<accounts, disk, temp, sourceVars, countVars, granted>>
-----------------------------------------------------------------------------
(* The temporary files for uploads.  upload_file of client_program.c names *)
(* them by the file and the second, so that programs may share one; and    *)
(* the server takes any name that an UPLOAD line gives.  Whatever clients  *)
(* do to such a file while a worker has it open, the worker reads.         *)
Holders(s) == {w \in holds : op[w].cmd.tmp = s}

(* open(tmpfile, ... O_TRUNC), and the writes that follow *)
ClientWrites(s) ==
    /\ Mishap
    /\ copies' = copies + 1
    /\ source' = [source EXCEPT ![s] = Mixed]
    /\ src' = [w \in Workers |-> IF w \in Holders(s) THEN Mixed ELSE src[w]]
    /\ UNCHANGED <<storeVars, fileVars, holds, workVars, countVars, failures, histVars>>

(* The file is written: what it holds then, of one client or of several    *)
(* who wrote to it at the same time, is the next copy.                     *)
ClientHasWritten(s) ==
    /\ source[s] = Mixed
    /\ source' = [source EXCEPT ![s] = copies]
    /\ UNCHANGED <<storeVars, fileVars, copies, readVars, workVars, countVars, failures,
                   histVars>>

(* unlink(tmpfile), in the client or in the worker: those who have the     *)
(* file open keep it, but writes to the name no longer reach them.         *)
Unlink(s) == source' = [source EXCEPT ![s] = None]

ClientUnlinks(s) ==
    /\ source[s] # None /\ Unlink(s)
    /\ holds' = holds \ Holders(s)
    /\ UNCHANGED <<storeVars, fileVars, copies, src, workVars, countVars, failures,
                   histVars>>

upload_file(s) == ClientWrites(s) \/ ClientHasWritten(s) \/ ClientUnlinks(s)
-----------------------------------------------------------------------------
(* UPLOAD *)

(* The limit on the size.  The User is fresh from calloc, and nothing sets *)
(* its priority: it is always lower than PRIORITY_HIGH.  Then fopen, to    *)
(* see whether the temporary file is there.                                *)
UploadCheck(w) ==
    /\ At(w, "UPLOAD", "found")
    /\ \/ op[w].cmd.large /\ NoFailure /\ Reply(w, "too large")
       \/ ~op[w].cmd.large /\ source[op[w].cmd.tmp] = None /\ NoFailure /\ Reply(w, "err")
       \/ ~op[w].cmd.large /\ Fail /\ Reply(w, "err")
       \/ ~op[w].cmd.large /\ source[op[w].cmd.tmp] # None /\ NoFailure /\ Goto(w, "mkdir")
    /\ UNCHANGED <<storeVars, fileVars, sourceVars, countVars, histVars>>

(* fs_upload: mkdir *)
UploadMkdir(w) ==
    /\ At(w, "UPLOAD", "mkdir")
    /\ \/ NoFailure /\ dirs' = dirs \cup {User(w)} /\ Goto(w, "source")
       \/ Fail /\ UNCHANGED dirs /\ Reply(w, "err")
    /\ UNCHANGED <<accounts, fileVars, sourceVars, countVars, histVars>>

(* fopen(tmp_src, "rb"): the file may have gone in the meantime. *)
UploadOpenSource(w) ==
    LET s == op[w].cmd.tmp
    IN  /\ At(w, "UPLOAD", "source")
        /\ \/ /\ source[s] # None /\ NoFailure
              /\ src' = [src EXCEPT ![w] = source[s]] /\ holds' = holds \cup {w}
              /\ pc' = [pc EXCEPT ![w] = "open"]
              /\ UNCHANGED <<op, reply>>
           \/ /\ (source[s] = None /\ NoFailure) \/ (source[s] # None /\ Fail)
              /\ Reply(w, "err")
        /\ UNCHANGED <<storeVars, fileVars, sourceVars, countVars, histVars>>

UploadOpen_NoReset(w) ==
    LET n == IF link[File(w)] = None THEN op[w].id ELSE link[File(w)]
    IN  /\ At(w, "UPLOAD", "open") /\ Reaches(w) /\ File(w)[1] \in dirs
        /\ link' = [link EXCEPT ![File(w)] = n]
        /\ disk' = [disk EXCEPT ![n] = << >>]
        /\ pc' = [pc EXCEPT ![w] = "copy"]
        /\ op' = [op EXCEPT ![w].file = n]
        /\ UNCHANGED <<storeVars, temp, sourceVars, readVars, reply, countVars, failures,
                       histVars>>

(* fopen(dst, "wb"): the file is created, or cut to length zero. *)
UploadOpen(w) ==
    LET n == IF link[File(w)] = None THEN op[w].id ELSE link[File(w)]
        reached == Reaches(w) /\ File(w)[1] \in dirs
    IN  /\ At(w, "UPLOAD", "open")
        /\ \/ /\ reached /\ NoFailure
              /\ link' = [link EXCEPT ![File(w)] = n]
              /\ disk' = [disk EXCEPT ![n] = << >>]
              /\ pc' = [pc EXCEPT ![w] = "copy"]
              /\ op' = [op EXCEPT ![w].file = n, ![w].i = 1]
              /\ UNCHANGED <<reply, readVars>>
           \/ /\ (~reached /\ NoFailure) \/ Fail
              /\ Reply(w, "err") /\ UNCHANGED <<link, disk>>
        /\ UNCHANGED <<storeVars, temp, sourceVars, countVars, histVars>>

UploadCopy_Unchecked(w) ==
    LET i == op[w].i
    IN  /\ At(w, "UPLOAD", "copy") /\ i <= Blocks
        /\ \/ /\ NoFailure
              /\ disk' = [disk EXCEPT ![op[w].file] =
                            WriteAt(@, i, encode_data(Source(src[w])[i]))]
           \/ Fail /\ UNCHANGED disk
        /\ op' = [op EXCEPT ![w].i = i + 1]
        /\ UNCHANGED <<storeVars, link, temp, sourceVars, readVars, pc, reply, countVars,
                       histVars>>

(* One pass of the loop: fread, encode_data, fwrite. *)
UploadCopy(w) ==
    LET i == op[w].i
    IN  /\ At(w, "UPLOAD", "copy") /\ i <= Blocks
        /\ \/ /\ NoFailure
              /\ disk' = [disk EXCEPT ![op[w].file] =
                            WriteAt(@, i, encode_data(Source(src[w])[i]))]
              /\ op' = [op EXCEPT ![w].i = i + 1]
              /\ UNCHANGED <<pc, reply, readVars>>
           \/ Fail /\ Goto(w, "remove") /\ UNCHANGED disk
        /\ UNCHANGED <<storeVars, link, temp, sourceVars, countVars, histVars>>

(* The end of the temporary file, which may come early when a client       *)
(* writes it anew; fclose.                                                 *)
UploadClose(w) ==
    /\ At(w, "UPLOAD", "copy") /\ (op[w].i > Blocks \/ src[w] = Mixed)
    /\ \/ /\ NoFailure /\ Goto(w, "unlink")
          /\ expect' = [expect EXCEPT ![File(w)] = IF op[w].alone THEN src[w] ELSE Mixed]
       \/ Fail /\ Goto(w, "remove") /\ UNCHANGED expect
    /\ UNCHANGED <<storeVars, fileVars, sourceVars, countVars, granted>>

(* unlink(t->tmpfile): whatever file has the name now *)
UploadUnlink(w) ==
    LET s == op[w].cmd.tmp
    IN  /\ At(w, "UPLOAD", "unlink")
        /\ Done(w, "ok")
        /\ \/ NoFailure /\ Unlink(s) /\ holds' = holds \ (Holders(s) \cup {w})
           \/ Fail /\ UNCHANGED source /\ holds' = holds \ {w}
        /\ src' = [src EXCEPT ![w] = Mixed]
        /\ op' = [op EXCEPT ![w] = NoOp]
        /\ UNCHANGED <<storeVars, fileVars, copies, countVars, histVars>>

(* remove(dst) after an error: whatever file has the name now.  It may     *)
(* fail too, which nobody notices, and leave a part of the upload there.   *)
UploadRemove(w) ==
    /\ At(w, "UPLOAD", "remove")
    /\ \/ /\ Reaches(w)
          /\ link' = [link EXCEPT ![File(w)] = None]
          /\ expect' = [expect EXCEPT ![File(w)] = IF op[w].alone THEN Absent ELSE Mixed]
       \/ /\ UNCHANGED link
          /\ expect' = [expect EXCEPT ![File(w)] = Mixed]
    /\ Reply(w, "err")
    /\ UNCHANGED <<storeVars, disk, temp, sourceVars, countVars, failures, granted>>
-----------------------------------------------------------------------------
(* DOWNLOAD *)

(* fopen(path, "rb"): the worker keeps the file object. *)
DownloadOpen(w) ==
    /\ At(w, "DOWNLOAD", "found")
    /\ \/ /\ Reaches(w) /\ link[File(w)] # None /\ NoFailure
          /\ op' = [op EXCEPT ![w].file = link[File(w)]]
          /\ pc' = [pc EXCEPT ![w] = "open"]
          /\ UNCHANGED <<reply, readVars>>
       \/ /\ \/ ~Reaches(w) /\ NoFailure
             \/ link[File(w)] = None /\ NoFailure
             \/ Fail
          /\ Reply(w, "err")
    /\ UNCHANGED <<storeVars, fileVars, sourceVars, countVars, histVars>>

(* fopen(temp_path, "wb"), with time(NULL) in its name.  The clock may     *)
(* stand still between two downloads, or be set back.                      *)
DownloadTemp(w) ==
    /\ At(w, "DOWNLOAD", "open")
    /\ \/ \E k \in Seconds :
            LET t == <<TempName(User(w), op[w].cmd.path), k>>
            IN  /\ NoFailure
                /\ temp' = [temp EXCEPT ![t] = << >>]
                /\ op' = [op EXCEPT ![w].temp = t, ![w].named = TRUE, ![w].i = 1]
                /\ pc' = [pc EXCEPT ![w] = "copy"]
                /\ UNCHANGED <<reply, readVars>>
       \/ Fail /\ Reply(w, "err") /\ UNCHANGED temp
    /\ UNCHANGED <<storeVars, link, disk, sourceVars, countVars, histVars>>

(* remove(temp_path), which may fail too, and the error.  Another download *)
(* that has the same file open goes on to write to a file without a name.  *)
DownloadFail(w) ==
    /\ Fail /\ Done(w, "err")
    /\ \/ /\ temp' = [temp EXCEPT ![op[w].temp] = None]
          /\ op' = [v \in Workers |->
                      IF v = w THEN NoOp
                      ELSE IF op[v].temp = op[w].temp THEN [op[v] EXCEPT !.named = FALSE]
                      ELSE op[v]]
       \/ op' = [op EXCEPT ![w] = NoOp] /\ UNCHANGED temp
    /\ UNCHANGED readVars

(* One pass of the loop: fread, decode_data, fwrite. *)
DownloadCopy(w) ==
    LET i == op[w].i
        t == op[w].temp
        b == decode_data(disk[op[w].file][i])
    IN  /\ At(w, "DOWNLOAD", "copy") /\ i <= Len(disk[op[w].file])
        /\ \/ /\ NoFailure
              /\ temp' = IF op[w].named THEN [temp EXCEPT ![t] = WriteAt(@, i, b)] ELSE temp
              /\ op' = [op EXCEPT ![w].i = i + 1]
              /\ UNCHANGED <<pc, reply, readVars>>
           \/ DownloadFail(w)
        /\ UNCHANGED <<storeVars, link, disk, sourceVars, countVars, histVars>>

(* End of file: close both, and send the temporary file's name. *)
DownloadClose(w) ==
    /\ At(w, "DOWNLOAD", "copy") /\ op[w].i > Len(disk[op[w].file])
    /\ \/ NoFailure /\ Reply(w, "ok") /\ UNCHANGED temp
       \/ DownloadFail(w)
    /\ UNCHANGED <<storeVars, link, disk, sourceVars, countVars, histVars>>
-----------------------------------------------------------------------------
(* A worker writes to the file f, or is about to remove it. *)
Writing(w, f) ==
    /\ pc[w] \in {"copy", "remove"} /\ op[w].cmd.type = "UPLOAD"
    /\ File(w) = f

Restart_LosesAccounts ==
    /\ Mishap
    /\ restarts' = restarts + 1
    /\ accounts' = [u \in Users |-> None]
    /\ pc' = [w \in Workers |-> "idle"]
    /\ UNCHANGED <<dirs, fileVars, sourceVars, readVars, op, reply, started, failures,
                   histVars>>

(* The process is killed and started again.  SQLite keeps what was         *)
(* inserted; the users in memory are lost; files stay as they are.         *)
Restart ==
    /\ Mishap
    /\ restarts' = restarts + 1
    /\ accounts' = IF Persistent THEN accounts ELSE [u \in Users |-> None]
    /\ pc' = [w \in Workers |-> "idle"]
    /\ op' = [w \in Workers |-> NoOp]
    /\ src' = [w \in Workers |-> Mixed] /\ holds' = {}
    /\ reply' = [w \in Workers |-> "none"]
    /\ granted' = IF Persistent THEN granted ELSE [u \in Users |-> 0]
    /\ expect' = [f \in Files |-> IF \E w \in Workers : Writing(w, f) THEN Mixed
                                                                      ELSE expect[f]]
    /\ UNCHANGED <<dirs, fileVars, sourceVars, started, failures>>

(* The switch of worker_thread_main. *)
Case(w, type) == op[w].cmd.type = type

SIGNUP(w) == user_store_signup(w) \/ SignupMkdir(w)

LOGIN(w) == Case(w, "LOGIN") /\ (user_store_lock_user(w) \/ user_store_login(w))

UPLOAD(w) ==
    /\ Case(w, "UPLOAD")
    /\ \/ user_store_lock_user(w) \/ UploadCheck(w) \/ UploadMkdir(w)
       \/ UploadOpenSource(w) \/ UploadOpen(w) \/ UploadCopy(w) \/ UploadClose(w) \/ UploadUnlink(w)
       \/ UploadRemove(w)

DOWNLOAD(w) ==
    /\ Case(w, "DOWNLOAD")
    /\ \/ user_store_lock_user(w) \/ DownloadOpen(w) \/ DownloadTemp(w)
       \/ DownloadCopy(w) \/ DownloadClose(w)

DELETE(w) == Case(w, "DELETE") /\ (user_store_lock_user(w) \/ fs_delete(w))

LIST(w) == Case(w, "LIST") /\ (user_store_lock_user(w) \/ fs_list(w))

WorkerNext(w) ==
    \/ \E cmd \in Commands : Begin(w, cmd)
    \/ Active(w) /\ \/ SIGNUP(w) \/ LOGIN(w) \/ UPLOAD(w)
                    \/ DOWNLOAD(w) \/ DELETE(w) \/ LIST(w)

Next ==
    \/ \E w \in Workers : WorkerNext(w)
    \/ \E s \in 1 .. Tmps : upload_file(s)
    \/ Restart

Spec == Init /\ [][Next]_vars
-----------------------------------------------------------------------------
(* The types; in particular the place of a copy loop stays within the file. *)
TypeOK ==
    /\ accounts \in [Users -> Passwords \cup {None}]
    /\ dirs \subseteq Dirs
    /\ link \in [Files -> Ids \cup {None}]
    /\ disk \in [Ids -> Seq(Block \cup {Hole})]
    /\ DOMAIN temp = TempNames
    /\ source \in [1 .. Tmps -> Versions \cup {Mixed, None}]
    /\ copies \in Tmps .. Tmps + MaxMishaps
    /\ src \in [Workers -> Versions \cup {Mixed}] /\ holds \subseteq Workers
    /\ pc \in [Workers -> {"idle", "begin", "found", "mkdir", "source", "open", "copy",
                           "unlink", "remove"}]
    /\ op \in [Workers -> Op]
    /\ \A w \in Workers :
         /\ Active(w) => op[w].cmd \in Commands /\ op[w].id \in 1 .. started
         /\ pc[w] = "copy" => op[w].file \in Ids /\ op[w].i \in 1 .. Blocks + 1
    /\ reply \in [Workers -> {"none", "ok", "err", "too large"}]
    /\ started \in 0 .. MaxTasks
    /\ failures \in 0 .. MaxMishaps /\ restarts \in 0 .. MaxMishaps
    /\ granted \in [Users -> Nat]
    /\ expect \in [Files -> Versions \cup {Absent, Mixed}]

(* A name is given to one client only: whatever SIGNUPs run at the same    *)
(* time, before or after a restart, at most one of them is answered OK,    *)
(* and one that was answered OK has an account from then on.  (As long as  *)
(* nobody replaces the database through the path "../users.db".)           *)
SignupOnce ==
    \A u \in Users : granted[u] <= 1 /\ (granted[u] = 1 => accounts[u] # None)

(* An account keeps its password, over restarts of a persistent store too  *)
(* (with the same exception).                                              *)
AccountStable ==
    [][\A u \in Users : accounts[u] # None /\ (Persistent \/ restarts' = restarts)
         => accounts'[u] = accounts[u]]_vars

(* A stored file is in a directory that exists: fs_delete never removes a  *)
(* directory under a file that another worker is creating there, whichever *)
(* of the users' directories its path leads to.  With a persistent store   *)
(* the directory is that of a user with an account, or the one above.  (It *)
(* need not be that of the user who uploaded the file.)                    *)
FilesOwned ==
    \A f \in Files :
      link[f] # None =>
        f[1] \in dirs /\ (Persistent => f[1] = Root \/ accounts[f[1]] # None)

(* An upload that was answered OK, and overlapped no other upload or       *)
(* deletion of the same file, by this or another path, has stored all of   *)
(* the temporary file as it was opened, unless a client wrote to that in   *)
(* the meantime.  What it stored is there until the next one begins to     *)
(* write: downloads, restarts, operations on other files, clients who use  *)
(* or remove the temporary file, and uploads that fail before they open    *)
(* the file do not touch it.  A deleted file stays deleted in the same     *)
(* way.                                                                    *)
UploadKept ==
    \A f \in Files :
      (\A w \in Workers : ~Writing(w, f)) =>
        /\ expect[f] \in Versions => link[f] # None /\ disk[link[f]] = Stored(expect[f])
        /\ expect[f] = Absent => link[f] = None

(* A download that is answered OK, of a file that was uploaded in this     *)
(* way, delivers what was uploaded, whichever paths the two came by.  No   *)
(* other task may disturb it: none that changes the file, or downloads to  *)
(* a temporary file of the same name.                                      *)
DownloadFaithful ==
    [][\A w \in Workers :
         (At(w, "DOWNLOAD", "copy") /\ reply'[w] = "ok" /\ op[w].alone
            /\ expect[File(w)] \in Versions)
           => temp'[op[w].temp] = Source(expect[File(w)])]_vars
-----------------------------------------------------------------------------
(* What the documentation says, and the code does not do.                  *)

(* "Same user's operations are serialized": a file that nobody writes to   *)
(* is the whole of one upload.                                             *)
FileWhole ==
    \A f \in Files :
      (link[f] # None /\ \A w \in Workers : ~Writing(w, f))
        => \E n \in Versions : disk[link[f]] = Stored(n)
=============================================================================
