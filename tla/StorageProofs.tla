--------------------------- MODULE StorageProofs ---------------------------
(***************************************************************************)
(* Proofs about accounts, the ownership of files and their contents, for   *)
(* any number of workers, users, names, blocks, tasks, temporary files,    *)
(* failures, restarts and rewritten files.                                 *)
(***************************************************************************)
EXTENDS Storage, TLAPS

Places == {"idle", "begin", "found", "mkdir", "source", "open", "copy", "unlink", "remove"}
Later == {"found", "mkdir", "source", "open", "copy", "unlink", "remove"}

(* The types these proofs need. *)
Types ==
    /\ accounts \in [Users -> Passwords \cup {None}]
    /\ dirs \subseteq Dirs
    /\ link \in [Files -> Nat \cup {None}]
    /\ granted \in [Users -> Nat]
    /\ pc \in [Workers -> Places]
    /\ op \in [Workers -> Op]
    /\ \A w \in Workers : Active(w) => op[w].cmd \in Commands
    /\ started \in Nat

(* w has inserted u and is about to answer OK. *)
Adding(w, u) == At(w, "SIGNUP", "mkdir") /\ User(w) = u

(* A name is free, is being given away by one worker, or was given away. *)
Names ==
    /\ \A u \in Users : granted[u] <= 1
    /\ \A u \in Users : accounts[u] = None => granted[u] = 0
    /\ \A w \in Workers : \A u \in Users : Adding(w, u) => accounts[u] # None /\ granted[u] = 0
    /\ \A v, w \in Workers : \A u \in Users : Adding(v, u) /\ Adding(w, u) => v = w

(* Past user_store_lock_user, the user of the task has an account. *)
Found ==
    Persistent => \A w \in Workers : pc[w] \in Later => accounts[User(w)] # None

(* ... and an upload or download is of a file with a name. *)
Pathed ==
    \A w \in Workers :
      pc[w] \in Later /\ op[w].cmd.type \in {"UPLOAD", "DOWNLOAD"} => File(w) \in Files

(* The directory of a stored file exists, and directories are of users     *)
(* with accounts.                                                          *)
Housed == \A f \in Files : link[f] # None => f[1] \in dirs

Homes == Persistent => \A u \in dirs : u = Root \/ accounts[u] # None

Inv == Types /\ Names /\ Found /\ Pathed /\ Housed /\ Homes

LEMMA CommandFacts ==
  \A cmd \in Commands : /\ cmd.user \in Users /\ cmd.path \in Paths \cup {<< >>}
                        /\ cmd.tmp \in 1 .. Tmps
BY StorageAssumption DEF Command

LEMMA NoOpType == NoOp \in Op
BY DEF NoOp, Op

(* Whatever path leads to it, it is a file. *)
LEMMA PathFacts ==
  ASSUME NEW u \in Users, NEW p \in Paths
  PROVE  build_user_path(u, p) \in Files
<1>1. CASE \E f \in Files : p = Upwards(f)
  <2>1. build_user_path(u, p) = CHOOSE f \in Files : p = Upwards(f)
    BY <1>1 DEF build_user_path
  <2>2. (CHOOSE f \in Files : p = Upwards(f)) \in Files
    BY <1>1, Zenon
  <2> QED BY <2>1, <2>2, Zenon
<1>2. CASE ~ \E f \in Files : p = Upwards(f)
  <2>1. p \in FileNames
    BY <1>2 DEF Paths
  <2>2. build_user_path(u, p) = <<u, p>>
    BY <1>2 DEF build_user_path
  <2> QED BY <2>1, <2>2 DEF Files, Dirs
<1> QED BY <1>1, <1>2

LEMMA FileOf ==
  ASSUME NEW w \in Workers, Types, Active(w), op[w].cmd.path # << >>
  PROVE  File(w) \in Files
<1>1. User(w) \in Users /\ op[w].cmd.path \in Paths
  BY CommandFacts DEF Types, User
<1> QED BY <1>1, PathFacts DEF File

LEMMA InitInv == Init => Inv
<1> SUFFICES ASSUME Init PROVE Inv
  OBVIOUS
<1> USE DEF Init
<1>1. Types
  <2>1. accounts \in [Users -> Passwords \cup {None}]
    BY StorageAssumption
  <2>2. link \in [Files -> Nat \cup {None}] /\ granted \in [Users -> Nat]
    OBVIOUS
  <2>3. dirs \subseteq Dirs
    BY DEF Dirs
  <2> QED BY <2>1, <2>2, <2>3, NoOpType DEF Types, Places, Active
<1>2. Names
  BY <1>1 DEF Names, Types, Adding, At
<1>3. Found /\ Pathed /\ Housed /\ Homes
  BY DEF Found, Pathed, Housed, Homes, Later
<1> QED BY <1>1, <1>2, <1>3 DEF Inv
-----------------------------------------------------------------------------
(***************************************************************************)
(* A step of w that leaves the accounts alone, and the tasks of all        *)
(* workers unless w begins or ends one, and does not bring w to the end of *)
(* a SIGNUP.                                                               *)
(***************************************************************************)
Quiet(w) ==
    /\ UNCHANGED <<accounts, granted>>
    /\ \A v \in Workers \ {w} : op'[v].cmd = op[v].cmd /\ pc'[v] = pc[v]
    /\ op'[w].cmd = op[w].cmd \/ pc'[w] \in {"idle", "begin"}
    /\ pc'[w] = "mkdir" => op[w].cmd.type # "SIGNUP"

(* Such a step keeps what is said of names. *)
LEMMA QuietNames ==
  ASSUME NEW w \in Workers, Types, Names, Quiet(w)
  PROVE  Names'
BY DEF Types, Names, Quiet, Adding, At, User

(* It keeps Found and Pathed, if w does not get past the lookup by it. *)
LEMMA QuietFound ==
  ASSUME NEW w \in Workers, Types, Found, Pathed, Quiet(w),
         pc'[w] \in {"idle", "begin"} \/ pc[w] \in Later
  PROVE  Found' /\ Pathed'
<1>1. Found'
  BY DEF Types, Found, Quiet, User, Later
<1>2. Pathed'
  BY DEF Types, Pathed, Quiet, File, User, Later
<1> QED BY <1>1, <1>2

(* Files keep their directories when names only disappear and nothing is   *)
(* taken away; directories keep their users.                               *)
LEMMA HousedKept ==
  ASSUME Housed, dirs \subseteq dirs', \A f \in Files : link'[f] # None => link[f] # None
  PROVE  Housed'
BY DEF Housed

LEMMA HomesKept ==
  ASSUME Homes, dirs' \subseteq dirs, UNCHANGED accounts
  PROVE  Homes'
BY DEF Homes

(* w ends its task; w goes on to the place l. *)
Ends(w) == pc' = [pc EXCEPT ![w] = "idle"] /\ op' = [op EXCEPT ![w] = NoOp]
Goes(w, l) == pc' = [pc EXCEPT ![w] = l] /\ UNCHANGED op

LEMMA MoveTypes ==
  ASSUME NEW w \in Workers, Types, Ends(w) \/ (\E l \in Places : Goes(w, l) /\ Active(w))
  PROVE  /\ pc' \in [Workers -> Places] /\ op' \in [Workers -> Op]
         /\ \A v \in Workers : Active(v)' => op'[v].cmd \in Commands
         /\ \A v \in Workers \ {w} : op'[v] = op[v] /\ pc'[v] = pc[v]
<1>1. CASE Ends(w)
  BY <1>1, NoOpType DEF Ends, Types, Places, Active
<1>2. CASE \E l \in Places : Goes(w, l) /\ Active(w)
  BY <1>2 DEF Goes, Types, Active
<1> QED BY <1>1, <1>2

(* Updates of a worker's record of its task. *)
LEMMA OpFacts ==
  ASSUME NEW o \in Op
  PROVE  /\ \A n \in Nat : [o EXCEPT !.i = n] \in Op /\ [o EXCEPT !.i = n].cmd = o.cmd
         /\ \A n \in Nat : [o EXCEPT !.file = n] \in Op /\ [o EXCEPT !.file = n].cmd = o.cmd
         /\ [o EXCEPT !.named = FALSE] \in Op /\ [o EXCEPT !.named = FALSE].cmd = o.cmd
         /\ \A t \in TempNames :
              LET p == [o EXCEPT !.temp = t, !.named = TRUE, !.i = 1]
              IN  p \in Op /\ p.cmd = o.cmd
         /\ \A n \in Nat :
              LET p == [o EXCEPT !.file = n, !.i = 1]
              IN  p \in Op /\ p.cmd = o.cmd
         /\ [o EXCEPT !.alone = FALSE] \in Op /\ [o EXCEPT !.alone = FALSE].cmd = o.cmd
BY DEF Op

(* The record of a task that is begun. *)
LEMMA NewOpFacts ==
  ASSUME NEW cmd \in Commands, NEW n \in Nat
  PROVE  \A b \in BOOLEAN : \A o :
           o = [NoOp EXCEPT !.cmd = cmd, !.id = n, !.alone = b] => o \in Op /\ o.cmd = cmd
<1>1. /\ [NoOp EXCEPT !.cmd = cmd, !.id = n, !.alone = TRUE] \in Op
      /\ [NoOp EXCEPT !.cmd = cmd, !.id = n, !.alone = TRUE].cmd = cmd
  BY DEF NoOp, Op
<1>2. /\ [NoOp EXCEPT !.cmd = cmd, !.id = n, !.alone = FALSE] \in Op
      /\ [NoOp EXCEPT !.cmd = cmd, !.id = n, !.alone = FALSE].cmd = cmd
  BY DEF NoOp, Op
<1>3. \A b \in BOOLEAN : b = TRUE \/ b = FALSE
  OBVIOUS
<1> QED BY <1>1, <1>2, <1>3, Zenon

(***************************************************************************)
(* The steps that change no names of files and no directories.             *)
(***************************************************************************)
LEMMA SimpleInv ==
  ASSUME NEW w \in Workers, Inv,
         \/ user_store_login(w) \/ fs_list(w) \/ UploadCheck(w) \/ UploadOpenSource(w)
         \/ UploadClose(w) \/ UploadUnlink(w)
  PROVE  Inv'
<1> USE DEF Inv
<1>1. /\ UNCHANGED <<accounts, dirs, link, granted, started>>
      /\ pc[w] \in {"found", "source", "copy", "unlink"}
      /\ \/ Ends(w)
         \/ Goes(w, "mkdir") /\ op[w].cmd.type # "SIGNUP"
         \/ Goes(w, "open") \/ Goes(w, "unlink") \/ Goes(w, "remove")
  <2>1. CASE user_store_login(w) \/ fs_list(w)
    BY <2>1 DEF user_store_login, fs_list, Ends, Reply, Done, At, storeVars, fileVars,
         countVars, histVars
  <2>2. CASE UploadCheck(w) \/ UploadOpenSource(w)
    BY <2>2 DEF UploadCheck, UploadOpenSource, Ends, Goes, Reply, Done, Goto, At, storeVars,
         fileVars, countVars, histVars
  <2>3. CASE UploadClose(w) \/ UploadUnlink(w)
    BY <2>3 DEF UploadClose, UploadUnlink, Ends, Goes, Done, Goto, At, storeVars,
         fileVars, countVars, histVars
  <2> QED BY <2>1, <2>2, <2>3
<1>2. /\ pc' \in [Workers -> Places] /\ op' \in [Workers -> Op]
      /\ \A v \in Workers : Active(v)' => op'[v].cmd \in Commands
      /\ \A v \in Workers \ {w} : op'[v] = op[v] /\ pc'[v] = pc[v]
  BY <1>1, MoveTypes DEF Places, Active
<1>3. Types'
  BY <1>1, <1>2 DEF Types
<1>4. Quiet(w)
  BY <1>1, <1>2 DEF Quiet, Types, Ends, Goes
<1>5. Found' /\ Pathed'
  BY <1>1, <1>4, QuietFound DEF Later
<1>6. Housed' /\ Homes'
  BY <1>1, HousedKept, HomesKept
<1> QED BY <1>3, <1>4, <1>5, <1>6, QuietNames

LEMMA LookupInv ==
  ASSUME NEW w \in Workers, Inv, user_store_lock_user(w)
  PROVE  Inv'
<1> USE DEF Inv
<1>1. /\ UNCHANGED <<accounts, dirs, link, granted, started>>
      /\ pc[w] = "begin" /\ op[w].cmd.type # "SIGNUP"
      /\ \/ Ends(w)
         \/ /\ Goes(w, "found") /\ accounts[User(w)] # None
            /\ op[w].cmd.type \in {"UPLOAD", "DOWNLOAD"} => op[w].cmd.path # << >>
  BY DEF user_store_lock_user, Ends, Goes, Reply, Done, Goto, storeVars, fileVars, countVars,
         histVars
<1>2. /\ pc' \in [Workers -> Places] /\ op' \in [Workers -> Op]
      /\ \A v \in Workers : Active(v)' => op'[v].cmd \in Commands
      /\ \A v \in Workers \ {w} : op'[v] = op[v] /\ pc'[v] = pc[v]
  BY <1>1, MoveTypes DEF Places, Active
<1>3. Types'
  BY <1>1, <1>2 DEF Types
<1>4. Quiet(w)
  BY <1>1, <1>2 DEF Quiet, Types, Ends, Goes
<1>5. Housed' /\ Homes'
  BY <1>1, HousedKept, HomesKept
<1>6. CASE Ends(w)
  <2>1. Found' /\ Pathed'
    BY <1>4, <1>6, QuietFound DEF Ends, Types
  <2> QED BY <1>3, <1>4, <1>5, <2>1, QuietNames
<1>7. CASE Goes(w, "found") /\ accounts[User(w)] # None
  <2>1. Found'
    BY <1>1, <1>2, <1>7 DEF Found, Types, User, Goes, Later
  <2>2. op[w].cmd.type \in {"UPLOAD", "DOWNLOAD"} => File(w) \in Files
    <3>1. CASE ~ Ends(w)
      BY <1>1, <3>1, FileOf DEF Active
    <3>2. CASE Ends(w)
      BY <1>7, <3>2 DEF Ends, Goes, Types
    <3> QED BY <3>1, <3>2
  <2>3. Pathed'
    BY <1>2, <1>7, <2>2 DEF Pathed, Types, File, User, Goes, Later
  <2> QED BY <1>3, <1>4, <1>5, <2>1, <2>3, QuietNames
<1> QED BY <1>1, <1>6, <1>7

(***************************************************************************)
(* The steps that only advance the worker's own record of its task.        *)
(***************************************************************************)
LEMMA TempFacts ==
  ASSUME NEW w \in Workers, Types, Active(w), op[w].cmd.type = "DOWNLOAD", NEW k \in Seconds
  PROVE  <<TempName(User(w), op[w].cmd.path), k>> \in TempNames
BY DEF Types, TempNames, User

(* What the steps of downloads and the copy loop of uploads do to op. *)
LEMMA CopyOps ==
  ASSUME NEW w \in Workers, Types, Pathed, Active(w),
         \/ UploadCopy(w) \/ DownloadOpen(w) \/ DownloadTemp(w)
         \/ DownloadCopy(w) \/ DownloadClose(w)
  PROVE  /\ op' \in [Workers -> Op]
         /\ \A v \in Workers \ {w} : op'[v].cmd = op[v].cmd
         /\ op'[w].cmd = op[w].cmd \/ (op'[w] = NoOp /\ pc'[w] = "idle")
<1>1. op[w] \in Op /\ op[w].i \in Nat
  BY DEF Types, Op
<1>2. CASE op' = op \/ (op' = [op EXCEPT ![w] = NoOp] /\ pc' = [pc EXCEPT ![w] = "idle"])
  BY <1>2, NoOpType DEF Types
<1>3. ASSUME NEW p \in Op, p.cmd = op[w].cmd, op' = [op EXCEPT ![w] = p]
      PROVE  op' \in [Workers -> Op] /\ \A v \in Workers : op'[v].cmd = op[v].cmd
  BY <1>3 DEF Types
<1>4. CASE UploadCopy(w)
  <2> DEFINE p == [op[w] EXCEPT !.i = op[w].i + 1]
  <2>1. op' = op \/ op' = [op EXCEPT ![w] = p]
    BY <1>4 DEF UploadCopy, Goto, Types
  <2>2. op[w].i + 1 \in Nat
    BY <1>1
  <2>3. p \in Op /\ p.cmd = op[w].cmd
    BY <1>1, <2>2, OpFacts
  <2> HIDE DEF p
  <2> QED BY <1>2, <1>3, <2>1, <2>3
<1>5. CASE DownloadOpen(w)
  <2>1. File(w) \in Files
    BY <1>5 DEF DownloadOpen, At, Pathed, Later
  <2>2. CASE link[File(w)] # None /\ op' = [op EXCEPT ![w].file = link[File(w)]]
    <3> DEFINE p == [op[w] EXCEPT !.file = link[File(w)]]
    <3>1. op' = [op EXCEPT ![w] = p]
      BY <2>2 DEF Types
    <3>2. p \in Op /\ p.cmd = op[w].cmd
      BY <1>1, <2>1, <2>2, OpFacts DEF Types
    <3> HIDE DEF p
    <3> QED BY <1>3, <3>1, <3>2
  <2> QED BY <1>2, <1>5, <2>2 DEF DownloadOpen, Reply, Done
<1>6. CASE DownloadTemp(w)
  <2>1. CASE \E k \in Seconds :
               op' = [op EXCEPT ![w].temp = <<TempName(User(w), op[w].cmd.path), k>>,
                                ![w].named = TRUE, ![w].i = 1]
    <3>1. PICK k \in Seconds :
            op' = [op EXCEPT ![w].temp = <<TempName(User(w), op[w].cmd.path), k>>,
                             ![w].named = TRUE, ![w].i = 1]
      BY <2>1
    <3> DEFINE t == <<TempName(User(w), op[w].cmd.path), k>>
               p == [op[w] EXCEPT !.temp = t, !.named = TRUE, !.i = 1]
    <3>2. t \in TempNames
      BY <1>6, TempFacts DEF DownloadTemp, At
    <3>3. op' = [op EXCEPT ![w] = p]
      BY <3>1 DEF Types
    <3> HIDE DEF t
    <3>4. p \in Op /\ p.cmd = op[w].cmd
      BY <1>1, <3>2, OpFacts
    <3> HIDE DEF p
    <3> QED BY <1>3, <3>3, <3>4
  <2> QED BY <1>2, <1>6, <2>1, Zenon DEF DownloadTemp, Reply, Done
<1>7. CASE DownloadFail(w)
  <2>1. \A v \in Workers : op[v] \in Op
    BY DEF Types
  <2>2. CASE op' = [v \in Workers |-> IF v = w THEN NoOp
                      ELSE IF op[v].temp = op[w].temp THEN [op[v] EXCEPT !.named = FALSE]
                      ELSE op[v]]
    <3>1. pc'[w] = "idle"
      BY <1>7 DEF DownloadFail, Done, Types
    <3> QED BY <2>1, <2>2, <3>1, NoOpType, OpFacts
  <2> QED BY <1>2, <1>7, <2>2 DEF DownloadFail, Done
<1>8. CASE DownloadCopy(w) /\ ~DownloadFail(w)
  <2> DEFINE p == [op[w] EXCEPT !.i = op[w].i + 1]
  <2>1. op' = [op EXCEPT ![w] = p]
    BY <1>8 DEF DownloadCopy, Types
  <2>2. op[w].i + 1 \in Nat
    BY <1>1
  <2>3. p \in Op /\ p.cmd = op[w].cmd
    BY <1>1, <2>2, OpFacts
  <2> HIDE DEF p
  <2> QED BY <1>3, <2>1, <2>3
<1>9. CASE DownloadClose(w) /\ ~DownloadFail(w)
  BY <1>2, <1>9 DEF DownloadClose, Reply, Done
<1> QED BY <1>4, <1>5, <1>6, <1>7, <1>8, <1>9

LEMMA CopyInv ==
  ASSUME NEW w \in Workers, Inv,
         \/ UploadCopy(w) \/ DownloadOpen(w) \/ DownloadTemp(w)
         \/ DownloadCopy(w) \/ DownloadClose(w)
  PROVE  Inv'
<1> USE DEF Inv
<1>1. /\ UNCHANGED <<accounts, dirs, link, granted, started>>
      /\ pc[w] \in {"found", "open", "copy"}
      /\ pc'[w] \in {"idle", "open", "copy", "remove"}
      /\ pc' = [pc EXCEPT ![w] = pc'[w]]
  <2>1. CASE UploadCopy(w)
    BY <2>1 DEF UploadCopy, Goto, At, Types, storeVars, countVars, histVars
  <2>2. CASE DownloadOpen(w)
    BY <2>2 DEF DownloadOpen, Reply, Done, At, Types, storeVars, fileVars, countVars, histVars
  <2>3. CASE DownloadTemp(w)
    BY <2>3 DEF DownloadTemp, Reply, Done, At, Types, storeVars, countVars, histVars
  <2>4. CASE DownloadCopy(w)
    BY <2>4 DEF DownloadCopy, DownloadFail, Done, At, Types, storeVars, countVars, histVars
  <2>5. CASE DownloadClose(w)
    BY <2>5 DEF DownloadClose, DownloadFail, Reply, Done, At, Types, storeVars, countVars,
                histVars
  <2> QED BY <2>1, <2>2, <2>3, <2>4, <2>5
<1>2. /\ op' \in [Workers -> Op]
      /\ \A v \in Workers \ {w} : op'[v].cmd = op[v].cmd
      /\ op'[w].cmd = op[w].cmd \/ (op'[w] = NoOp /\ pc'[w] = "idle")
  BY <1>1, CopyOps DEF Active
<1>3. Types'
  BY <1>1, <1>2 DEF Types, Places, Active
<1>4. Quiet(w)
  BY <1>1, <1>2 DEF Quiet, Types
<1>5. Found' /\ Pathed'
  BY <1>1, <1>4, QuietFound DEF Later
<1>6. Housed' /\ Homes'
  BY <1>1, HousedKept, HomesKept
<1> QED BY <1>3, <1>4, <1>5, <1>6, QuietNames

(***************************************************************************)
(* The worker begins a task.                                               *)
(***************************************************************************)
LEMMA BeginInv ==
  ASSUME NEW w \in Workers, NEW cmd \in Commands, Inv, Begin(w, cmd)
  PROVE  Inv'
<1> USE DEF Inv
<1>1. /\ UNCHANGED <<accounts, dirs, link, granted>>
      /\ started' = started + 1
      /\ pc' = [pc EXCEPT ![w] = "begin"]
  BY DEF Begin, storeVars, fileVars, histVars
<1>2. /\ op'[w] \in Op /\ op'[w].cmd = cmd
      /\ \A v \in Workers \ {w} : op'[v] \in Op /\ op'[v].cmd = op[v].cmd
  <2>1. \A v \in Workers : op[v] \in Op
    BY DEF Types
  <2>2. ASSUME NEW v \in Workers \ {w}
        PROVE  op'[v] \in Op /\ op'[v].cmd = op[v].cmd
    <3>1. op'[v] = op[v] \/ op'[v] = [op[v] EXCEPT !.alone = FALSE]
      BY DEF Begin
    <3> QED BY <2>1, <3>1, OpFacts
  <2>3. op'[w] \in Op /\ op'[w].cmd = cmd
    <3>1. PICK b \in BOOLEAN :
            op'[w] = [NoOp EXCEPT !.cmd = cmd, !.id = started + 1, !.alone = b]
      <4> DEFINE a == \A x \in Workers \ {w} : Active(x) => ~Disturbs(op[x].cmd, cmd)
      <4>1. op'[w] = [NoOp EXCEPT !.cmd = cmd, !.id = started + 1, !.alone = a]
        BY DEF Begin
      <4>2. a \in BOOLEAN
        OBVIOUS
      <4> HIDE DEF a
      <4> QED BY <4>1, <4>2, Zenon
    <3>2. started + 1 \in Nat
      BY DEF Types
    <3> QED BY <3>1, <3>2, NewOpFacts, Zenon
  <2> QED BY <2>2, <2>3
<1>3. Types'
  <2>1. op' \in [Workers -> Op]
    <3>1. op' = [v \in Workers |-> op'[v]]
      BY DEF Begin
    <3> QED BY <1>2, <3>1
  <2>2. started' \in Nat
    BY <1>1 DEF Types
  <2> QED BY <1>1, <1>2, <2>1, <2>2 DEF Types, Places, Active
<1>4. Quiet(w)
  BY <1>1, <1>2 DEF Quiet, Types
<1>5. Found' /\ Pathed'
  BY <1>1, <1>4, QuietFound DEF Types
<1>6. Housed' /\ Homes'
  BY <1>1, HousedKept, HomesKept
<1> QED BY <1>3, <1>4, <1>5, <1>6, QuietNames

(***************************************************************************)
(* SIGNUP.  The name was free, so that no other worker is adding it; once  *)
(* inserted it is w's alone until w answers.                               *)
(***************************************************************************)
LEMMA SignupInv ==
  ASSUME NEW w \in Workers, Inv, user_store_signup(w)
  PROVE  Inv'
<1> USE DEF Inv
<1>1. pc[w] = "begin" /\ op[w].cmd.type = "SIGNUP" /\ User(w) \in Users
      /\ op[w].cmd.pass \in Passwords /\ Active(w)
  <2>1. At(w, "SIGNUP", "begin") /\ Active(w)
    BY DEF user_store_signup, At, Active
  <2>2. op[w].cmd \in Commands
    BY <2>1 DEF Types
  <2> QED BY <2>1, <2>2, CommandFacts, StorageAssumption DEF At, User
<1>2. UNCHANGED <<dirs, link, granted, started>>
  BY DEF user_store_signup, fileVars, countVars, histVars
<1>3. CASE UNCHANGED accounts /\ Ends(w)
  <2>1. /\ pc' \in [Workers -> Places] /\ op' \in [Workers -> Op]
        /\ \A v \in Workers : Active(v)' => op'[v].cmd \in Commands
        /\ \A v \in Workers \ {w} : op'[v] = op[v] /\ pc'[v] = pc[v]
    BY <1>3, MoveTypes
  <2>2. Types'
    BY <1>2, <1>3, <2>1 DEF Types
  <2>3. Quiet(w)
    BY <1>2, <1>3, <2>1 DEF Quiet, Types, Ends
  <2>4. Found' /\ Pathed'
    BY <1>3, <2>3, QuietFound DEF Types, Ends
  <2>5. Housed' /\ Homes'
    BY <1>2, <1>3, HousedKept, HomesKept
  <2> QED BY <2>2, <2>3, <2>4, <2>5, QuietNames
<1>4. CASE /\ accounts[User(w)] = None
           /\ accounts' = [accounts EXCEPT ![User(w)] = op[w].cmd.pass]
           /\ pc' = [pc EXCEPT ![w] = "mkdir"] /\ UNCHANGED op
  <2>1. Types'
    BY <1>1, <1>2, <1>4 DEF Types, Places, Active
  <2>2. op[w].cmd.pass # None
    BY <1>1, StorageAssumption
  <2>3. \A u \in Users : accounts[u] # None \/ u = User(w) => accounts'[u] # None
    BY <1>1, <1>4, <2>2 DEF Types
  <2>4. Names'
    BY <1>1, <1>2, <1>4, <2>3 DEF Names, Adding, At, User, Types
  <2>5. Found'
    <3>1. \A v \in Workers : pc[v] # "idle" => User(v) \in Users
      BY CommandFacts DEF Types, Active, User
    <3> SUFFICES ASSUME Persistent, NEW v \in Workers, pc'[v] \in Later
                 PROVE  accounts'[User(v)] # None
      BY <1>4 DEF Found, User
    <3>2. v = w \/ pc'[v] = pc[v]
      BY <1>4 DEF Types
    <3>3. v = w \/ accounts[User(v)] # None
      BY <3>2 DEF Found
    <3>4. User(v) \in Users
      BY <1>1, <3>1, <3>2 DEF Later
    <3> QED BY <2>3, <3>3, <3>4
  <2>6. Pathed'
    BY <1>1, <1>4 DEF Pathed, File, User, Types
  <2>7. Housed'
    BY <1>2, HousedKept
  <2>8. Homes'
    BY <1>2, <2>3 DEF Homes, Types, Dirs
  <2> QED BY <2>1, <2>4, <2>5, <2>6, <2>7, <2>8
<1> QED BY <1>3, <1>4 DEF user_store_signup, Goto, Reply, Done, Ends

LEMMA SignupMkdirInv ==
  ASSUME NEW w \in Workers, Inv, SignupMkdir(w)
  PROVE  Inv'
<1> USE DEF Inv
<1>1. pc[w] = "mkdir" /\ op[w].cmd.type = "SIGNUP" /\ User(w) \in Users
  BY CommandFacts DEF SignupMkdir, At, Types, Active, User
<1>2. /\ UNCHANGED <<accounts, link, started>>
      /\ dirs' \in {dirs, dirs \cup {User(w)}}
      /\ Ends(w)
      /\ granted' = [granted EXCEPT ![User(w)] = granted[User(w)] + 1]
  BY DEF SignupMkdir, Reply, Done, Ends, fileVars, countVars, histVars
<1>3. /\ pc' \in [Workers -> Places] /\ op' \in [Workers -> Op]
      /\ \A v \in Workers : Active(v)' => op'[v].cmd \in Commands
      /\ \A v \in Workers \ {w} : op'[v] = op[v] /\ pc'[v] = pc[v]
  BY <1>2, MoveTypes
<1>4. pc'[w] = "idle"
  BY <1>2 DEF Ends, Types
<1>5. Types'
  BY <1>1, <1>2, <1>3 DEF Types, Dirs
<1>6. Names'
  <2>1. Adding(w, User(w)) /\ granted[User(w)] = 0 /\ accounts[User(w)] # None
    BY <1>1 DEF Names, Adding, At
  <2>2. granted'[User(w)] = 1 /\ \A u \in Users \ {User(w)} : granted'[u] = granted[u]
    BY <1>1, <1>2, <2>1 DEF Types
  <2>3. \A v \in Workers : \A u \in Users :
          Adding(v, u)' => v # w /\ Adding(v, u) /\ u # User(w)
    BY <1>1, <1>3, <1>4, <2>1 DEF Names, Adding, At, User
  <2> QED BY <1>2, <2>1, <2>2, <2>3 DEF Names
<1>7. Found' /\ Pathed'
  BY <1>2, <1>3, <1>4 DEF Found, Pathed, User, File, Later
<1>8. Housed'
  BY <1>2, HousedKept
<1>9. Homes'
  BY <1>1, <1>2 DEF Homes, Found, Later
<1> QED BY <1>5, <1>6, <1>7, <1>8, <1>9

(***************************************************************************)
(* The steps that create or remove directories and names of files.         *)
(***************************************************************************)
LEMMA DeleteInv ==
  ASSUME NEW w \in Workers, Inv, fs_delete(w)
  PROVE  Inv'
<1> USE DEF Inv
<1>1. /\ UNCHANGED <<accounts, granted, started>>
      /\ pc[w] = "found" /\ Ends(w)
  BY DEF fs_delete, At, Reply, Done, Ends, countVars
<1>2. dirs' \subseteq dirs /\ link' \in [Files -> Nat \cup {None}]
      /\ \A f \in Files : link'[f] # None => link'[f] = link[f]
  BY DEF fs_delete, Types
<1>3. /\ pc' \in [Workers -> Places] /\ op' \in [Workers -> Op]
      /\ \A v \in Workers : Active(v)' => op'[v].cmd \in Commands
      /\ \A v \in Workers \ {w} : op'[v] = op[v] /\ pc'[v] = pc[v]
  BY <1>1, MoveTypes
<1>4. Types'
  BY <1>1, <1>2, <1>3 DEF Types
<1>5. Quiet(w)
  BY <1>1, <1>3 DEF Quiet, Types, Ends
<1>6. Found' /\ Pathed'
  BY <1>1, <1>5, QuietFound DEF Types, Ends
<1>7. Housed'
  <2>1. CASE UNCHANGED dirs
    BY <1>2, <2>1, HousedKept
  <2>2. CASE /\ dirs' = dirs \ {User(w)} /\ UNCHANGED link
             /\ \A n \in FileNames : link[<<User(w), n>>] = None
    <3> SUFFICES ASSUME NEW f \in Files, link[f] # None PROVE f[1] \in dirs'
      BY <2>2 DEF Housed
    <3>1. f = <<f[1], f[2]>> /\ f[2] \in FileNames
      BY DEF Files
    <3>2. f[1] # User(w)
      BY <2>2, <3>1
    <3> QED BY <2>2, <3>2 DEF Housed
  <2> QED BY <2>1, <2>2 DEF fs_delete
<1>8. Homes'
  BY <1>1, <1>2, HomesKept
<1> QED BY <1>4, <1>5, <1>6, <1>7, <1>8, QuietNames

LEMMA UploadMkdirInv ==
  ASSUME NEW w \in Workers, Inv, UploadMkdir(w)
  PROVE  Inv'
<1> USE DEF Inv
<1>1. /\ UNCHANGED <<accounts, link, granted, started>>
      /\ dirs' \in {dirs, dirs \cup {User(w)}}
      /\ pc[w] = "mkdir" /\ (Ends(w) \/ Goes(w, "source"))
  BY DEF UploadMkdir, At, Goto, Reply, Done, Ends, Goes, fileVars, countVars, histVars
<1>2. User(w) \in Users
  BY <1>1, CommandFacts DEF Types, Active, User
<1>3. /\ pc' \in [Workers -> Places] /\ op' \in [Workers -> Op]
      /\ \A v \in Workers : Active(v)' => op'[v].cmd \in Commands
      /\ \A v \in Workers \ {w} : op'[v] = op[v] /\ pc'[v] = pc[v]
  BY <1>1, MoveTypes DEF Places, Active
<1>4. Types'
  BY <1>1, <1>2, <1>3 DEF Types, Dirs
<1>5. Quiet(w)
  BY <1>1, <1>3 DEF Quiet, Types, Ends, Goes
<1>6. Found' /\ Pathed'
  BY <1>1, <1>5, QuietFound DEF Later
<1>7. Housed'
  BY <1>1, HousedKept
<1>8. Homes'
  BY <1>1 DEF Homes, Found, Later
<1> QED BY <1>4, <1>5, <1>6, <1>7, <1>8, QuietNames

LEMMA UploadOpenInv ==
  ASSUME NEW w \in Workers, Inv, UploadOpen(w)
  PROVE  Inv'
<1> USE DEF Inv
<1> DEFINE n == IF link[File(w)] = None THEN op[w].id ELSE link[File(w)]
<1>1. /\ UNCHANGED <<accounts, dirs, granted, started>>
      /\ pc[w] = "open" /\ op[w].cmd.type = "UPLOAD"
      /\ \/ /\ File(w)[1] \in dirs /\ link' = [link EXCEPT ![File(w)] = n]
            /\ pc' = [pc EXCEPT ![w] = "copy"]
            /\ op' = [op EXCEPT ![w].file = n, ![w].i = 1]
         \/ UNCHANGED link /\ Ends(w)
  BY DEF UploadOpen, At, Reply, Done, Ends, storeVars, countVars, histVars
<1>2. op[w] \in Op /\ File(w) \in Files
  BY <1>1 DEF Types, Pathed, Later
<1>3. n \in Nat
  BY <1>2 DEF Types, Op
<1> HIDE DEF n
<1>4. CASE UNCHANGED link /\ Ends(w)
  <2>1. /\ pc' \in [Workers -> Places] /\ op' \in [Workers -> Op]
        /\ \A v \in Workers : Active(v)' => op'[v].cmd \in Commands
        /\ \A v \in Workers \ {w} : op'[v] = op[v] /\ pc'[v] = pc[v]
    BY <1>4, MoveTypes
  <2>2. Types'
    BY <1>1, <1>4, <2>1 DEF Types
  <2>3. Quiet(w)
    BY <1>1, <1>4, <2>1 DEF Quiet, Types, Ends
  <2>4. Found' /\ Pathed'
    BY <1>4, <2>3, QuietFound DEF Types, Ends
  <2>5. Housed' /\ Homes'
    BY <1>1, <1>4, HousedKept, HomesKept
  <2> QED BY <2>2, <2>3, <2>4, <2>5, QuietNames
<1>5. CASE /\ File(w)[1] \in dirs /\ link' = [link EXCEPT ![File(w)] = n]
           /\ pc' = [pc EXCEPT ![w] = "copy"]
           /\ op' = [op EXCEPT ![w].file = n, ![w].i = 1]
  <2>1. op' \in [Workers -> Op] /\ \A v \in Workers : op'[v].cmd = op[v].cmd
    <3> DEFINE p == [op[w] EXCEPT !.file = n, !.i = 1]
    <3>1. op' = [op EXCEPT ![w] = p]
      BY <1>5 DEF Types
    <3>2. p \in Op /\ p.cmd = op[w].cmd
      BY <1>2, <1>3, OpFacts
    <3> HIDE DEF p
    <3> QED BY <3>1, <3>2 DEF Types
  <2>2. Types'
    BY <1>1, <1>3, <1>5, <2>1 DEF Types, Places, Active
  <2>3. Quiet(w)
    BY <1>1, <1>5, <2>1 DEF Quiet, Types
  <2>4. Found' /\ Pathed'
    BY <1>1, <2>3, QuietFound DEF Later
  <2>5. Housed'
    BY <1>1, <1>2, <1>5 DEF Housed, Types
  <2>6. Homes'
    BY <1>1, HomesKept
  <2> QED BY <2>2, <2>3, <2>4, <2>5, <2>6, QuietNames
<1> QED BY <1>1, <1>4, <1>5

LEMMA UploadRemoveInv ==
  ASSUME NEW w \in Workers, Inv, UploadRemove(w)
  PROVE  Inv'
<1> USE DEF Inv
<1>1. /\ UNCHANGED <<accounts, dirs, granted, started>>
      /\ link' = [link EXCEPT ![File(w)] = None] \/ UNCHANGED link
      /\ pc[w] = "remove" /\ Ends(w)
  BY DEF UploadRemove, At, Reply, Done, Ends, storeVars, countVars
<1>2. /\ pc' \in [Workers -> Places] /\ op' \in [Workers -> Op]
      /\ \A v \in Workers : Active(v)' => op'[v].cmd \in Commands
      /\ \A v \in Workers \ {w} : op'[v] = op[v] /\ pc'[v] = pc[v]
  BY <1>1, MoveTypes
<1>3. Types'
  BY <1>1, <1>2 DEF Types
<1>4. Quiet(w)
  BY <1>1, <1>2 DEF Quiet, Types, Ends
<1>5. Found' /\ Pathed'
  BY <1>1, <1>4, QuietFound DEF Types, Ends
<1>6. Housed' /\ Homes'
  BY <1>1, HousedKept, HomesKept DEF Types
<1> QED BY <1>3, <1>4, <1>5, <1>6, QuietNames

(***************************************************************************)
(* A restart: no worker is in the middle of anything.                      *)
(***************************************************************************)
LEMMA RestartInv ==
  ASSUME Inv, Restart
  PROVE  Inv'
<1> USE DEF Inv
<1>1. /\ UNCHANGED <<dirs, link, started>>
      /\ accounts' = IF Persistent THEN accounts ELSE [u \in Users |-> None]
      /\ granted' = IF Persistent THEN granted ELSE [u \in Users |-> 0]
      /\ pc' = [w \in Workers |-> "idle"]
      /\ op' = [w \in Workers |-> NoOp]
  BY DEF Restart, fileVars
<1>2. Types'
  BY <1>1, NoOpType DEF Types, Places, Active
<1>3. Names'
  BY <1>1 DEF Names, Adding, At, Types
<1>4. Found' /\ Pathed'
  BY <1>1 DEF Found, Pathed, Later
<1>5. Housed' /\ Homes'
  BY <1>1 DEF Housed, Homes
<1> QED BY <1>2, <1>3, <1>4, <1>5

(* A client does something to a temporary file, or nothing happens. *)
LEMMA ClientFrame ==
  ASSUME (\E s \in 1 .. Tmps : upload_file(s)) \/ UNCHANGED vars
  PROVE  UNCHANGED <<storeVars, fileVars, workVars, countVars, failures, histVars>>
<1>1. CASE UNCHANGED vars
  BY <1>1 DEF vars
<1>2. ASSUME NEW s \in 1 .. Tmps, upload_file(s)
      PROVE  UNCHANGED <<storeVars, fileVars, workVars, countVars, failures, histVars>>
  BY <1>2 DEF upload_file, ClientWrites, ClientHasWritten, ClientUnlinks
<1> QED BY <1>1, <1>2

LEMMA ClientInv ==
  ASSUME Inv, (\E s \in 1 .. Tmps : upload_file(s)) \/ UNCHANGED vars
  PROVE  Inv'
<1> USE DEF Inv
<1>1. UNCHANGED <<accounts, dirs, link, granted, pc, op, started>>
  BY ClientFrame DEF storeVars, fileVars, workVars, countVars, histVars
<1>2. Types'
  BY <1>1 DEF Types, Active
<1>3. Names'
  BY <1>1 DEF Names, Adding, At, User
<1>4. Found' /\ Pathed' /\ Housed' /\ Homes'
  BY <1>1 DEF Found, Pathed, Housed, Homes, User, File
<1> QED BY <1>2, <1>3, <1>4

LEMMA NextInv == Inv /\ [Next]_vars => Inv'
<1> SUFFICES ASSUME Inv, [Next]_vars PROVE Inv'
  OBVIOUS
<1>1. ASSUME NEW w \in Workers, WorkerNext(w) PROVE Inv'
  BY <1>1, BeginInv, SignupInv, SignupMkdirInv, LookupInv, SimpleInv, DeleteInv,
     UploadMkdirInv, UploadOpenInv, UploadRemoveInv, CopyInv
     DEF WorkerNext, SIGNUP, LOGIN, UPLOAD, DOWNLOAD, DELETE, LIST
<1> QED BY <1>1, RestartInv, ClientInv DEF Next

LEMMA InvAlways == Spec => []Inv
BY InitInv, NextInv, PTL DEF Spec
-----------------------------------------------------------------------------
(* No name is given to two clients: at most one SIGNUP of a user is        *)
(* answered OK by user_store_signup and the worker, and that user has an   *)
(* account.                                                                *)
THEOREM SignupsOnce == Spec => []SignupOnce
<1>1. Inv => SignupOnce
  BY DEF Inv, Types, Names, SignupOnce
<1> QED BY <1>1, InvAlways, PTL

(* Every stored file is in an existing directory, by whatever path it was  *)
(* stored: fs_delete removes a directory only when it is empty, and nobody *)
(* creates a file in one that is gone.  With a persistent store the        *)
(* directory is that of a user with an account, or the one above: fs_upload *)
(* runs only for users that user_store_lock_user found, and it is the only *)
(* other one than SIGNUP to make directories.                              *)
THEOREM FilesAreOwned == Spec => []FilesOwned
<1>1. Inv => FilesOwned
  BY DEF Inv, Housed, Homes, FilesOwned
<1> QED BY <1>1, InvAlways, PTL

(* No step changes the password of an account, a restart of a persistent   *)
(* store included: user_store_signup inserts only names that are free.     *)
THEOREM AccountsStable == Spec => AccountStable
<1> DEFINE Stable == \A u \in Users :
                     accounts[u] # None /\ (Persistent \/ restarts' = restarts)
                       => accounts'[u] = accounts[u]
<1>1. Inv /\ [Next]_vars => Stable
  <2> SUFFICES ASSUME Inv, [Next]_vars PROVE Stable
    OBVIOUS
  <2>1. CASE UNCHANGED accounts
    BY <2>1
  <2>2. CASE \E w \in Workers : user_store_signup(w)
    BY <2>2 DEF user_store_signup, Inv, Types
  <2>3. CASE Restart
    BY <2>3 DEF Restart, Inv, Types
  <2>4. ASSUME NEW w \in Workers, WorkerNext(w), ~user_store_signup(w)
        PROVE  UNCHANGED accounts
    BY <2>4 DEF WorkerNext, SIGNUP, LOGIN, UPLOAD, DOWNLOAD, DELETE, LIST, Begin, SignupMkdir,
         user_store_lock_user, user_store_login, fs_list, fs_delete, UploadCheck, UploadMkdir,
         UploadOpenSource, UploadOpen, UploadCopy, UploadClose, UploadUnlink, UploadRemove,
         DownloadOpen, DownloadTemp, DownloadCopy, DownloadClose, storeVars
  <2>5. CASE (\E s \in 1 .. Tmps : upload_file(s)) \/ UNCHANGED vars
    BY <2>1, <2>5, ClientFrame DEF storeVars
  <2> QED BY <2>1, <2>2, <2>3, <2>4, <2>5 DEF Next
<1> HIDE DEF Stable
<1>2. Spec => [][Stable]_vars
  BY <1>1, InvAlways, PTL DEF Spec
<1> QED BY <1>2 DEF AccountStable, Stable
-----------------------------------------------------------------------------
(***************************************************************************)
(* Replies and bounds: a worker has sent no reply to a task under way.     *)
(***************************************************************************)
Replies == {"none", "ok", "err", "too large"}

Counts ==
    /\ reply \in [Workers -> Replies]
    /\ \A w \in Workers : Active(w) => reply[w] = "none"
    /\ failures \in Nat /\ restarts \in Nat /\ copies \in Nat /\ Tmps <= copies
    /\ failures + restarts + copies <= Tmps + MaxMishaps

Answers(w) ==
    /\ UNCHANGED <<restarts, copies>>
    /\ failures' = failures \/ (Mishap /\ failures' = failures + 1)
    /\ \/ UNCHANGED reply /\ Active(w) /\ \A v \in Workers \ {w} : pc'[v] = pc[v]
       \/ /\ \E r \in Replies : reply' = [reply EXCEPT ![w] = r]
          /\ pc' = [pc EXCEPT ![w] = "idle"]
       \/ reply' = [reply EXCEPT ![w] = "none"] /\ pc' = [pc EXCEPT ![w] = "begin"]

LEMMA AnswerCases ==
  ASSUME NEW w \in Workers, Types, WorkerNext(w)
  PROVE  Answers(w)
<1> USE DEF Fail, NoFailure, At, Goto, Reply, Done, countVars, sourceVars
<1>1. CASE \E cmd \in Commands : Begin(w, cmd)
  BY <1>1 DEF Begin, Answers
<1>2. CASE Active(w) /\ (user_store_signup(w) \/ SignupMkdir(w) \/ user_store_lock_user(w))
  BY <1>2 DEF user_store_signup, SignupMkdir, user_store_lock_user, Answers, Replies, Types
<1>3. CASE Active(w) /\ (user_store_login(w) \/ fs_list(w))
  BY <1>3 DEF user_store_login, fs_list, Answers, Replies, Types
<1>4. CASE Active(w) /\ fs_delete(w)
  BY <1>4 DEF fs_delete, Answers, Replies, Types
<1>5. CASE Active(w) /\ (UploadCheck(w) \/ UploadMkdir(w) \/ UploadOpenSource(w))
  BY <1>5 DEF UploadCheck, UploadMkdir, UploadOpenSource, Answers, Replies, Types
<1>6. CASE Active(w) /\ (UploadOpen(w) \/ UploadCopy(w))
  BY <1>6 DEF UploadOpen, UploadCopy, Answers, Replies, Types
<1>7. CASE Active(w) /\ (UploadClose(w) \/ UploadUnlink(w) \/ UploadRemove(w))
  BY <1>7 DEF UploadClose, UploadUnlink, UploadRemove, Answers, Replies, Types
<1>8. CASE Active(w) /\ (DownloadOpen(w) \/ DownloadTemp(w))
  BY <1>8 DEF DownloadOpen, DownloadTemp, Answers, Replies, Types
<1>9. CASE Active(w) /\ (DownloadCopy(w) \/ DownloadClose(w))
  BY <1>9 DEF DownloadCopy, DownloadClose, DownloadFail, Answers, Replies, Types
<1> QED BY <1>1, <1>2, <1>3, <1>4, <1>5, <1>6, <1>7, <1>8, <1>9, Zenon
         DEF WorkerNext, SIGNUP, LOGIN, UPLOAD, DOWNLOAD, DELETE, LIST

LEMMA NextCounts ==
  ASSUME Inv, Counts, [Next]_vars
  PROVE  Counts'
<1>0. Tmps \in Nat /\ MaxMishaps \in Nat
  BY StorageAssumption
<1>1. ASSUME NEW w \in Workers, WorkerNext(w) PROVE Counts'
  <2>1. Answers(w)
    BY <1>1, AnswerCases DEF Inv
  <2>2. /\ failures' \in Nat /\ restarts' \in Nat /\ copies' \in Nat /\ Tmps <= copies'
        /\ failures' + restarts' + copies' <= Tmps + MaxMishaps
    BY <1>0, <2>1 DEF Counts, Answers, Mishap
  <2>3. reply' \in [Workers -> Replies]
    BY <2>1 DEF Counts, Answers, Replies
  <2>4. \A v \in Workers : Active(v)' => reply'[v] = "none"
    BY <2>1 DEF Counts, Answers, Active, Inv, Types
  <2> QED BY <2>2, <2>3, <2>4 DEF Counts
<1>2. CASE Restart
  <2>1. restarts' = restarts + 1 /\ UNCHANGED <<failures, copies>> /\ Mishap
    BY <1>2 DEF Restart, sourceVars
  <2>2. reply' = [w \in Workers |-> "none"]
    BY <1>2 DEF Restart
  <2>3. /\ failures' \in Nat /\ restarts' \in Nat /\ copies' \in Nat /\ Tmps <= copies'
        /\ failures' + restarts' + copies' <= Tmps + MaxMishaps
    BY <1>0, <2>1 DEF Counts, Mishap
  <2> QED BY <2>2, <2>3 DEF Counts, Replies
<1>3. CASE (\E s \in 1 .. Tmps : upload_file(s)) \/ UNCHANGED vars
  <2>1. UNCHANGED <<pc, reply, failures, restarts>>
    BY <1>3, ClientFrame DEF workVars, countVars
  <2>2. copies' = copies \/ (Mishap /\ copies' = copies + 1)
    BY <1>3 DEF upload_file, ClientWrites, ClientHasWritten, ClientUnlinks, vars, sourceVars
  <2>3. /\ copies' \in Nat /\ Tmps <= copies'
        /\ failures' + restarts' + copies' <= Tmps + MaxMishaps
    BY <1>0, <2>1, <2>2 DEF Counts, Mishap
  <2> QED BY <2>1, <2>3 DEF Counts, Active
<1> QED BY <1>1, <1>2, <1>3 DEF Next
-----------------------------------------------------------------------------
(***************************************************************************)
(* The temporary files for uploads.  What an upload reads becomes Mixed    *)
(* when a client writes to it, and is otherwise what it opened.            *)
(***************************************************************************)
Sources ==
    /\ source \in [1 .. Tmps -> Versions \cup {Mixed, None}]
    /\ src \in [Workers -> Versions \cup {Mixed}]
    /\ holds \subseteq Workers

Narrowed == \A v \in Workers : src'[v] \in {src[v], Mixed} \/ pc[v] = "source"

Reads(w) ==
    LET s == op[w].cmd.tmp
    IN  /\ UNCHANGED source \/ source' = [source EXCEPT ![s] = None]
        /\ holds' \subseteq holds \cup {w}
        /\ \/ UNCHANGED src
           \/ src' = [src EXCEPT ![w] = Mixed]
           \/ /\ pc[w] = "source" /\ op[w].cmd \in Commands /\ source[s] # None
              /\ src' = [src EXCEPT ![w] = source[s]]

LEMMA ReadCases ==
  ASSUME NEW w \in Workers, Types, WorkerNext(w)
  PROVE  Reads(w)
<1> USE DEF At, Goto, Reply, sourceVars, readVars, Reads
<1>1. CASE \E cmd \in Commands : Begin(w, cmd)
  BY <1>1 DEF Begin
<1>2. CASE Active(w) /\ (user_store_signup(w) \/ SignupMkdir(w) \/ user_store_lock_user(w))
  BY <1>2 DEF user_store_signup, SignupMkdir, user_store_lock_user
<1>3. CASE Active(w) /\ (user_store_login(w) \/ fs_list(w) \/ fs_delete(w))
  BY <1>3 DEF user_store_login, fs_list, fs_delete
<1>4. CASE Active(w) /\ (UploadCheck(w) \/ UploadMkdir(w))
  BY <1>4 DEF UploadCheck, UploadMkdir
<1>5. CASE Active(w) /\ UploadOpenSource(w)
  BY <1>5 DEF UploadOpenSource, Types
<1>6. CASE Active(w) /\ (UploadOpen(w) \/ UploadCopy(w) \/ UploadClose(w) \/ UploadRemove(w))
  BY <1>6 DEF UploadOpen, UploadCopy, UploadClose, UploadRemove
<1>7. CASE Active(w) /\ UploadUnlink(w)
  BY <1>7 DEF UploadUnlink, Unlink
<1>8. CASE Active(w) /\ (DownloadOpen(w) \/ DownloadTemp(w))
  BY <1>8 DEF DownloadOpen, DownloadTemp
<1>9. CASE Active(w) /\ (DownloadCopy(w) \/ DownloadClose(w))
  BY <1>9 DEF DownloadCopy, DownloadClose, DownloadFail
<1> QED BY <1>1, <1>2, <1>3, <1>4, <1>5, <1>6, <1>7, <1>8, <1>9, Zenon
         DEF WorkerNext, SIGNUP, LOGIN, UPLOAD, DOWNLOAD, DELETE, LIST

LEMMA NextSources ==
  ASSUME Types, Counts, Sources, [Next]_vars
  PROVE  Sources' /\ Narrowed
<1>1. ASSUME NEW w \in Workers, WorkerNext(w) PROVE Sources' /\ Narrowed
  <2>1. Reads(w)
    BY <1>1, ReadCases
  <2>2. source' \in [1 .. Tmps -> Versions \cup {Mixed, None}] /\ holds' \subseteq Workers
    BY <2>1 DEF Reads, Sources
  <2>3. CASE UNCHANGED src \/ src' = [src EXCEPT ![w] = Mixed]
    BY <2>2, <2>3 DEF Sources, Narrowed
  <2>4. CASE /\ pc[w] = "source" /\ op[w].cmd \in Commands /\ source[op[w].cmd.tmp] # None
             /\ src' = [src EXCEPT ![w] = source[op[w].cmd.tmp]]
    <3>1. source[op[w].cmd.tmp] \in Versions \cup {Mixed}
      BY <2>4, CommandFacts DEF Sources
    <3> QED BY <2>2, <2>4, <3>1 DEF Sources, Narrowed
  <2> QED BY <2>1, <2>3, <2>4 DEF Reads
<1>2. CASE Restart
  BY <1>2 DEF Restart, sourceVars, Sources, Narrowed
<1>3. ASSUME NEW s \in 1 .. Tmps, upload_file(s) PROVE Sources' /\ Narrowed
  <2>1. CASE ClientWrites(s)
    BY <2>1 DEF ClientWrites, Sources, Narrowed
  <2>2. CASE ClientHasWritten(s)
    <3>1. copies \in Versions
      BY StorageAssumption DEF Counts, Versions
    <3> QED BY <2>2, <3>1 DEF ClientHasWritten, readVars, Sources, Narrowed
  <2>3. CASE ClientUnlinks(s)
    BY <2>3 DEF ClientUnlinks, Unlink, Sources, Narrowed
  <2> QED BY <1>3, <2>1, <2>2, <2>3 DEF upload_file
<1>4. CASE UNCHANGED vars
  BY <1>4 DEF vars, sourceVars, readVars, Sources, Narrowed
<1> QED BY <1>1, <1>2, <1>3, <1>4 DEF Next
-----------------------------------------------------------------------------
(***************************************************************************)
(* The contents of files.  What is uploaded, stored, read and sent back is *)
(* followed from one file object to the next.                              *)
(***************************************************************************)

(* w has the stored file open for writing; w has not got that far. *)
Early == {"begin", "found", "mkdir", "source", "open"}
Is(w, type) == Active(w) /\ op[w].cmd.type = type
Copies(w) == pc[w] = "copy" /\ op[w].cmd.type = "UPLOAD"
Nearing(w) == pc[w] \in Early /\ op[w].cmd.type = "UPLOAD"

Contents == Seq(Block \cup {Hole})

(* The rest of TypeOK; a stored file is no longer than an upload. *)
FileTypes ==
    /\ link \in [Files -> Ids \cup {None}]
    /\ disk \in [Ids -> Contents]
    /\ \A n \in Ids : Len(disk[n]) <= Blocks
    /\ DOMAIN temp = TempNames
    /\ expect \in [Files -> Versions \cup {Absent, Mixed}]
    /\ started <= MaxTasks
    /\ \A w \in Workers :
         /\ Active(w) => op[w].id \in 1 .. started
         /\ pc[w] = "copy" => op[w].i \in 1 .. Blocks + 1
         /\ pc[w] = "copy" \/ (pc[w] = "open" /\ op[w].cmd.type = "DOWNLOAD") => op[w].file \in Ids

(* A file object never changes its name, as long as it has one or is being *)
(* written.                                                                *)
Objects ==
    /\ \A f, g \in Files : link[f] # None /\ link[f] = link[g] => f = g
    /\ \A w \in Workers : Copies(w) => \A f \in Files : link[f] = op[w].file => f = File(w)
    /\ \A v, w \in Workers : Copies(v) /\ Copies(w) /\ op[v].file = op[w].file => File(v) = File(w)

(* The object that an upload may create does not exist before. *)
Fresh ==
    /\ \A f \in Files : link[f] # None => link[f] <= started
    /\ \A w \in Workers : Copies(w) => op[w].file <= started
    /\ \A v, w \in Workers : v # w /\ Active(v) /\ Active(w) => op[v].id # op[w].id
    /\ \A w \in Workers :
         Nearing(w) =>
           /\ \A f \in Files : link[f] # op[w].id
           /\ \A v \in Workers : Copies(v) => op[v].file # op[w].id

(* While w is alone, no task that disturbs it is under way. *)
Undisturbed ==
    \A v, w \in Workers :
      v # w /\ Active(v) /\ Active(w) /\ op[w].alone => ~ Disturbs(op[v].cmd, op[w].cmd)

(* The first n elements of F, and the decoded form of the contents s. *)
Prefix(F, n) == [j \in 1 .. n |-> F[j]]
Decoded(s) == [j \in 1 .. Len(s) |-> decode_data(s[j])]

(* An upload that is alone has written the blocks up to its place, and     *)
(* nothing else, to the file that has the name.                            *)
Written(w) ==
    /\ link[File(w)] = op[w].file
    /\ src[w] # Mixed => disk[op[w].file] = Prefix(Stored(src[w]), op[w].i - 1)

WrittenInv == \A w \in Workers : Copies(w) /\ op[w].alone => Written(w)

(* A download that is alone has read the same of the file that has the     *)
(* name, and its temporary file holds the decoded blocks.                  *)
Sent(w) ==
    /\ op[w].named
    /\ op[w].i <= Len(disk[op[w].file]) + 1
    /\ temp[op[w].temp] = Prefix(Decoded(disk[op[w].file]), op[w].i - 1)

ReadInv ==
    \A w \in Workers :
      Is(w, "DOWNLOAD") =>
        /\ pc[w] \in {"open", "copy"} /\ op[w].alone => link[File(w)] = op[w].file
        /\ pc[w] = "copy" => /\ op[w].temp \in TempNames
                             /\ op[w].temp[1] = TempName(User(w), op[w].cmd.path)
        /\ pc[w] = "copy" /\ op[w].alone => Sent(w)

(* UploadKept for one file. *)
Kept(f) ==
    (\A w \in Workers : ~Writing(w, f)) =>
      /\ expect[f] \in Versions => link[f] # None /\ disk[link[f]] = Stored(expect[f])
      /\ expect[f] = Absent => link[f] = None

FileFacts ==
    /\ FileTypes /\ Objects /\ Fresh /\ Undisturbed /\ WrittenInv /\ ReadInv
    /\ \A f \in Files : Kept(f)

FileInv == Inv /\ Counts /\ Sources /\ FileFacts
-----------------------------------------------------------------------------
(***************************************************************************)
(* Blocks and contents.                                                    *)
(***************************************************************************)
LEMMA IdsNat == Ids \subseteq Nat /\ Blocks \in Nat /\ MaxTasks \in Nat
BY StorageAssumption DEF Ids

LEMMA VersionFacts == Mixed \notin Versions /\ Absent \notin Versions /\ Mixed # Absent
BY StorageAssumption DEF Versions, Mixed, Absent

(* A block of the n-th copy, and its stored form. *)
LEMMA StoredBlock ==
  ASSUME NEW n \in Versions \cup {Mixed}, NEW i \in 1 .. Blocks
  PROVE  /\ Stored(n)[i] = encode_data(Source(n)[i])
         /\ Stored(n)[i] \in Block
         /\ decode_data(Stored(n)[i]) = Source(n)[i]
<1>0. \A x, y : [[of |-> n, i |-> i, encoded |-> x] EXCEPT !.encoded = y]
                 = [of |-> n, i |-> i, encoded |-> y]
  OBVIOUS
<1>1. Source(n)[i] = [of |-> n, i |-> i, encoded |-> FALSE]
  BY DEF Source
<1>2. Stored(n)[i] = encode_data(Source(n)[i])
  BY DEF Stored
<1>3. Stored(n)[i] = [of |-> n, i |-> i, encoded |-> TRUE]
  <2>1. (~ FALSE) = TRUE
    OBVIOUS
  <2>2. encode_data([of |-> n, i |-> i, encoded |-> FALSE])
          = [[of |-> n, i |-> i, encoded |-> FALSE] EXCEPT !.encoded = ~ FALSE]
    BY Zenon DEF encode_data
  <2>3. [[of |-> n, i |-> i, encoded |-> FALSE] EXCEPT !.encoded = TRUE]
          = [of |-> n, i |-> i, encoded |-> TRUE]
    BY <1>0, Zenon
  <2> QED BY <1>1, <1>2, <2>1, <2>2, <2>3, Zenon
<1>4. decode_data(Stored(n)[i]) = [of |-> n, i |-> i, encoded |-> FALSE]
  <2>1. (~ TRUE) = FALSE
    OBVIOUS
  <2>2. decode_data([of |-> n, i |-> i, encoded |-> TRUE])
          = [[of |-> n, i |-> i, encoded |-> TRUE] EXCEPT !.encoded = ~ TRUE]
    BY Zenon DEF decode_data, encode_data
  <2>3. [[of |-> n, i |-> i, encoded |-> TRUE] EXCEPT !.encoded = FALSE]
          = [of |-> n, i |-> i, encoded |-> FALSE]
    BY <1>0, Zenon
  <2> QED BY <1>3, <2>1, <2>2, <2>3, Zenon
<1>5. Stored(n)[i] \in Block
  BY <1>3 DEF Block
<1> QED BY <1>1, <1>2, <1>4, <1>5

LEMMA StoredLen == \A n : Len(Stored(n)) = Blocks /\ Stored(n) = Prefix(Stored(n), Blocks)
<1> SUFFICES ASSUME NEW n
             PROVE  Len(Stored(n)) = Blocks /\ Stored(n) = Prefix(Stored(n), Blocks)
  OBVIOUS
<1>1. Len(Stored(n)) = Blocks
  BY IdsNat DEF Stored
<1>2. Stored(n) = Prefix(Stored(n), Blocks)
  BY DEF Stored, Prefix
<1> QED BY <1>1, <1>2

LEMMA PrefixFacts ==
  ASSUME NEW F, NEW n \in Nat
  PROVE  /\ Len(Prefix(F, n)) = n
         /\ WriteAt(Prefix(F, n), n + 1, F[n + 1]) = Prefix(F, n + 1)
         /\ Prefix(F, 0) = << >>
<1>1. Len(Prefix(F, n)) = n
  BY DEF Prefix
<1>2. n + 1 \in Nat /\ n + 1 > n
  OBVIOUS
<1>3. WriteAt(Prefix(F, n), n + 1, F[n + 1])
        = [j \in 1 .. n + 1 |-> IF j = n + 1 THEN F[n + 1] ELSE IF j <= n THEN Prefix(F, n)[j] ELSE Hole]
  BY <1>1, <1>2 DEF WriteAt
<1>4. \A j \in 1 .. n + 1 : (IF j = n + 1 THEN F[n + 1] ELSE IF j <= n THEN Prefix(F, n)[j] ELSE Hole)
                              = F[j]
  BY DEF Prefix
<1>5. Prefix(F, 0) = << >>
  BY DEF Prefix
<1> QED BY <1>1, <1>3, <1>4, <1>5 DEF Prefix

(* Reading a stored upload gives back the client's file. *)
LEMMA DecodedStored ==
  ASSUME NEW n \in Versions
  PROVE  Decoded(Stored(n)) = Source(n)
<1>1. Decoded(Stored(n)) = [j \in 1 .. Blocks |-> decode_data(Stored(n)[j])]
  BY StoredLen DEF Decoded
<1>2. Source(n) = [j \in 1 .. Blocks |-> Source(n)[j]]
  BY DEF Source
<1> QED BY <1>1, <1>2, StoredBlock

LEMMA DecodedFacts ==
  ASSUME NEW s \in Contents
  PROVE  /\ Prefix(Decoded(s), Len(s)) = Decoded(s)
         /\ \A j \in 1 .. Len(s) : Decoded(s)[j] = decode_data(s[j])
BY DEF Decoded, Prefix

LEMMA WriteType ==
  ASSUME NEW s \in Contents, NEW i \in 1 .. Blocks, NEW b \in Block, Len(s) <= Blocks
  PROVE  WriteAt(s, i, b) \in Contents /\ Len(WriteAt(s, i, b)) <= Blocks
<1>1. PICK m \in Nat : m = IF i > Len(s) THEN i ELSE Len(s)
  BY IdsNat DEF Contents
<1>2. m <= Blocks
  BY <1>1, IdsNat DEF Contents
<1>3. \A j \in 1 .. m :
        (IF j = i THEN b ELSE IF j <= Len(s) THEN s[j] ELSE Hole) \in Block \cup {Hole}
  BY <1>1, IdsNat DEF Contents
<1>4. WriteAt(s, i, b)
        = [j \in 1 .. m |-> IF j = i THEN b ELSE IF j <= Len(s) THEN s[j] ELSE Hole]
  BY <1>1 DEF WriteAt
<1>5. WriteAt(s, i, b) \in Seq(Block \cup {Hole}) /\ Len(WriteAt(s, i, b)) = m
  BY <1>3, <1>4
<1> QED BY <1>2, <1>5 DEF Contents
-----------------------------------------------------------------------------
(***************************************************************************)
(* The kinds of steps, as far as the contents of files are concerned.      *)
(***************************************************************************)
OthersSame(w) == \A v \in Workers \ {w} : pc'[v] = pc[v] /\ op'[v] = op[v]

(* w gets on with its task, or ends one that has no file open for writing. *)
Minor(w) ==
    /\ OthersSame(w) /\ UNCHANGED <<link, disk, temp, expect, started>>
    /\ Active(w)
    /\ \/ pc'[w] = "idle" /\ (pc[w] \in Early \cup {"unlink"} \/ op[w].cmd.type = "DOWNLOAD")
       \/ /\ op'[w] = op[w] /\ pc[w] \in Early /\ pc'[w] \in Early
          /\ pc'[w] = "open" => op[w].cmd.type = "UPLOAD"

(* A name is removed, by fs_delete or after a failed upload, or should     *)
(* have been.                                                              *)
Unlinked(w) ==
    /\ OthersSame(w) /\ UNCHANGED <<disk, temp, started>>
    /\ pc[w] \in {"found", "remove"} /\ op[w].cmd.type \in {"UPLOAD", "DELETE"}
    /\ File(w) \in Files /\ pc'[w] = "idle"
    /\ \/ /\ link' = [link EXCEPT ![File(w)] = None]
          /\ expect' = [expect EXCEPT ![File(w)] = IF op[w].alone THEN Absent ELSE Mixed]
       \/ UNCHANGED link /\ expect' = [expect EXCEPT ![File(w)] = Mixed]

(* An upload opens the stored file, which is n from now on. *)
Opened(w, n) ==
    /\ OthersSame(w) /\ UNCHANGED <<temp, expect, started>>
    /\ At(w, "UPLOAD", "open") /\ File(w) \in Files
    /\ n = IF link[File(w)] = None THEN op[w].id ELSE link[File(w)]
    /\ link' = [link EXCEPT ![File(w)] = n]
    /\ disk' = [disk EXCEPT ![n] = << >>]
    /\ pc'[w] = "copy" /\ op'[w] = [op[w] EXCEPT !.file = n, !.i = 1]

(* An upload writes a block. *)
Wrote(w) ==
    /\ OthersSame(w) /\ UNCHANGED <<link, temp, expect, started>>
    /\ Copies(w) /\ File(w) \in Files /\ op[w].i <= Blocks
    /\ disk' = [disk EXCEPT ![op[w].file] =
                  WriteAt(@, op[w].i, encode_data(Source(src[w])[op[w].i]))]
    /\ pc'[w] = pc[w] /\ op'[w] = [op[w] EXCEPT !.i = op[w].i + 1]

(* An upload fails to write or to close. *)
Failing(w) ==
    /\ OthersSame(w) /\ UNCHANGED <<link, disk, temp, expect, started>>
    /\ Copies(w) /\ op'[w] = op[w] /\ pc'[w] = "remove"

(* An upload ends. *)
Closed(w) ==
    /\ OthersSame(w) /\ UNCHANGED <<link, disk, temp, started>>
    /\ Copies(w) /\ File(w) \in Files /\ (op[w].i > Blocks \/ src[w] = Mixed)
    /\ op'[w] = op[w] /\ pc'[w] = "unlink"
    /\ expect' = [expect EXCEPT ![File(w)] = IF op[w].alone THEN src[w] ELSE Mixed]

(* A download opens the stored file, opens its temporary file, copies a    *)
(* block, fails.                                                           *)
Opening(w) ==
    /\ OthersSame(w) /\ UNCHANGED <<link, disk, temp, expect, started>>
    /\ At(w, "DOWNLOAD", "found") /\ File(w) \in Files /\ link[File(w)] # None
    /\ pc'[w] = "open" /\ op'[w] = [op[w] EXCEPT !.file = link[File(w)]]

Naming(w, k) ==
    LET t == <<TempName(User(w), op[w].cmd.path), k>>
    IN  /\ OthersSame(w) /\ UNCHANGED <<link, disk, expect, started>>
        /\ At(w, "DOWNLOAD", "open") /\ t \in TempNames
        /\ temp' = [temp EXCEPT ![t] = << >>]
        /\ pc'[w] = "copy" /\ op'[w] = [op[w] EXCEPT !.temp = t, !.named = TRUE, !.i = 1]

Sending(w) ==
    LET s == disk[op[w].file]
        b == decode_data(s[op[w].i])
    IN  /\ OthersSame(w) /\ UNCHANGED <<link, disk, expect, started>>
        /\ At(w, "DOWNLOAD", "copy") /\ op[w].i <= Len(s)
        /\ temp' = IF op[w].named THEN [temp EXCEPT ![op[w].temp] = WriteAt(@, op[w].i, b)]
                                  ELSE temp
        /\ pc'[w] = pc[w] /\ op'[w] = [op[w] EXCEPT !.i = op[w].i + 1]

Discarded(w) ==
    /\ UNCHANGED <<link, disk, expect, started>>
    /\ At(w, "DOWNLOAD", "copy") /\ pc'[w] = "idle"
    /\ temp' = [temp EXCEPT ![op[w].temp] = None]
    /\ \A v \in Workers \ {w} : pc'[v] = pc[v]
    /\ \A v \in Workers \ {w} :
         op'[v] = IF op[v].temp = op[w].temp THEN [op[v] EXCEPT !.named = FALSE] ELSE op[v]

(* w begins a task: any task that one of the two disturbs is not alone. *)
Begun(w) ==
    /\ UNCHANGED <<link, disk, temp, expect>>
    /\ ~Active(w) /\ started' = started + 1 /\ started' <= MaxTasks
    /\ pc'[w] = "begin" /\ op'[w].id = started + 1
    /\ op'[w].alone => \A x \in Workers \ {w} : Active(x) => ~Disturbs(op[x].cmd, op'[w].cmd)
    /\ \A v \in Workers \ {w} :
         /\ pc'[v] = pc[v]
         /\ op'[v] = op[v] \/ op'[v] = [op[v] EXCEPT !.alone = FALSE]
         /\ Active(v) /\ Disturbs(op'[w].cmd, op[v].cmd) => ~op'[v].alone

Restarted ==
    /\ UNCHANGED <<link, disk, temp, started>>
    /\ \A w \in Workers : pc'[w] = "idle"
    /\ expect' = [f \in Files |-> IF \E w \in Workers : Writing(w, f) THEN Mixed
                                                                      ELSE expect[f]]

Still == UNCHANGED <<pc, op, link, disk, temp, expect, started>>

Shapes ==
    \/ \E w \in Workers : \/ Minor(w) \/ Unlinked(w) \/ (\E n : Opened(w, n))
                          \/ Wrote(w) \/ Failing(w) \/ Closed(w)
                          \/ Opening(w) \/ (\E k : Naming(w, k)) \/ Sending(w)
                          \/ Discarded(w) \/ Begun(w)
    \/ Restarted \/ Still

(* The steps that at most advance a worker. *)
LEMMA MinorCases ==
  ASSUME NEW w \in Workers, Types, Pathed,
         \/ user_store_signup(w) \/ SignupMkdir(w) \/ user_store_lock_user(w)
         \/ user_store_login(w) \/ fs_list(w) \/ UploadCheck(w) \/ UploadMkdir(w)
         \/ UploadOpenSource(w) \/ UploadUnlink(w)
  PROVE  Minor(w)
<1>1. /\ UNCHANGED <<link, disk, temp, expect, started>>
      /\ pc[w] \in Early \cup {"unlink"}
      /\ \/ Ends(w)
         \/ /\ pc[w] \in Early
            /\ \/ Goes(w, "found") \/ Goes(w, "mkdir") \/ Goes(w, "source")
               \/ Goes(w, "open") /\ op[w].cmd.type = "UPLOAD"
  <2>1. CASE user_store_signup(w) \/ SignupMkdir(w)
    BY <2>1 DEF user_store_signup, SignupMkdir, At, Reply, Done, Goto, fileVars, countVars,
         histVars, Early, Ends, Goes
  <2>2. CASE user_store_lock_user(w) \/ user_store_login(w) \/ fs_list(w)
    BY <2>2 DEF user_store_lock_user, user_store_login, fs_list, At, Reply, Done, Goto,
         storeVars, fileVars, countVars, histVars, Early, Ends, Goes
  <2>3. CASE UploadCheck(w) \/ UploadMkdir(w)
    BY <2>3 DEF UploadCheck, UploadMkdir, At, Reply, Done, Goto, storeVars, fileVars,
         countVars, histVars, Early, Ends, Goes
  <2>4. CASE UploadOpenSource(w) \/ UploadUnlink(w)
    BY <2>4 DEF UploadOpenSource, UploadUnlink, At, Reply, Done, storeVars, fileVars,
         countVars, histVars, Early, Ends, Goes
  <2> QED BY <2>1, <2>2, <2>3, <2>4
<1>2. Active(w)
  BY <1>1 DEF Active, Early
<1> QED BY <1>1, <1>2 DEF Minor, OthersSame, Types, Early, Ends, Goes

LEMMA DeleteCases ==
  ASSUME NEW w \in Workers, Types, fs_delete(w)
  PROVE  Minor(w) \/ Unlinked(w)
<1>1. /\ UNCHANGED <<disk, temp, started>>
      /\ pc[w] = "found" /\ op[w].cmd.type = "DELETE" /\ Ends(w)
  BY DEF fs_delete, At, Reply, Done, Ends, countVars
<1>2. OthersSame(w) /\ pc'[w] = "idle" /\ Active(w)
  BY <1>1 DEF OthersSame, Types, Ends, Active
<1>3. CASE UNCHANGED <<link, expect>>
  BY <1>1, <1>2, <1>3 DEF Minor, Early
<1>4. CASE /\ op[w].cmd.path # << >> /\ link' = [link EXCEPT ![File(w)] = None]
           /\ expect' = [expect EXCEPT ![File(w)] = IF op[w].alone THEN Absent ELSE Mixed]
  <2>1. File(w) \in Files
    BY <1>2, <1>4, FileOf
  <2>2. pc[w] \in {"found", "remove"} /\ op[w].cmd.type \in {"UPLOAD", "DELETE"}
    BY <1>1
  <2> QED BY <1>1, <1>2, <1>4, <2>1, <2>2, Zenon DEF Unlinked
<1> QED BY <1>3, <1>4 DEF fs_delete

LEMMA UploadCases ==
  ASSUME NEW w \in Workers, Types, Pathed,
         UploadOpen(w) \/ UploadCopy(w) \/ UploadClose(w) \/ UploadRemove(w)
  PROVE  Minor(w) \/ (\E n : Opened(w, n)) \/ Wrote(w) \/ Failing(w) \/ Closed(w) \/ Unlinked(w)
<1>0. pc[w] \in {"open", "copy", "remove"} /\ op[w].cmd.type = "UPLOAD" /\ File(w) \in Files
  BY DEF UploadOpen, UploadCopy, UploadClose, UploadRemove, At, Pathed, Later
<1>1. CASE UploadOpen(w)
  <2> DEFINE n == IF link[File(w)] = None THEN op[w].id ELSE link[File(w)]
  <2>1. UNCHANGED <<temp, expect, started>> /\ At(w, "UPLOAD", "open")
    BY <1>1 DEF UploadOpen, countVars, histVars
  <2>2. CASE /\ link' = [link EXCEPT ![File(w)] = n]
             /\ disk' = [disk EXCEPT ![n] = << >>]
             /\ pc' = [pc EXCEPT ![w] = "copy"]
             /\ op' = [op EXCEPT ![w].file = n, ![w].i = 1]
    <3>1. OthersSame(w) /\ pc'[w] = "copy" /\ op'[w] = [op[w] EXCEPT !.file = n, !.i = 1]
      BY <2>2 DEF OthersSame, Types
    <3>2. Opened(w, n)
      BY <1>0, <2>1, <2>2, <3>1 DEF Opened
    <3> QED BY <3>2
  <2>3. CASE UNCHANGED <<link, disk>> /\ Ends(w)
    BY <2>1, <2>3 DEF Minor, OthersSame, Types, Early, Active, At, Ends
  <2> QED BY <1>1, <2>2, <2>3 DEF UploadOpen, Reply, Done, Ends
<1>2. CASE UploadCopy(w)
  <2>1. UNCHANGED <<link, temp, expect, started>> /\ Copies(w) /\ op[w].i <= Blocks
    BY <1>2 DEF UploadCopy, countVars, histVars, At, Copies
  <2>2. CASE /\ disk' = [disk EXCEPT ![op[w].file] =
                           WriteAt(@, op[w].i, encode_data(Source(src[w])[op[w].i]))]
             /\ op' = [op EXCEPT ![w].i = op[w].i + 1]
             /\ UNCHANGED pc
    <3>1. OthersSame(w) /\ pc'[w] = pc[w] /\ op'[w] = [op[w] EXCEPT !.i = op[w].i + 1]
      BY <2>2 DEF OthersSame, Types
    <3> QED BY <1>0, <2>1, <2>2, <3>1 DEF Wrote
  <2>3. CASE UNCHANGED <<disk, op>> /\ pc' = [pc EXCEPT ![w] = "remove"]
    BY <2>1, <2>3 DEF Failing, OthersSame, Types
  <2> QED BY <1>2, <2>2, <2>3 DEF UploadCopy, Goto
<1>3. CASE UploadClose(w)
  <2>1. /\ UNCHANGED <<link, disk, temp, started, op>> /\ Copies(w)
        /\ op[w].i > Blocks \/ src[w] = Mixed
    BY <1>3 DEF UploadClose, fileVars, countVars, At, Copies, Goto
  <2>2. CASE /\ expect' = [expect EXCEPT ![File(w)] = IF op[w].alone THEN src[w] ELSE Mixed]
             /\ pc' = [pc EXCEPT ![w] = "unlink"]
    <3>1. OthersSame(w) /\ pc'[w] = "unlink" /\ op'[w] = op[w]
      BY <2>1, <2>2 DEF OthersSame, Types
    <3> QED BY <1>0, <2>1, <2>2, <3>1, Zenon DEF Closed
  <2>3. CASE UNCHANGED expect /\ pc' = [pc EXCEPT ![w] = "remove"]
    BY <2>1, <2>3 DEF Failing, OthersSame, Types
  <2> QED BY <1>3, <2>2, <2>3 DEF UploadClose, Goto
<1>4. CASE UploadRemove(w)
  <2>1. /\ UNCHANGED <<disk, temp, started>> /\ pc[w] = "remove" /\ Ends(w)
        /\ \/ /\ link' = [link EXCEPT ![File(w)] = None]
              /\ expect' = [expect EXCEPT ![File(w)] = IF op[w].alone THEN Absent ELSE Mixed]
           \/ UNCHANGED link /\ expect' = [expect EXCEPT ![File(w)] = Mixed]
    BY <1>4 DEF UploadRemove, countVars, At, Reply, Done, Ends
  <2>2. OthersSame(w) /\ pc'[w] = "idle"
    BY <2>1 DEF OthersSame, Types, Ends
  <2>3. pc[w] \in {"found", "remove"} /\ op[w].cmd.type \in {"UPLOAD", "DELETE"}
    BY <1>0, <2>1
  <2> QED BY <1>0, <2>1, <2>2, <2>3, Zenon DEF Unlinked
<1> QED BY <1>1, <1>2, <1>3, <1>4

LEMMA DownloadCases ==
  ASSUME NEW w \in Workers, Types, Pathed,
         DownloadOpen(w) \/ DownloadTemp(w) \/ DownloadCopy(w) \/ DownloadClose(w)
  PROVE  Minor(w) \/ Opening(w) \/ (\E k : Naming(w, k)) \/ Sending(w) \/ Discarded(w)
<1>0. /\ pc[w] \in {"found", "open", "copy"} /\ op[w].cmd.type = "DOWNLOAD" /\ File(w) \in Files
      /\ UNCHANGED <<link, disk, expect, started>> /\ Active(w)
  <2>1. pc[w] \in {"found", "open", "copy"} /\ op[w].cmd.type = "DOWNLOAD"
        /\ UNCHANGED <<link, disk, expect, started>>
    BY DEF DownloadOpen, DownloadTemp, DownloadCopy, DownloadClose, At, fileVars, countVars,
           histVars
  <2> QED BY <2>1 DEF Pathed, Later, Active
<1>1. CASE UNCHANGED temp /\ Ends(w)
  BY <1>0, <1>1 DEF Minor, OthersSame, Types, Ends
<1>2. CASE DownloadOpen(w) /\ ~(UNCHANGED temp /\ Ends(w))
  <2>1. /\ op' = [op EXCEPT ![w].file = link[File(w)]] /\ link[File(w)] # None
        /\ pc' = [pc EXCEPT ![w] = "open"] /\ UNCHANGED temp /\ At(w, "DOWNLOAD", "found")
    BY <1>2 DEF DownloadOpen, fileVars, Reply, Done, Ends
  <2>2. OthersSame(w) /\ pc'[w] = "open" /\ op'[w] = [op[w] EXCEPT !.file = link[File(w)]]
    BY <2>1 DEF OthersSame, Types
  <2> QED BY <1>0, <2>1, <2>2 DEF Opening
<1>3. CASE DownloadTemp(w) /\ ~(UNCHANGED temp /\ Ends(w))
  <2>1. PICK k \in Seconds :
          /\ temp' = [temp EXCEPT ![<<TempName(User(w), op[w].cmd.path), k>>] = << >>]
          /\ op' = [op EXCEPT ![w].temp = <<TempName(User(w), op[w].cmd.path), k>>,
                              ![w].named = TRUE, ![w].i = 1]
          /\ pc' = [pc EXCEPT ![w] = "copy"]
    BY <1>3, Zenon DEF DownloadTemp, Reply, Done, Ends
  <2> DEFINE t == <<TempName(User(w), op[w].cmd.path), k>>
  <2>2. t \in TempNames
    BY <1>0, TempFacts
  <2>3. OthersSame(w) /\ pc'[w] = "copy"
    BY <2>1 DEF OthersSame, Types
  <2>4. op'[w] = [op[w] EXCEPT !.temp = t, !.named = TRUE, !.i = 1]
    BY <2>1 DEF Types
  <2>5. At(w, "DOWNLOAD", "open")
    BY <1>3 DEF DownloadTemp
  <2>6. Naming(w, k)
    BY <1>0, <2>1, <2>2, <2>3, <2>4, <2>5, Zenon DEF Naming
  <2> QED BY <2>6
<1>4. CASE DownloadFail(w) /\ At(w, "DOWNLOAD", "copy") /\ ~(UNCHANGED temp /\ Ends(w))
  <2>1. /\ temp' = [temp EXCEPT ![op[w].temp] = None]
        /\ op' = [v \in Workers |-> IF v = w THEN NoOp
                    ELSE IF op[v].temp = op[w].temp THEN [op[v] EXCEPT !.named = FALSE]
                    ELSE op[v]]
        /\ pc' = [pc EXCEPT ![w] = "idle"]
    BY <1>4, Zenon DEF DownloadFail, Done, Ends
  <2>2. pc'[w] = "idle" /\ \A v \in Workers \ {w} : pc'[v] = pc[v]
    BY <2>1 DEF Types
  <2>3. \A v \in Workers \ {w} :
          op'[v] = IF op[v].temp = op[w].temp THEN [op[v] EXCEPT !.named = FALSE] ELSE op[v]
    BY <2>1, Zenon
  <2> QED BY <1>0, <1>4, <2>1, <2>2, <2>3, Zenon DEF Discarded
<1>5. CASE DownloadCopy(w) /\ ~DownloadFail(w)
  <2> DEFINE s == disk[op[w].file]
             b == decode_data(s[op[w].i])
  <2>1. /\ temp' = IF op[w].named THEN [temp EXCEPT ![op[w].temp] = WriteAt(@, op[w].i, b)]
                                  ELSE temp
        /\ op' = [op EXCEPT ![w].i = op[w].i + 1]
        /\ UNCHANGED pc
        /\ op[w].i <= Len(s) /\ At(w, "DOWNLOAD", "copy")
    BY <1>5, Zenon DEF DownloadCopy
  <2>2. OthersSame(w) /\ pc'[w] = pc[w] /\ op'[w] = [op[w] EXCEPT !.i = op[w].i + 1]
    BY <2>1 DEF OthersSame, Types
  <2> QED BY <1>0, <2>1, <2>2, Zenon DEF Sending
<1>6. CASE DownloadClose(w) /\ ~DownloadFail(w)
  BY <1>1, <1>6 DEF DownloadClose, Reply, Done, Ends
<1>7. DownloadCopy(w) \/ DownloadClose(w) => At(w, "DOWNLOAD", "copy")
  BY DEF DownloadCopy, DownloadClose
<1> QED BY <1>1, <1>2, <1>3, <1>4, <1>5, <1>6, <1>7, Zenon

LEMMA BeginCase ==
  ASSUME NEW w \in Workers, NEW cmd \in Commands, Types, Begin(w, cmd)
  PROVE  Begun(w)
<1> DEFINE a == \A x \in Workers \ {w} : Active(x) => ~Disturbs(op[x].cmd, cmd)
<1>1. /\ UNCHANGED <<link, disk, temp, expect>>
      /\ ~Active(w) /\ started < MaxTasks /\ started' = started + 1
      /\ pc' = [pc EXCEPT ![w] = "begin"]
  BY DEF Begin, fileVars, histVars
<1>2. started' <= MaxTasks
  BY <1>1, IdsNat DEF Types
<1>3. op'[w].id = started + 1 /\ op'[w].cmd = cmd /\ (op'[w].alone => a)
  <2>1. PICK b : b = a /\ op'[w] = [NoOp EXCEPT !.cmd = cmd, !.id = started + 1, !.alone = b]
    BY Zenon DEF Begin
  <2>2. op'[w].id = started + 1 /\ op'[w].cmd = cmd /\ op'[w].alone = b
    BY <2>1 DEF NoOp
  <2>3. op'[w].alone => a
    <3>1. CASE a
      BY <3>1
    <3>2. CASE ~a
      <4>1. b = FALSE
        BY <2>1, <3>2, Zenon
      <4> QED BY <2>2, <4>1
    <3> QED BY <3>1, <3>2
  <2> HIDE DEF a
  <2> QED BY <2>2, <2>3, Zenon
<1>4. ASSUME NEW v \in Workers \ {w}
      PROVE  /\ pc'[v] = pc[v]
             /\ op'[v] = op[v] \/ op'[v] = [op[v] EXCEPT !.alone = FALSE]
             /\ Active(v) /\ Disturbs(cmd, op[v].cmd) => ~op'[v].alone
  <2>1. pc'[v] = pc[v]
    BY <1>1 DEF Types
  <2>2. op'[v] = IF Active(v) /\ Disturbs(cmd, op[v].cmd) THEN [op[v] EXCEPT !.alone = FALSE]
                                                          ELSE op[v]
    BY Zenon DEF Begin
  <2>3. [op[v] EXCEPT !.alone = FALSE].alone = FALSE
    BY DEF Types, Op
  <2> QED BY <2>1, <2>2, <2>3, Zenon
<1>5. pc'[w] = "begin"
  BY <1>1 DEF Types
<1> QED BY <1>1, <1>2, <1>3, <1>4, <1>5, Zenon DEF Begun

LEMMA FileCases ==
  ASSUME Types, Pathed, [Next]_vars
  PROVE  Shapes
<1>1. CASE Restart
  <2>1. Restarted
    BY <1>1 DEF Restart, Restarted, fileVars
  <2> QED BY <2>1 DEF Shapes
<1>2. CASE (\E s \in 1 .. Tmps : upload_file(s)) \/ UNCHANGED vars
  <2>1. Still
    BY <1>2, ClientFrame DEF Still, fileVars, workVars, countVars, histVars
  <2> QED BY <2>1 DEF Shapes
<1>3. ASSUME NEW w \in Workers, WorkerNext(w)
      PROVE  Shapes
  <2>1. CASE \E cmd \in Commands : Begin(w, cmd)
    BY <2>1, BeginCase DEF Shapes
  <2>2. CASE \/ user_store_signup(w) \/ SignupMkdir(w) \/ user_store_lock_user(w)
             \/ user_store_login(w) \/ fs_list(w) \/ UploadCheck(w) \/ UploadMkdir(w)
             \/ UploadOpenSource(w) \/ UploadUnlink(w)
    BY <2>2, MinorCases DEF Shapes
  <2>3. CASE fs_delete(w)
    BY <2>3, DeleteCases DEF Shapes
  <2>4. CASE UploadOpen(w) \/ UploadCopy(w) \/ UploadClose(w) \/ UploadRemove(w)
    BY <2>4, UploadCases DEF Shapes
  <2>5. CASE DownloadOpen(w) \/ DownloadTemp(w) \/ DownloadCopy(w) \/ DownloadClose(w)
    BY <2>5, DownloadCases DEF Shapes
  <2> QED BY <1>3, <2>1, <2>2, <2>3, <2>4, <2>5, Zenon
           DEF WorkerNext, SIGNUP, LOGIN, UPLOAD, DOWNLOAD, DELETE, LIST
<1> QED BY <1>1, <1>2, <1>3, Zenon DEF Next
-----------------------------------------------------------------------------
(***************************************************************************)
(* The invariant of the contents, kind by kind.                            *)
(***************************************************************************)
(* A task that is alone shares its file with no upload and no deletion,    *)
(* and its temporary name with no download.                                *)
LEMMA Alone ==
  ASSUME Undisturbed, NEW v \in Workers, NEW w \in Workers, v # w,
         Active(v), Active(w), op[w].alone
  PROVE  /\ op[v].cmd.type \in {"UPLOAD", "DELETE"} => File(v) # File(w)
         /\ op[v].cmd.type = "DOWNLOAD" /\ op[w].cmd.type = "DOWNLOAD"
              => TempName(User(v), op[v].cmd.path) # TempName(User(w), op[w].cmd.path)
BY DEF Undisturbed, Disturbs, File, User

(* What an upload has written stays, as long as its file does. *)
LEMMA WrittenKept ==
  ASSUME NEW v \in Workers, Copies(v), Written(v), Narrowed, op'[v].cmd = op[v].cmd,
         op'[v].file = op[v].file, op'[v].i = op[v].i,
         link'[File(v)] = link[File(v)], disk'[op[v].file] = disk[op[v].file]
  PROVE  Written(v)'
<1>1. src'[v] # Mixed => src'[v] = src[v]
  BY DEF Narrowed, Copies
<1> QED BY <1>1 DEF Written, File, User

LEMMA MinorFiles ==
  ASSUME NEW w \in Workers, Types, FileFacts, Minor(w), Narrowed
  PROVE  FileFacts'
<1> USE DEF FileFacts
<1>0. /\ UNCHANGED <<link, disk, temp, expect, started>>
      /\ \A v \in Workers \ {w} : op'[v] = op[v] /\ pc'[v] = pc[v]
      /\ pc'[w] \in {"idle", "begin", "found", "mkdir", "source", "open"}
      /\ pc'[w] = "open" => op[w].cmd.type = "UPLOAD"
      /\ pc'[w] # "idle" => pc[w] \in Early /\ op'[w] = op[w]
      /\ pc[w] \in Early \cup {"unlink"} \/ op[w].cmd.type = "DOWNLOAD"
  BY DEF Minor, OthersSame, Early
<1>2. \A v \in Workers : /\ Copies(v)' => Copies(v) /\ v # w /\ op'[v] = op[v]
                         /\ Nearing(v)' => Nearing(v) /\ op'[v] = op[v]
                         /\ Active(v)' => Active(v) /\ op'[v] = op[v] /\ File(v)' = File(v)
                         /\ Copies(v)' \/ Nearing(v)' => Active(v)'
  BY <1>0 DEF Copies, Nearing, Active, File, User, Early
<1>1. FileTypes'
  <2>1. \A v \in Workers : Active(v)' => op'[v].id \in 1 .. started'
    BY <1>0, <1>2 DEF FileTypes
  <2> QED BY <1>0, <2>1 DEF FileTypes
<1>3. Objects'
  BY <1>0, <1>2 DEF Objects
<1>4. Fresh'
  BY <1>0, <1>2 DEF Fresh
<1>5. Undisturbed'
  BY <1>0, <1>2 DEF Undisturbed
<1>6. WrittenInv'
  BY <1>0, <1>2, WrittenKept DEF WrittenInv
<1>7. ReadInv'
  BY <1>0, <1>2 DEF ReadInv, Sent, Is, User
<1>8. \A f \in Files : Kept(f)'
  <2>1. \A f \in Files : (\A v \in Workers : ~Writing(v, f)') => \A v \in Workers : ~Writing(v, f)
    BY <1>0 DEF Writing, File, User, Early
  <2> QED BY <1>0, <2>1 DEF Kept
<1> QED BY <1>1, <1>3, <1>4, <1>5, <1>6, <1>7, <1>8

LEMMA FailingFiles ==
  ASSUME NEW w \in Workers, Types, FileFacts, Failing(w), Narrowed
  PROVE  FileFacts'
<1> USE DEF FileFacts
<1>0. /\ UNCHANGED <<link, disk, temp, expect, started>>
      /\ \A v \in Workers : op'[v] = op[v] /\ (v # w => pc'[v] = pc[v])
      /\ pc[w] = "copy" /\ op[w].cmd.type = "UPLOAD" /\ pc'[w] = "remove"
  BY DEF Failing, OthersSame, Copies
<1>1. FileTypes'
  BY <1>0 DEF FileTypes, Active
<1>2. \A v \in Workers : /\ Copies(v)' => Copies(v) /\ v # w
                         /\ Nearing(v)' => Nearing(v)
                         /\ Active(v)' => Active(v)
                         /\ File(v)' = File(v)
  BY <1>0 DEF Copies, Nearing, Active, File, User, Early
<1>3. Objects'
  BY <1>0, <1>2 DEF Objects
<1>4. Fresh'
  BY <1>0, <1>2 DEF Fresh
<1>5. Undisturbed'
  BY <1>0, <1>2 DEF Undisturbed
<1>6. WrittenInv'
  BY <1>0, <1>2, WrittenKept DEF WrittenInv
<1>7. ReadInv'
  BY <1>0, <1>2 DEF ReadInv, Sent, Is, User
<1>8. \A f \in Files : Kept(f)'
  <2>1. \A f \in Files : (\A v \in Workers : ~Writing(v, f)') => \A v \in Workers : ~Writing(v, f)
    BY <1>0, <1>2 DEF Writing
  <2> QED BY <1>0, <2>1 DEF Kept
<1> QED BY <1>1, <1>3, <1>4, <1>5, <1>6, <1>7, <1>8

LEMMA StillFiles ==
  ASSUME FileFacts, Still, Narrowed
  PROVE  FileFacts'
<1> USE DEF FileFacts, Still
<1>1. FileTypes'
  BY DEF FileTypes, Active
<1>2. Objects' /\ Fresh' /\ Undisturbed'
  BY DEF Objects, Fresh, Undisturbed, Copies, Nearing, Active, File, User
<1>3. WrittenInv'
  BY WrittenKept DEF WrittenInv, Copies
<1>4. ReadInv'
  BY DEF ReadInv, Sent, Is, Active, File, User
<1>5. \A f \in Files : Kept(f)'
  BY DEF Kept, Writing, File, User
<1> QED BY <1>1, <1>2, <1>3, <1>4, <1>5

LEMMA RestartFiles ==
  ASSUME Types, FileFacts, Restarted
  PROVE  FileFacts'
<1> USE DEF FileFacts
<1>0. /\ UNCHANGED <<link, disk, temp, started>>
      /\ \A w \in Workers : pc'[w] = "idle"
      /\ expect' = [f \in Files |-> IF \E w \in Workers : Writing(w, f) THEN Mixed ELSE expect[f]]
  BY DEF Restarted
<1>1. FileTypes'
  <2>1. expect' \in [Files -> Versions \cup {Absent, Mixed}]
    BY <1>0 DEF FileTypes
  <2> QED BY <1>0, <2>1 DEF FileTypes, Active
<1>2. Objects' /\ Fresh' /\ Undisturbed'
  BY <1>0 DEF Objects, Fresh, Undisturbed, Copies, Nearing, Active, Early
<1>3. WrittenInv' /\ ReadInv'
  BY <1>0 DEF WrittenInv, ReadInv, Copies, Is, Active
<1>4. ASSUME NEW f \in Files PROVE Kept(f)'
  <2>2. CASE \E w \in Workers : Writing(w, f)
    BY <1>0, <2>2, VersionFacts DEF Kept
  <2>3. CASE ~ \E w \in Workers : Writing(w, f)
    <3>1. expect'[f] = expect[f]
      BY <1>0, <2>3
    <3> QED BY <1>0, <2>3, <3>1 DEF Kept
  <2> QED BY <2>2, <2>3
<1> QED BY <1>1, <1>2, <1>3, <1>4

LEMMA BegunFiles ==
  ASSUME NEW w \in Workers, Types, FileFacts, Begun(w), Narrowed
  PROVE  FileFacts'
<1> USE DEF FileFacts
<1>0. /\ UNCHANGED <<link, disk, temp, expect>>
      /\ ~Active(w) /\ started' = started + 1 /\ started' <= MaxTasks /\ started \in Nat
      /\ pc'[w] = "begin" /\ op'[w].id = started + 1
      /\ \A v \in Workers \ {w} : pc'[v] = pc[v]
  BY DEF Begun, Types
<1>1. ASSUME NEW v \in Workers \ {w}
      PROVE  /\ op'[v].cmd = op[v].cmd /\ op'[v].id = op[v].id /\ op'[v].file = op[v].file
             /\ op'[v].i = op[v].i /\ op'[v].temp = op[v].temp
             /\ op'[v].alone => op'[v] = op[v]
  <2>1. op[v] \in Op
    BY DEF Types
  <2>2. CASE op'[v] = op[v]
    BY <2>2
  <2>3. CASE op'[v] = [op[v] EXCEPT !.alone = FALSE]
    BY <2>1, <2>3 DEF Op
  <2> QED BY <2>2, <2>3 DEF Begun
<1>2. FileTypes'
  BY <1>0, <1>1 DEF FileTypes, Active
<1>3. \A v \in Workers : /\ Copies(v)' => Copies(v) /\ v # w
                         /\ Active(v)' => v = w \/ Active(v)
                         /\ Nearing(v)' => v = w \/ Nearing(v)
                         /\ v # w => File(v)' = File(v)
  BY <1>0, <1>1 DEF Copies, Nearing, Active, File, User, Early
<1>4. Objects'
  BY <1>0, <1>1, <1>3 DEF Objects
<1>5. Fresh'
  <2>1. \A v \in Workers : Active(v) => op[v].id <= started
    BY <1>0, IdsNat DEF FileTypes
  <2>2. \A f \in Files : link'[f] # None => link'[f] <= started' /\ link'[f] # started'
    <3>1. \A f \in Files : link[f] # None => link[f] \in Nat /\ link[f] <= started
      <4>1. \A f \in Files : link[f] # None => link[f] \in Nat
        BY IdsNat DEF FileTypes
      <4> QED BY <4>1 DEF Fresh
    <3> QED BY <1>0, <3>1
  <2>3. \A v \in Workers : Copies(v)' => op'[v].file <= started' /\ op'[v].file # started'
    <3>1. \A v \in Workers : Copies(v) => op[v].file <= started /\ op[v].file \in Nat
      BY IdsNat DEF Fresh, FileTypes, Copies
    <3> QED BY <1>0, <1>1, <1>3, <3>1
  <2>4. started' # None
    BY <1>0, StorageAssumption
  <2>5. \A v, x \in Workers : v # x /\ Active(v)' /\ Active(x)' => op'[v].id # op'[x].id
    BY <1>0, <1>1, <1>3, <2>1 DEF Fresh
  <2>6. ASSUME NEW x \in Workers, Nearing(x)'
        PROVE  /\ \A f \in Files : link'[f] # op'[x].id
               /\ \A v \in Workers : Copies(v)' => op'[v].file # op'[x].id
    <3>1. CASE x = w
      BY <1>0, <2>2, <2>3, <2>4, <3>1
    <3>2. CASE x # w
      BY <1>0, <1>1, <1>3, <2>6, <3>2 DEF Fresh
    <3> QED BY <3>1, <3>2
  <2>7. \A f \in Files : link'[f] # None => link'[f] <= started'
    BY <2>2
  <2>8. \A v \in Workers : Copies(v)' => op'[v].file <= started'
    BY <2>3
  <2> QED BY <2>5, <2>6, <2>7, <2>8 DEF Fresh
<1>6. Undisturbed'
  <2> SUFFICES ASSUME NEW v \in Workers, NEW x \in Workers, v # x, Active(v)', Active(x)',
                      op'[x].alone
               PROVE  ~Disturbs(op'[v].cmd, op'[x].cmd)
    BY DEF Undisturbed, Disturbs
  <2>1. CASE x = w
    BY <1>1, <1>3, <2>1, Zenon DEF Begun
  <2>2. CASE v = w
    BY <1>1, <1>3, <2>2, Zenon DEF Begun
  <2>3. CASE v # w /\ x # w
    BY <1>1, <1>3, <2>3, Zenon DEF Undisturbed
  <2> QED BY <2>1, <2>2, <2>3
<1>7. WrittenInv'
  BY <1>0, <1>1, <1>3, WrittenKept DEF WrittenInv
<1>8. ReadInv'
  <2> SUFFICES ASSUME NEW x \in Workers, Is(x, "DOWNLOAD")', pc'[x] \in {"open", "copy"}
               PROVE  /\ op'[x].alone => link'[File(x)'] = op'[x].file
                      /\ pc'[x] = "copy" => /\ op'[x].temp \in TempNames
                                           /\ op'[x].temp[1] = TempName(User(x)', op'[x].cmd.path)
                      /\ pc'[x] = "copy" /\ op'[x].alone => Sent(x)'
    BY DEF ReadInv
  <2>1. x # w /\ Is(x, "DOWNLOAD") /\ pc'[x] = pc[x] /\ File(x)' = File(x) /\ User(x)' = User(x)
    BY <1>0, <1>1, <1>3 DEF Is, User, Active
  <2> QED BY <1>0, <1>1, <2>1 DEF ReadInv, Sent
<1>9. \A f \in Files : Kept(f)'
  <2>1. \A f \in Files : (\A v \in Workers : ~Writing(v, f)') => \A v \in Workers : ~Writing(v, f)
    BY <1>0, <1>1 DEF Writing, File, User, Active
  <2> QED BY <1>0, <2>1 DEF Kept
<1> QED BY <1>2, <1>4, <1>5, <1>6, <1>7, <1>8, <1>9

LEMMA UnlinkedFiles ==
  ASSUME NEW w \in Workers, Types, Pathed, FileFacts, Unlinked(w), Narrowed
  PROVE  FileFacts'
<1> USE DEF FileFacts
<1>0. /\ UNCHANGED <<disk, temp, started>>
      /\ \A v \in Workers \ {w} : op'[v] = op[v] /\ pc'[v] = pc[v]
      /\ pc'[w] = "idle" /\ Active(w) /\ op[w].cmd.type \in {"UPLOAD", "DELETE"}
      /\ File(w) \in Files
  BY DEF Unlinked, OthersSame, Active
<1>1. /\ link' \in [Files -> Ids \cup {None}]
      /\ link'[File(w)] \in {None, link[File(w)]}
      /\ \A f \in Files \ {File(w)} : link'[f] = link[f]
  BY DEF Unlinked, FileTypes
<1>2. /\ \/ link'[File(w)] = None /\ expect'[File(w)] = Absent
         \/ expect'[File(w)] = Mixed
      /\ \A f \in Files \ {File(w)} : expect'[f] = expect[f]
      /\ expect' \in [Files -> Versions \cup {Absent, Mixed}]
  BY DEF Unlinked, FileTypes
<1>3. \A v \in Workers : /\ Copies(v)' => Copies(v) /\ v # w
                         /\ Nearing(v)' => Nearing(v) /\ v # w
                         /\ Active(v)' => Active(v) /\ v # w
                         /\ v # w => File(v)' = File(v)
  BY <1>0 DEF Copies, Nearing, Active, File, User, Early
<1>4. FileTypes'
  BY <1>0, <1>1, <1>2, <1>3 DEF FileTypes, Active
<1>5. None \notin Nat
  BY StorageAssumption
<1>6. Objects'
  <2>1. \A v \in Workers : Copies(v) => op[v].file # None
    BY <1>5, IdsNat DEF FileTypes, Copies
  <2> QED BY <1>0, <1>1, <1>3, <2>1 DEF Objects
<1>7. Fresh'
  <2>1. \A v \in Workers : op[v].id # None
    BY <1>5 DEF Types, Op
  <2> QED BY <1>0, <1>1, <1>3, <2>1 DEF Fresh
<1>8. Undisturbed'
  BY <1>0, <1>3 DEF Undisturbed
<1>9. WrittenInv'
  <2> SUFFICES ASSUME NEW v \in Workers, Copies(v)', op'[v].alone PROVE Written(v)'
    BY DEF WrittenInv
  <2>1. v # w /\ Copies(v) /\ op'[v] = op[v] /\ op[v].alone /\ Active(v) /\ Written(v)
    BY <1>0, <1>3 DEF Copies, Active, WrittenInv
  <2>2. File(v) # File(w)
    BY <1>0, <2>1, Alone
  <2>3. File(v) \in Files
    BY <2>1 DEF Copies, Pathed, Later
  <2> QED BY <1>0, <1>1, <2>1, <2>2, <2>3, WrittenKept
<1>10. ReadInv'
  <2>1. ASSUME NEW v \in Workers, Is(v, "DOWNLOAD")', pc'[v] \in {"open", "copy"}
        PROVE  /\ v # w /\ Is(v, "DOWNLOAD") /\ File(v) \in Files
               /\ op[v].alone => link'[File(v)] = link[File(v)]
    <3>1. v # w /\ Active(v) /\ Is(v, "DOWNLOAD") /\ pc[v] \in {"open", "copy"}
      BY <1>0, <1>3, <2>1 DEF Is, Active
    <3>2. File(v) \in Files
      BY <3>1 DEF Pathed, Is, Later
    <3>3. op[v].alone => File(v) # File(w)
      BY <1>0, <3>1, Alone
    <3> QED BY <1>1, <3>1, <3>2, <3>3
  <2>2. \A v \in Workers : Is(v, "DOWNLOAD")' => Active(v)'
    BY DEF Is
  <2> QED BY <1>0, <1>3, <2>1, <2>2 DEF ReadInv, Sent, User
<1>11. \A f \in Files : Kept(f)'
  <2>1. ASSUME NEW f \in Files, f = File(w) PROVE Kept(f)'
    BY <1>1, <1>2, <2>1, VersionFacts DEF Kept
  <2>2. ASSUME NEW f \in Files \ {File(w)} PROVE Kept(f)'
    <3>1. \A v \in Workers : Writing(v, f) => Writing(v, f)'
      BY <1>0, <1>3, <2>2 DEF Writing
    <3> QED BY <1>0, <1>1, <1>2, <2>2, <3>1 DEF Kept
  <2> QED BY <2>1, <2>2, Zenon
<1> QED BY <1>4, <1>6, <1>7, <1>8, <1>9, <1>10, <1>11

LEMMA ClosedFiles ==
  ASSUME NEW w \in Workers, Types, Sources, FileFacts, Closed(w), Narrowed
  PROVE  FileFacts'
<1> USE DEF FileFacts
<1>0. /\ UNCHANGED <<link, disk, temp, started>>
      /\ \A v \in Workers : op'[v] = op[v] /\ (v # w => pc'[v] = pc[v])
      /\ pc'[w] = "unlink" /\ Copies(w) /\ File(w) \in Files
      /\ op[w].i > Blocks \/ src[w] = Mixed
  BY DEF Closed, OthersSame
<1>1. op[w].file \in Ids /\ op[w].i \in 1 .. Blocks + 1 /\ src[w] \in Versions \cup {Mixed}
  BY <1>0 DEF FileTypes, Copies, Sources
<1>2. /\ expect'[File(w)] = IF op[w].alone THEN src[w] ELSE Mixed
      /\ \A f \in Files \ {File(w)} : expect'[f] = expect[f]
      /\ expect' \in [Files -> Versions \cup {Absent, Mixed}]
  BY <1>1 DEF Closed, FileTypes
<1>3. FileTypes'
  BY <1>0, <1>2 DEF FileTypes, Active, Copies
<1>4. \A v \in Workers : /\ Copies(v)' => Copies(v) /\ v # w
                         /\ Nearing(v)' => Nearing(v)
                         /\ Active(v)' => Active(v)
                         /\ File(v)' = File(v)
  BY <1>0 DEF Copies, Nearing, Active, File, User, Early
<1>5. Objects' /\ Fresh' /\ Undisturbed'
  BY <1>0, <1>4 DEF Objects, Fresh, Undisturbed
<1>6. WrittenInv'
  BY <1>0, <1>4, WrittenKept DEF WrittenInv
<1>7. ReadInv'
  BY <1>0, <1>4 DEF ReadInv, Sent, Is, User
<1>8. \A f \in Files : Kept(f)'
  <2>0. None \notin Nat
    BY StorageAssumption
  <2>1. None \notin Ids
    BY <2>0, IdsNat
  <2>2. ASSUME NEW f \in Files, f = File(w) PROVE Kept(f)'
    <3>1. CASE op[w].alone /\ src[w] # Mixed
      <4>1. link[File(w)] = op[w].file /\ disk[op[w].file] = Prefix(Stored(src[w]), op[w].i - 1)
        BY <1>0, <3>1 DEF WrittenInv, Written
      <4>2. op[w].i - 1 = Blocks
        BY <1>0, <1>1, <3>1, IdsNat
      <4>3. disk[op[w].file] = Stored(src[w])
        BY <4>1, <4>2, StoredLen
      <4>4. expect'[File(w)] = src[w] /\ src[w] # Absent
        BY <1>1, <1>2, <3>1, VersionFacts
      <4> QED BY <1>0, <1>1, <2>1, <2>2, <4>1, <4>3, <4>4 DEF Kept
    <3>2. CASE ~op[w].alone \/ src[w] = Mixed
      <4>1. expect'[File(w)] = Mixed
        BY <1>2, <3>2
      <4> QED BY <2>2, <4>1, VersionFacts DEF Kept
    <3> QED BY <3>1, <3>2
  <2>3. ASSUME NEW f \in Files \ {File(w)} PROVE Kept(f)'
    <3>1. \A v \in Workers : Writing(v, f) => Writing(v, f)'
      BY <1>0, <1>4, <2>3 DEF Writing
    <3> QED BY <1>0, <1>2, <2>3, <3>1 DEF Kept
  <2> QED BY <2>2, <2>3, Zenon
<1> QED BY <1>3, <1>5, <1>6, <1>7, <1>8

(* UploadOpen: the object n was w's file, or it is new. *)
LEMMA OpenedFiles ==
  ASSUME NEW w \in Workers, NEW n, Types, Pathed, FileFacts, Opened(w, n), Narrowed
  PROVE  FileFacts'
<1> USE DEF FileFacts
<1>0. /\ UNCHANGED <<temp, expect, started>>
      /\ \A v \in Workers \ {w} : op'[v] = op[v] /\ pc'[v] = pc[v]
      /\ pc'[w] = "copy" /\ pc[w] = "open" /\ op[w].cmd.type = "UPLOAD"
      /\ File(w) \in Files /\ Active(w) /\ Nearing(w)
  BY DEF Opened, OthersSame, At, Active, Nearing, Early
<1>1. /\ op'[w].cmd = op[w].cmd /\ op'[w].id = op[w].id /\ op'[w].alone = op[w].alone
      /\ op'[w].file = n /\ op'[w].i = 1
  BY DEF Opened, Types, Op
<1>2. /\ n \in Ids /\ n \in Nat /\ n # None /\ n <= started
      /\ link[File(w)] = n \/ n = op[w].id
  <2>1. op[w].id \in Ids /\ op[w].id <= started
    BY <1>0, IdsNat DEF FileTypes, Ids, Types
  <2>2. link[File(w)] # None => link[File(w)] \in Ids /\ link[File(w)] <= started
    BY <1>0 DEF FileTypes, Fresh
  <2> QED BY <2>1, <2>2, IdsNat, StorageAssumption DEF Opened
<1>3. \A f \in Files : link[f] = n => f = File(w)
  BY <1>0, <1>2 DEF Objects, Fresh
<1>4. \A v \in Workers : Copies(v) /\ op[v].file = n => File(v) = File(w)
  BY <1>0, <1>2 DEF Objects, Fresh
<1>5. /\ link' \in [Files -> Ids \cup {None}]
      /\ link'[File(w)] = n /\ \A f \in Files \ {File(w)} : link'[f] = link[f]
  BY <1>2 DEF Opened, FileTypes
<1>6. /\ disk' \in [Ids -> Contents]
      /\ disk'[n] = << >> /\ \A m \in Ids \ {n} : disk'[m] = disk[m]
  BY <1>2 DEF Opened, FileTypes, Contents
<1>7. FileTypes'
  <2>1. \A m \in Ids : Len(disk'[m]) <= Blocks
    <3>1. Len(<< >>) <= Blocks
      BY IdsNat
    <3> QED BY <1>6, <3>1 DEF FileTypes
  <2>2. 1 \in 1 .. Blocks + 1
    BY IdsNat
  <2> QED BY <1>0, <1>1, <1>2, <1>5, <1>6, <2>1, <2>2 DEF FileTypes, Active
<1>8. \A v \in Workers : /\ Copies(v)' <=> (v = w \/ Copies(v))
                         /\ Nearing(v)' => Nearing(v) /\ v # w
                         /\ Active(v)' <=> Active(v)
                         /\ File(v)' = File(v)
                         /\ op'[v].cmd = op[v].cmd /\ op'[v].id = op[v].id
                         /\ op'[v].alone = op[v].alone
  BY <1>0, <1>1 DEF Copies, Nearing, Active, File, User, Early
<1>9. Objects'
  <2>1. \A f, g \in Files : link'[f] # None /\ link'[f] = link'[g] => f = g
    BY <1>3, <1>5 DEF Objects
  <2>2. ASSUME NEW v \in Workers, Copies(v)', NEW f \in Files, link'[f] = op'[v].file
        PROVE  f = File(v)
    <3>1. CASE v = w
      BY <1>1, <1>3, <1>5, <2>2, <3>1
    <3>2. CASE v # w
      BY <1>0, <1>4, <1>5, <1>8, <2>2, <3>2 DEF Objects
    <3> QED BY <3>1, <3>2
  <2>3. \A v, x \in Workers : Copies(v)' /\ Copies(x)' /\ op'[v].file = op'[x].file => File(v) = File(x)
    BY <1>0, <1>1, <1>4, <1>8 DEF Objects
  <2> QED BY <1>8, <2>1, <2>2, <2>3 DEF Objects
<1>10. Fresh'
  <2>1. \A x \in Workers : Nearing(x) /\ x # w => op[x].id # n
    <3>1. \A x \in Workers : Nearing(x) => Active(x)
      BY DEF Nearing, Active, Early
    <3> QED BY <1>0, <1>2, <3>1 DEF Fresh
  <2>2. \A f \in Files : link'[f] # None => link'[f] <= started'
    BY <1>0, <1>2, <1>5 DEF Fresh
  <2>3. \A v \in Workers : Copies(v)' => op'[v].file <= started'
    BY <1>0, <1>1, <1>2, <1>8 DEF Fresh
  <2>4. \A v, x \in Workers : v # x /\ Active(v)' /\ Active(x)' => op'[v].id # op'[x].id
    BY <1>8 DEF Fresh
  <2>5. ASSUME NEW x \in Workers, Nearing(x)'
        PROVE  /\ \A f \in Files : link'[f] # op'[x].id
               /\ \A v \in Workers : Copies(v)' => op'[v].file # op'[x].id
    <3>1. Nearing(x) /\ x # w /\ op[x].id # n /\ op'[x].id = op[x].id
      BY <1>8, <2>1, <2>5
    <3>2. \A f \in Files : link'[f] # op'[x].id
      BY <1>5, <3>1 DEF Fresh
    <3>3. \A v \in Workers : Copies(v)' => op'[v].file # op'[x].id
      BY <1>0, <1>1, <1>8, <3>1 DEF Fresh
    <3> QED BY <3>2, <3>3
  <2> QED BY <2>2, <2>3, <2>4, <2>5 DEF Fresh
<1>11. Undisturbed'
  BY <1>8 DEF Undisturbed
<1>12. WrittenInv'
  <2> SUFFICES ASSUME NEW v \in Workers, Copies(v)', op'[v].alone PROVE Written(v)'
    BY DEF WrittenInv
  <2>1. CASE v = w
    <3>1. \A m : Prefix(Stored(m), 1 - 1) = << >>
      BY PrefixFacts
    <3> QED BY <1>1, <1>5, <1>6, <1>8, <2>1, <3>1 DEF Written
  <2>2. CASE v # w
    <3>1. Copies(v) /\ op[v].alone /\ Active(v) /\ Written(v) /\ op'[v] = op[v]
      BY <1>0, <1>8, <2>2 DEF Copies, Active, WrittenInv
    <3>2. File(v) # File(w) /\ File(v) \in Files
      BY <1>0, <2>2, <3>1, Alone DEF Copies, Pathed, Later
    <3>3. op[v].file # n /\ op[v].file \in Ids
      BY <1>4, <3>1, <3>2 DEF FileTypes, Copies
    <3> QED BY <1>5, <1>6, <3>1, <3>2, <3>3, WrittenKept
  <2> QED BY <2>1, <2>2
<1>13. ReadInv'
  <2>1. ASSUME NEW v \in Workers, Is(v, "DOWNLOAD")', pc'[v] \in {"open", "copy"}
        PROVE  /\ v # w /\ Is(v, "DOWNLOAD") /\ File(v) \in Files
               /\ op[v].alone => link'[File(v)] = link[File(v)] /\ disk'[op[v].file] = disk[op[v].file]
    <3>1. v # w /\ Active(v) /\ Is(v, "DOWNLOAD") /\ pc[v] \in {"open", "copy"}
      BY <1>0, <1>8, <2>1 DEF Is, Active
    <3>2. File(v) \in Files /\ op[v].file \in Ids
      BY <3>1 DEF Pathed, Is, FileTypes, Later
    <3>3. op[v].alone => File(v) # File(w)
      BY <1>0, <3>1, Alone
    <3>4. op[v].alone => link[File(v)] = op[v].file
      BY <3>1 DEF ReadInv
    <3>5. op[v].alone => op[v].file # n
      BY <1>3, <3>2, <3>3, <3>4
    <3> QED BY <1>5, <1>6, <3>1, <3>2, <3>3, <3>5
  <2> QED BY <1>0, <1>8, <2>1 DEF ReadInv, Sent, User
<1>14. \A f \in Files : Kept(f)'
  <2>1. ASSUME NEW f \in Files, f = File(w) PROVE Writing(w, f)'
    BY <1>0, <1>8, <2>1 DEF Writing
  <2>2. ASSUME NEW f \in Files, f = File(w) PROVE Kept(f)'
    BY <2>1, <2>2 DEF Kept
  <2>3. ASSUME NEW f \in Files \ {File(w)} PROVE Kept(f)'
    <3>1. \A v \in Workers : Writing(v, f) => Writing(v, f)'
      BY <1>0, <1>8, <2>3 DEF Writing
    <3>2. link'[f] = link[f] /\ (link[f] # None => disk'[link[f]] = disk[link[f]])
      BY <1>3, <1>5, <1>6, <2>3 DEF FileTypes
    <3> QED BY <1>0, <2>3, <3>1, <3>2 DEF Kept
  <2> QED BY <2>2, <2>3, Zenon
<1> QED BY <1>7, <1>9, <1>10, <1>11, <1>12, <1>13, <1>14

(* UploadCopy: only this upload's file changes. *)
LEMMA WroteFiles ==
  ASSUME NEW w \in Workers, Types, Pathed, Sources, FileFacts, Wrote(w), Narrowed
  PROVE  FileFacts'
<1> USE DEF FileFacts
<1> DEFINE o == op[w].file
<1>0. /\ UNCHANGED <<link, temp, expect, started>>
      /\ \A v \in Workers : (v # w => op'[v] = op[v]) /\ pc'[v] = pc[v]
      /\ Copies(w) /\ File(w) \in Files /\ op[w].i <= Blocks /\ Active(w)
  BY DEF Wrote, OthersSame, Copies, Active
<1>1. /\ op'[w].cmd = op[w].cmd /\ op'[w].id = op[w].id /\ op'[w].alone = op[w].alone
      /\ op'[w].file = op[w].file /\ op'[w].i = op[w].i + 1
  BY DEF Wrote, Types, Op
<1>2. o \in Ids /\ src[w] \in Versions \cup {Mixed} /\ op[w].i \in 1 .. Blocks
  BY <1>0, IdsNat DEF FileTypes, Copies, Sources
<1>3. /\ encode_data(Source(src[w])[op[w].i]) = Stored(src[w])[op[w].i]
      /\ Stored(src[w])[op[w].i] \in Block
  BY <1>2, StoredBlock
<1>4. disk' = [disk EXCEPT ![o] = WriteAt(disk[o], op[w].i, Stored(src[w])[op[w].i])]
  BY <1>2, <1>3 DEF Wrote
<1>5. /\ WriteAt(disk[o], op[w].i, Stored(src[w])[op[w].i]) \in Contents
      /\ Len(WriteAt(disk[o], op[w].i, Stored(src[w])[op[w].i])) <= Blocks
  BY <1>2, <1>3, WriteType DEF FileTypes
<1>6. /\ disk' \in [Ids -> Contents]
      /\ disk'[o] = WriteAt(disk[o], op[w].i, Stored(src[w])[op[w].i])
      /\ \A m \in Ids \ {o} : disk'[m] = disk[m]
      /\ \A m \in Ids : Len(disk'[m]) <= Blocks
  BY <1>2, <1>4, <1>5 DEF FileTypes
<1>7. FileTypes'
  <2>1. op[w].i + 1 \in 1 .. Blocks + 1
    BY <1>2, IdsNat
  <2> QED BY <1>0, <1>1, <1>6, <2>1 DEF FileTypes, Active
<1>8. \A v \in Workers : /\ Copies(v)' <=> Copies(v)
                         /\ Nearing(v)' <=> Nearing(v)
                         /\ Active(v)' <=> Active(v)
                         /\ File(v)' = File(v) /\ op'[v].file = op[v].file
                         /\ op'[v].cmd = op[v].cmd /\ op'[v].id = op[v].id
                         /\ op'[v].alone = op[v].alone
  BY <1>0, <1>1 DEF Copies, Nearing, Active, File, User
<1>9. Objects' /\ Fresh' /\ Undisturbed'
  BY <1>0, <1>8 DEF Objects, Fresh, Undisturbed
<1>10. WrittenInv'
  <2> SUFFICES ASSUME NEW v \in Workers, Copies(v)', op'[v].alone PROVE Written(v)'
    BY DEF WrittenInv
  <2>0. Copies(v) /\ op[v].alone /\ Active(v) /\ Written(v)
    BY <1>8 DEF Copies, Active, WrittenInv
  <2>1. CASE v = w
    <3>0. op[w].i \in Int /\ op[w].i >= 1
      BY <1>2, IdsNat
    <3>1. PICK n \in Nat : op[w].i = n + 1
      <4>1. op[w].i - 1 \in Nat /\ op[w].i = (op[w].i - 1) + 1
        BY <3>0
      <4> QED BY <4>1
    <3>2. op[w].i - 1 = n /\ op'[w].i - 1 = n + 1
      BY <1>1, <3>1
    <3>3. src[w] # Mixed => disk[o] = Prefix(Stored(src[w]), n)
      BY <2>0, <2>1, <3>2 DEF Written
    <3>4. src[w] # Mixed => disk'[o] = Prefix(Stored(src[w]), n + 1)
      BY <1>6, <3>1, <3>3, PrefixFacts
    <3>5. src'[w] # Mixed => src'[w] = src[w]
      BY <1>0 DEF Narrowed, Copies
    <3> QED BY <1>0, <1>8, <2>0, <2>1, <3>2, <3>4, <3>5 DEF Written
  <2>2. CASE v # w
    <3>1. File(v) # File(w) /\ op'[v] = op[v]
      BY <1>0, <2>0, <2>2, Alone DEF Copies
    <3>2. op[v].file # o /\ op[v].file \in Ids
      BY <1>0, <2>0, <3>1 DEF Objects, FileTypes, Copies
    <3> QED BY <1>0, <1>6, <2>0, <3>1, <3>2, WrittenKept
  <2> QED BY <2>1, <2>2
<1>11. ReadInv'
  <2>1. ASSUME NEW v \in Workers, Is(v, "DOWNLOAD")', pc'[v] \in {"open", "copy"}
        PROVE  /\ v # w /\ Is(v, "DOWNLOAD") /\ op'[v] = op[v]
               /\ op[v].alone => disk'[op[v].file] = disk[op[v].file]
    <3>1. v # w /\ Active(v) /\ Is(v, "DOWNLOAD") /\ pc[v] \in {"open", "copy"}
      BY <1>0, <1>8, <2>1 DEF Is, Copies
    <3>2. File(v) \in Files /\ op[v].file \in Ids
      BY <3>1 DEF Pathed, Is, FileTypes, Later
    <3>3. op[v].alone => File(v) # File(w)
      BY <1>0, <3>1, Alone DEF Copies
    <3>4. op[v].alone => link[File(v)] = op[v].file
      BY <3>1 DEF ReadInv
    <3>5. op[v].alone => op[v].file # o
      BY <1>0, <3>2, <3>3, <3>4 DEF Objects
    <3> QED BY <1>0, <1>6, <3>1, <3>2, <3>5
  <2> QED BY <1>0, <1>8, <2>1 DEF ReadInv, Sent, User
<1>12. \A f \in Files : Kept(f)'
  <2>2. ASSUME NEW f \in Files, f = File(w) PROVE Kept(f)'
    <3>1. Writing(w, f)'
      BY <1>0, <1>8, <2>2 DEF Writing, Copies
    <3> QED BY <3>1 DEF Kept
  <2>3. ASSUME NEW f \in Files \ {File(w)} PROVE Kept(f)'
    <3>1. \A v \in Workers : Writing(v, f) => Writing(v, f)'
      BY <1>0, <1>8, <2>3 DEF Writing
    <3>2. link[f] # None => disk'[link[f]] = disk[link[f]]
      BY <1>0, <1>6, <2>3 DEF FileTypes, Objects
    <3> QED BY <1>0, <2>3, <3>1, <3>2 DEF Kept
  <2> QED BY <2>2, <2>3, Zenon
<1> QED BY <1>7, <1>9, <1>10, <1>11, <1>12

(***************************************************************************)
(* The steps of a download change nothing that uploads and deletions rely  *)
(* on.                                                                     *)
(***************************************************************************)
Reading(w) ==
    /\ UNCHANGED <<link, disk, expect, started>>
    /\ Is(w, "DOWNLOAD") /\ pc[w] \in {"found", "open", "copy"}
    /\ pc'[w] \in {"idle", "open", "copy"}
    /\ \A v \in Workers : v # w => pc'[v] = pc[v]
    /\ \A v \in Workers :
         v # w \/ pc'[v] # "idle" => /\ op'[v].cmd = op[v].cmd /\ op'[v].id = op[v].id
                                    /\ op'[v].alone = op[v].alone
    /\ \A v \in Workers : v # w => op'[v].file = op[v].file /\ op'[v].i = op[v].i

LEMMA ReadingFiles ==
  ASSUME NEW w \in Workers, Types, FileFacts, Reading(w), Narrowed
  PROVE  Objects' /\ Fresh' /\ Undisturbed' /\ WrittenInv' /\ \A f \in Files : Kept(f)'
<1> USE DEF FileFacts
<1>0. /\ UNCHANGED <<link, disk, expect, started>>
      /\ op[w].cmd.type = "DOWNLOAD" /\ Active(w) /\ pc[w] \in {"found", "open", "copy"}
      /\ \A v \in Workers : v # w => pc'[v] = pc[v]
      /\ \A v \in Workers : Active(v)' \/ v # w =>
            /\ op'[v].cmd = op[v].cmd /\ op'[v].id = op[v].id /\ op'[v].alone = op[v].alone
      /\ \A v \in Workers : v # w => op'[v].file = op[v].file /\ op'[v].i = op[v].i
  BY DEF Reading, Is, Active
<1>1. \A v \in Workers : /\ Active(v)' => Active(v) /\ File(v)' = File(v)
                         /\ Copies(v)' => Copies(v) /\ v # w /\ Active(v)'
                         /\ Nearing(v)' => Nearing(v) /\ v # w /\ Active(v)'
  <2>1. \A v \in Workers : Active(v)' => Active(v) /\ File(v)' = File(v)
    BY <1>0 DEF Active, File, User
  <2>2. \A v \in Workers : Copies(v)' \/ Nearing(v)' => Active(v)'
    BY DEF Copies, Nearing, Active, Early
  <2> QED BY <1>0, <2>1, <2>2 DEF Copies, Nearing
<1>2. Objects' /\ Undisturbed'
  BY <1>0, <1>1 DEF Objects, Undisturbed
<1>3. Fresh'
  BY <1>0, <1>1 DEF Fresh
<1>4. WrittenInv'
  BY <1>0, <1>1, WrittenKept DEF WrittenInv
<1>5. \A f \in Files : Kept(f)'
  <2>1. \A v \in Workers : v # w => File(v)' = File(v)
    BY <1>0 DEF File, User
  <2>2. \A f \in Files : (\A v \in Workers : ~Writing(v, f)') => \A v \in Workers : ~Writing(v, f)
    BY <1>0, <2>1 DEF Writing
  <2> QED BY <1>0, <2>2 DEF Kept
<1> QED BY <1>2, <1>3, <1>4, <1>5

(* What ReadInv says of one download. *)
ReadOk(w) ==
    Is(w, "DOWNLOAD") =>
      /\ pc[w] \in {"open", "copy"} /\ op[w].alone => link[File(w)] = op[w].file
      /\ pc[w] = "copy" => /\ op[w].temp \in TempNames
                           /\ op[w].temp[1] = TempName(User(w), op[w].cmd.path)
      /\ pc[w] = "copy" /\ op[w].alone => Sent(w)

(* Another download that is alone has another temporary file. *)
LEMMA OtherTemp ==
  ASSUME NEW v \in Workers, NEW w \in Workers, v # w, Undisturbed, ReadInv,
         Is(v, "DOWNLOAD"), Is(w, "DOWNLOAD"), pc[v] = "copy", op[v].alone
  PROVE  /\ pc[w] = "copy" => op[v].temp # op[w].temp
         /\ \A k : op[v].temp # <<TempName(User(w), op[w].cmd.path), k>>
<1>1. TempName(User(v), op[v].cmd.path) # TempName(User(w), op[w].cmd.path)
  BY Alone DEF Is
<1>2. op[v].temp[1] = TempName(User(v), op[v].cmd.path)
  BY DEF ReadInv
<1>3. pc[w] = "copy" => op[w].temp[1] = TempName(User(w), op[w].cmd.path)
  BY DEF ReadInv
<1>4. \A k : <<TempName(User(w), op[w].cmd.path), k>>[1] = TempName(User(w), op[w].cmd.path)
  OBVIOUS
<1> QED BY <1>1, <1>2, <1>3, <1>4, Zenon

(* A step of w keeps ReadOk of the others. *)
LEMMA OtherReads ==
  ASSUME NEW v \in Workers, ReadInv, UNCHANGED <<link, disk>>,
         op'[v].cmd = op[v].cmd, op'[v].alone = op[v].alone, op'[v].file = op[v].file,
         op'[v].i = op[v].i, op'[v].temp = op[v].temp, pc'[v] = pc[v],
         Is(v, "DOWNLOAD") /\ pc[v] = "copy" /\ op[v].alone
           => op'[v] = op[v] /\ temp'[op[v].temp] = temp[op[v].temp]
  PROVE  ReadOk(v)'
BY DEF ReadInv, ReadOk, Sent, Is, Active, File, User

LEMMA DownloadFiles ==
  ASSUME NEW w \in Workers, Types, Pathed, FileFacts, Narrowed,
         Opening(w) \/ (\E k : Naming(w, k)) \/ Sending(w) \/ Discarded(w)
  PROVE  FileFacts'
<1> USE DEF FileFacts
<1>0. /\ UNCHANGED <<link, disk, expect, started>>
      /\ Is(w, "DOWNLOAD") /\ pc[w] \in {"found", "open", "copy"}
      /\ pc'[w] \in {"idle", "open", "copy"}
      /\ \A v \in Workers : v # w => pc'[v] = pc[v]
      /\ op[w].cmd.type = "DOWNLOAD" /\ Active(w)
  BY DEF Opening, Naming, Sending, Discarded, OthersSame, At, Is, Active
<1>1. \A v \in Workers : op[v] \in Op
  BY DEF Types
<1>2. ASSUME NEW v \in Workers
      PROVE  /\ v # w \/ pc'[v] # "idle" =>
                  op'[v].cmd = op[v].cmd /\ op'[v].id = op[v].id /\ op'[v].alone = op[v].alone
             /\ v # w => /\ op'[v].file = op[v].file /\ op'[v].i = op[v].i
                         /\ op'[v].temp = op[v].temp
                         /\ op'[v] = op[v] \/ (Discarded(w) /\ op[v].temp = op[w].temp)
  <2>1. CASE Discarded(w)
    <3>1. CASE v = w
      BY <2>1, <3>1 DEF Discarded
    <3>2. CASE v # w
      BY <1>1, <2>1, <3>2 DEF Discarded, Op
    <3> QED BY <3>1, <3>2
  <2>2. CASE v # w /\ ~Discarded(w)
    BY <2>2 DEF Opening, Naming, Sending, OthersSame
  <2>3. CASE v = w /\ ~Discarded(w)
    BY <1>1, <2>3 DEF Opening, Naming, Sending, Op
  <2> QED BY <2>1, <2>2, <2>3
<1>3. Objects' /\ Fresh' /\ Undisturbed' /\ WrittenInv' /\ \A f \in Files : Kept(f)'
  <2>1. Reading(w)
    BY <1>0, <1>2 DEF Reading
  <2> QED BY <2>1, ReadingFiles
<1>4. DOMAIN temp' = TempNames
  <2>1. DOMAIN temp = TempNames
    BY DEF FileTypes
  <2> QED BY <2>1 DEF Opening, Naming, Sending, Discarded
<1>5. /\ pc'[w] = "copy" => op'[w].i \in 1 .. Blocks + 1
      /\ pc'[w] \in {"open", "copy"} => op'[w].file \in Ids
  <2>1. CASE Opening(w)
    <3>1. pc'[w] = "open" /\ op'[w].file = link[File(w)]
      BY <1>1, <2>1 DEF Opening, Op
    <3> QED BY <2>1, <3>1 DEF Opening, FileTypes
  <2>2. CASE \E k : Naming(w, k)
    <3>1. op'[w].i = 1 /\ op'[w].file = op[w].file
      BY <1>1, <2>2 DEF Naming, Op
    <3>2. op[w].file \in Ids
      BY <2>2 DEF Naming, At, FileTypes
    <3>3. 1 \in 1 .. Blocks + 1
      BY IdsNat
    <3> QED BY <3>1, <3>2, <3>3
  <2>3. CASE Sending(w)
    <3>1. op'[w].i = op[w].i + 1 /\ op'[w].file = op[w].file
      BY <1>1, <2>3 DEF Sending, Op
    <3>2. op[w].file \in Ids /\ op[w].i \in 1 .. Blocks + 1
      BY <2>3 DEF Sending, At, FileTypes
    <3>3. op[w].i <= Len(disk[op[w].file]) /\ Len(disk[op[w].file]) <= Blocks
          /\ Len(disk[op[w].file]) \in Nat
      BY <2>3, <3>2 DEF Sending, FileTypes, Contents
    <3>4. op[w].i + 1 \in 1 .. Blocks + 1
      BY <3>2, <3>3, IdsNat
    <3> QED BY <3>1, <3>2, <3>4
  <2>4. CASE Discarded(w)
    BY <2>4 DEF Discarded
  <2> QED BY <2>1, <2>2, <2>3, <2>4
<1>6. FileTypes'
  BY <1>0, <1>2, <1>4, <1>5 DEF FileTypes, Active
<1>7. ASSUME NEW v \in Workers, v # w PROVE ReadOk(v)'
  <2>1. ASSUME Is(v, "DOWNLOAD"), pc[v] = "copy", op[v].alone
        PROVE  op'[v] = op[v] /\ temp'[op[v].temp] = temp[op[v].temp]
    <3>1. /\ pc[w] = "copy" => op[v].temp # op[w].temp
          /\ \A k : op[v].temp # <<TempName(User(w), op[w].cmd.path), k>>
      BY <1>0, <1>7, <2>1, OtherTemp
    <3>2. op[v].temp \in TempNames /\ DOMAIN temp = TempNames
      BY <2>1 DEF ReadInv, FileTypes
    <3>3. op'[v] = op[v]
      BY <1>2, <1>7, <3>1 DEF Discarded, At
    <3>4. temp'[op[v].temp] = temp[op[v].temp]
      <4>1. CASE Opening(w)
        BY <4>1 DEF Opening
      <4>2. CASE \E k : Naming(w, k)
        BY <3>1, <3>2, <4>2 DEF Naming
      <4>3. CASE Sending(w)
        BY <3>1, <3>2, <4>3 DEF Sending, At
      <4>4. CASE Discarded(w)
        BY <3>1, <3>2, <4>4 DEF Discarded, At
      <4> QED BY <4>1, <4>2, <4>3, <4>4
    <3> QED BY <3>3, <3>4
  <2> QED BY <1>0, <1>2, <1>7, <2>1, OtherReads
<1>8. ReadOk(w)'
  <2>0. pc'[w] # "idle" => File(w)' = File(w) /\ User(w)' = User(w)
    BY <1>2 DEF File, User
  <2>1. CASE Opening(w)
    <3>1. pc'[w] = "open" /\ op'[w].file = link[File(w)]
      BY <1>1, <2>1 DEF Opening, Op
    <3> QED BY <1>0, <2>0, <3>1 DEF ReadOk
  <2>2. ASSUME NEW k, Naming(w, k) PROVE ReadOk(w)'
    <3> DEFINE t == <<TempName(User(w), op[w].cmd.path), k>>
    <3>1. /\ op'[w].i = 1 /\ op'[w].file = op[w].file /\ op'[w].temp = t /\ op'[w].named
      BY <1>1, <2>2 DEF Naming, Op
    <3>2. t \in TempNames /\ t[1] = TempName(User(w), op[w].cmd.path)
      BY <2>2 DEF Naming
    <3>3. temp'[t] = << >>
      BY <2>2, <3>2 DEF Naming, FileTypes
    <3>4. op[w].alone => link[File(w)] = op[w].file
      BY <1>0, <2>2 DEF Naming, At, ReadInv
    <3>5. op[w].file \in Ids /\ 1 <= Len(disk[op[w].file]) + 1
      <4>1. op[w].file \in Ids
        BY <2>2 DEF Naming, At, FileTypes
      <4>2. disk[op[w].file] \in Contents
        BY <4>1 DEF FileTypes
      <4>3. Len(disk[op[w].file]) \in Nat
        BY <4>2 DEF Contents
      <4> QED BY <4>1, <4>3
    <3>6. Prefix(Decoded(disk[op[w].file]), 1 - 1) = << >>
      BY PrefixFacts
    <3> HIDE DEF t
    <3>7. Sent(w)'
      BY <1>0, <3>1, <3>3, <3>5, <3>6 DEF Sent
    <3>8. pc'[w] = "copy"
      BY <2>2 DEF Naming
    <3> QED BY <1>0, <1>2, <2>0, <3>1, <3>2, <3>4, <3>7, <3>8 DEF ReadOk
  <2>3. CASE Sending(w)
    <3> DEFINE s == disk[op[w].file]
    <3>1. /\ op'[w].i = op[w].i + 1 /\ op'[w].file = op[w].file /\ op'[w].temp = op[w].temp
          /\ op'[w].named = op[w].named
      BY <1>1, <2>3 DEF Sending, Op
    <3>2. pc[w] = "copy" /\ op[w].i <= Len(s)
      BY <2>3 DEF Sending, At
    <3>3. op[w].file \in Ids /\ op[w].i \in 1 .. Blocks + 1 /\ s \in Contents
      BY <3>2 DEF FileTypes
    <3>4. /\ op[w].temp \in TempNames /\ op[w].temp[1] = TempName(User(w), op[w].cmd.path)
          /\ op[w].alone => link[File(w)] = op[w].file
      BY <1>0, <3>2 DEF ReadInv
    <3>5. ASSUME op[w].alone PROVE Sent(w)'
      <4>1. /\ op[w].named /\ op[w].i <= Len(s) + 1
            /\ temp[op[w].temp] = Prefix(Decoded(s), op[w].i - 1)
        BY <1>0, <3>2, <3>5 DEF ReadInv, Sent
      <4>0. op[w].i \in Int /\ op[w].i >= 1
        BY <3>3, IdsNat
      <4>2. PICK n \in Nat : op[w].i = n + 1
        <5>1. op[w].i - 1 \in Nat /\ op[w].i = (op[w].i - 1) + 1
          BY <4>0
        <5> QED BY <5>1
      <4>3. op[w].i - 1 = n /\ op'[w].i - 1 = n + 1 /\ n + 1 \in 1 .. Len(s)
        BY <3>1, <3>2, <3>3, <4>2 DEF Contents
      <4>4. Decoded(s)[n + 1] = decode_data(s[n + 1])
        BY <3>3, <4>3, DecodedFacts
      <4>5. temp'[op[w].temp] = WriteAt(temp[op[w].temp], n + 1, decode_data(s[n + 1]))
        BY <2>3, <3>4, <4>1, <4>2 DEF Sending, FileTypes
      <4>6. temp'[op[w].temp] = Prefix(Decoded(s), n + 1)
        BY <4>1, <4>3, <4>4, <4>5, PrefixFacts
      <4>7. op'[w].i <= Len(s) + 1
        BY <3>1, <3>2, <3>3 DEF Contents
      <4> QED BY <1>0, <3>1, <4>1, <4>3, <4>6, <4>7 DEF Sent
    <3> QED BY <1>0, <1>2, <2>0, <3>1, <3>2, <3>4, <3>5 DEF ReadOk
  <2>4. CASE Discarded(w)
    BY <2>4 DEF Discarded, ReadOk, Is, Active
  <2> QED BY <2>1, <2>2, <2>3, <2>4
<1>9. ReadInv'
  <2>1. \A v \in Workers : ReadOk(v)'
    BY <1>7, <1>8
  <2> QED BY <2>1 DEF ReadInv, ReadOk
<1> QED BY <1>3, <1>6, <1>9

LEMMA InitFiles == Init => FileFacts
<1> SUFFICES ASSUME Init PROVE FileFacts
  OBVIOUS
<1> USE DEF Init
<1>1. FileTypes
  <2>1. << >> \in Contents /\ Len(<< >>) <= Blocks
    BY IdsNat DEF Contents
  <2>2. disk \in [Ids -> Contents] /\ \A n \in Ids : Len(disk[n]) <= Blocks
    BY <2>1
  <2>3. link \in [Files -> Ids \cup {None}] /\ expect \in [Files -> Versions \cup {Absent, Mixed}]
    OBVIOUS
  <2> QED BY <2>2, <2>3, IdsNat DEF FileTypes, Active
<1>2. Objects /\ Fresh /\ Undisturbed
  BY DEF Objects, Fresh, Undisturbed, Copies, Nearing, Active, Early
<1>3. WrittenInv /\ ReadInv
  BY DEF WrittenInv, ReadInv, Copies, Is, Active
<1>4. \A f \in Files : Kept(f)
  BY VersionFacts DEF Kept
<1> QED BY <1>1, <1>2, <1>3, <1>4 DEF FileFacts

LEMMA InitSources == Init => Counts /\ Sources
<1> SUFFICES ASSUME Init PROVE Counts /\ Sources
  OBVIOUS
<1>0. Tmps \in Nat /\ MaxMishaps \in Nat
  BY StorageAssumption
<1>1. Counts
  BY <1>0 DEF Init, Counts, Replies, Active
<1>2. \A s \in 1 .. Tmps : s \in Versions
  BY <1>0 DEF Versions
<1>3. Sources
  BY <1>2 DEF Init, Sources
<1> QED BY <1>1, <1>3

LEMMA NextFiles ==
  ASSUME FileInv, [Next]_vars
  PROVE  FileInv'
<1>1. Inv' /\ Counts'
  BY NextInv, NextCounts DEF FileInv
<1>2. Types /\ Pathed /\ Counts /\ Sources /\ FileFacts
  BY DEF FileInv, Inv
<1>3. Shapes
  BY <1>2, FileCases
<1>4. Sources' /\ Narrowed
  BY <1>2, NextSources
<1>5. FileFacts'
  BY <1>2, <1>3, <1>4, MinorFiles, UnlinkedFiles, OpenedFiles, WroteFiles, FailingFiles,
     ClosedFiles, DownloadFiles, BegunFiles, RestartFiles, StillFiles, Zenon DEF Shapes
<1> QED BY <1>1, <1>4, <1>5 DEF FileInv

(* The invariant of the stored files: objects keep their names, a task     *)
(* that is alone has the file to itself, by whatever paths the others      *)
(* come, and what it has read or written so far is a prefix of the whole   *)
(* (fs_upload, fs_download).                                               *)
THEOREM FilesInvariance == Spec => []FileInv
<1>1. Init => FileInv
  BY InitInv, InitSources, InitFiles DEF FileInv
<1>2. FileInv /\ [Next]_vars => FileInv'
  BY NextFiles
<1> QED BY <1>1, <1>2, PTL DEF Spec
-----------------------------------------------------------------------------
(* The types, and with them: every worker's place in a copy loop stays     *)
(* within the file (fs_upload, fs_download), whoever else writes to it.    *)
THEOREM StorageTypes == Spec => []TypeOK
<1>1. FileInv => TypeOK
  <2> SUFFICES ASSUME FileInv PROVE TypeOK
    OBVIOUS
  <2>1. Types /\ FileTypes /\ Counts /\ Sources
    BY DEF FileInv, Inv, FileFacts
  <2>2. started \in 0 .. MaxTasks
    BY <2>1, IdsNat DEF Types, FileTypes
  <2>3. Tmps \in Nat /\ MaxMishaps \in Nat
    BY StorageAssumption
  <2>4. /\ copies \in Tmps .. Tmps + MaxMishaps
        /\ failures \in 0 .. MaxMishaps /\ restarts \in 0 .. MaxMishaps
    BY <2>1, <2>3 DEF Counts
  <2> QED BY <2>1, <2>2, <2>4
          DEF Types, FileTypes, Counts, Sources, Replies, Places, Contents, TypeOK
<1> QED BY <1>1, FilesInvariance, PTL

(* An upload that was answered OK and overlapped no other change of its    *)
(* file, by whatever path, is stored as it was opened until the next one   *)
(* begins to write, and a deleted file stays deleted.  Temporary files may *)
(* be shared, written anew and removed by clients and workers at any time, *)
(* and remove(dst) of a failed upload may fail.                            *)
THEOREM UploadsKept == Spec => []UploadKept
<1>1. FileInv => UploadKept
  BY DEF FileInv, FileFacts, Kept, UploadKept
<1> QED BY <1>1, FilesInvariance, PTL

(* A download answered OK, which nothing disturbed, of such a file         *)
(* delivers in its temporary file what was uploaded, whichever paths the   *)
(* two came by: fs_download decodes every block that fs_upload encoded.    *)
THEOREM DownloadsFaithful == Spec => DownloadFaithful
<1> DEFINE Faithful ==
      \A w \in Workers :
        (At(w, "DOWNLOAD", "copy") /\ reply'[w] = "ok" /\ op[w].alone
           /\ expect[File(w)] \in Versions)
          => temp'[op[w].temp] = Source(expect[File(w)])
<1>1. ASSUME FileInv, [Next]_vars PROVE Faithful
  <2> SUFFICES ASSUME NEW w \in Workers, At(w, "DOWNLOAD", "copy"), reply'[w] = "ok",
                      op[w].alone, expect[File(w)] \in Versions
               PROVE  temp'[op[w].temp] = Source(expect[File(w)])
    OBVIOUS
  <2> DEFINE s == disk[op[w].file]
  <2>0. Types /\ Pathed /\ Counts /\ FileTypes /\ Undisturbed /\ ReadInv /\ \A f \in Files : Kept(f)
    BY <1>1 DEF FileInv, Inv, FileFacts
  <2>1. pc[w] = "copy" /\ op[w].cmd.type = "DOWNLOAD" /\ Active(w) /\ reply[w] = "none"
    BY <2>0 DEF At, Active, Counts
  <2>2. UNCHANGED temp /\ op[w].i > Len(s)
    <3>1. ASSUME NEW v \in Workers, WorkerNext(v) PROVE UNCHANGED temp /\ op[w].i > Len(s)
      <4>1. v = w
        <5>1. Answers(v)
          BY <2>0, <3>1, AnswerCases
        <5> QED BY <2>0, <2>1, <5>1 DEF Answers, Counts
      <4>2. DownloadCopy(w) \/ DownloadClose(w)
        BY <2>1, <3>1, <4>1 DEF WorkerNext, Begin, SIGNUP, LOGIN, UPLOAD, DOWNLOAD, DELETE, LIST,
             Case, user_store_signup, SignupMkdir, user_store_lock_user, DownloadOpen,
             DownloadTemp, At
      <4>3. CASE DownloadFail(w)
        BY <2>0, <4>3 DEF DownloadFail, Done, Counts
      <4>4. CASE DownloadCopy(w) /\ ~DownloadFail(w)
        BY <2>1, <4>4 DEF DownloadCopy
      <4>5. CASE DownloadClose(w) /\ ~DownloadFail(w)
        BY <4>5 DEF DownloadClose
      <4> QED BY <4>2, <4>3, <4>4, <4>5
    <3>2. CASE Restart
      BY <3>2 DEF Restart
    <3>3. CASE (\E k \in 1 .. Tmps : upload_file(k)) \/ UNCHANGED vars
      BY <2>1, <3>3, ClientFrame DEF workVars
    <3> QED BY <1>1, <3>1, <3>2, <3>3 DEF Next
  <2>3. File(w) \in Files /\ op[w].file \in Ids /\ s \in Contents /\ op[w].i \in 1 .. Blocks + 1
    BY <2>0, <2>1 DEF Pathed, Later, FileTypes
  <2>4. /\ link[File(w)] = op[w].file /\ op[w].i <= Len(s) + 1
        /\ temp[op[w].temp] = Prefix(Decoded(s), op[w].i - 1)
    BY <2>0, <2>1 DEF ReadInv, Is, Sent
  <2>5. op[w].i - 1 = Len(s)
    BY <2>2, <2>3, <2>4, IdsNat DEF Contents
  <2>6. temp[op[w].temp] = Decoded(s)
    BY <2>3, <2>4, <2>5, DecodedFacts
  <2>7. \A v \in Workers : ~Writing(v, File(w))
    <3>1. ASSUME NEW v \in Workers, Writing(v, File(w)) PROVE FALSE
      <4>1. v # w /\ Active(v) /\ op[v].cmd.type = "UPLOAD" /\ File(v) = File(w)
        BY <2>1, <3>1 DEF Writing, Active
      <4> QED BY <2>0, <2>1, <4>1, Alone
    <3> QED BY <3>1
  <2>8. s = Stored(expect[File(w)])
    BY <2>0, <2>3, <2>4, <2>7 DEF Kept
  <2> QED BY <2>2, <2>6, <2>8, DecodedStored
<1> HIDE DEF Faithful
<1>2. Spec => [][Faithful]_vars
  BY <1>1, FilesInvariance, PTL DEF Spec
<1> QED BY <1>2 DEF DownloadFaithful, Faithful
=============================================================================
