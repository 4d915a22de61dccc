# A verification of the file server

TLA+ specifications of the multi-threaded file server in `src/`, the TLC
configurations that check them on small instances, and TLAPS proofs. Paths such
as `queue.c` mean `src/src/queue.c`; the C files under `src/src/` and the headers
under `src/include/` are the reference, and `PROJECT.json` maps every definition
to the lines it stands for.

## The system

A TCP server with three kinds of threads:

```
            accept                    queue_pop               queue_pop
   main  ------------>  client_queue -----------> client     task_queue ------> worker
    |   register entry                            threads  --------->           threads
    |        |                                    (4)     queue_push            (4)
    |        v                                     ^                             |
    |   response_map: client_id -> entry (queue,   |   timed wait, take          | users, files
    |                 mutex, condition)  ----------+  <--------- send_response --+
   SIGINT: leave the loop, close the queues, join everybody, clean up
```

| part | state | operations | interacts through |
|---|---|---|---|
| task order (`task.c`) | none | `task_compare_priority` | called by the heap, on every queue, whatever it holds |
| queue (`queue.c`) | array heap, `size`, `capacity`, `closed`, mutex, `not_empty` | init, push, pop (blocking), close, destroy | shared by all threads |
| main (`main.c`) | `running`, listening socket, `next_client_id` | accept loop, register, SIGINT handler, shutdown | `client_queue`, `response_map`, joins |
| client thread (`client.c`) | connection, line, task | receive, parse, push the task, wait at most 5 s for a response, write it | both queues, `response_map`, the socket |
| response map (`main.c`, `worker.c`, `client.c`) | entries by `client_id` | register, find (twice, in two threads), deregister | its own mutex; each entry has another |
| worker (`worker.c`) | task | six commands, `send_response`, free the task | `task_queue`, `response_map`, users, files |
| user store (`user_db.c`) | table of users in SQLite, or a list in memory; user directories | create, signup, login, lock, unlock | one mutex |
| file store (`fs.c`, `crypto.c`) | files under `storage/<user>/`, temporary files of downloads | upload, download, delete, list | the file system, where paths with `..` lead to the files of others; no lock |
| line reader (`recv_line` of `client.c`) | the thread's buffer of 512 bytes | one line from the bytes of a connection | called by the client thread |
| encoding (`crypto.c`) | none | exclusive or with a repeating key | called by the copying loops of the file store |
| client program (`client_program.c`) | socket, login, temporary files of uploads, in a directory that all programs and the server share | signup, login, upload, download, delete, list, quit | sends one line, waits for one read |
| configuration (`config.c`) | three settings | read once, before any thread runs | kind of storage |

What is hard here: the hand-over of tasks, connections and responses between
threads; an entry and a task that are used outside the lock under which they
were found; a response that arrives after its timeout was reported; allocations
that fail and results that are ignored; peers that close or stay silent; a
buffer that outlives a line and a connection; a client that takes one read for
one reply; the shutdown with threads in the middle of something; operations on one file that
nothing keeps apart; and a process that dies between two steps of an operation.
`PROJECT.json` lists these as hazards, each at its line, with the properties
that are about it.

## Modules

| module | models | step |
|---|---|---|
| `TaskOrder` | `task_compare_priority` | (operators) |
| `PriorityQueue` | abstract: what a queue promises | one operation |
| `PriorityHeap` | the array of `queue.c` with both heapify loops | one loop iteration |
| `TaskQueue` | `queue.c` as a monitor: mutex, condition variable, producers, consumers, close | one critical section |
| `ReplyService` | abstract: what a peer can rely on about its replies | read a line, reply |
| `Server` | main, client threads, workers, response map, peers, SIGINT, failing allocations | one critical section or system call |
| `Storage` | the worker's six commands, user store, files block by block, the temporary files of downloads and, with what clients do to them, of uploads, failing calls, restarts | one critical section, system call or pass of a copy loop |
| `LineReader` | `recv_line` and the loop around it, for one thread and one connection after the other | one read |
| `Session` | the client program, composed with `Server` | one command or one read |
| `Crypto` | the cipher, bit by bit, and the two copying loops | (operators) |
| `Config` | `config_init` | (operators) |
| `PriorityHeapProofs`, `TaskQueueProofs`, `StorageProofs`, `LineReaderProofs`, `CryptoProofs` | theorems | |
| `ServerProofs`, `ReplyProofs` (extends it), `SessionProofs` (extends both) | theorems about `Server` and, with the client program, about `Session` | |
| `MCPriorityHeap`, `MCTaskQueue`, `MCServer`, `MCStorage`, `MCLineReader`, `MCSession` | instances for TLC | |

`PriorityHeap` implements `PriorityQueue` (the abstract specification is a
property of its run, and a theorem). `TaskQueue` and `Server` use that result:
their queues are sets of which a pop takes a top element. In `Server` a blocked
`queue_pop` is an action that is not enabled, which `NoLostWakeup` and the
liveness of `TaskQueue` justify. `Server` implements `ReplyService`. `Storage` opens up what `Server`
takes as one step, the command that a worker carries out. `LineReader` opens up
another one, the reading of a line: as long as lines fit the buffer
(`WholeLines`), what `Server` reads is what its peers sent. `Session` extends
`Server` and puts the client program in the place of the peers; `Server`'s own
runs keep peers that may do anything.

A definition named `D_X` is `D` with a plausible slip `X`; no specification uses
it. It is there to see that a property notices the slip.

### How state and actions correspond to the code

*PriorityHeap.* `items`, `size`, `capacity` and `closed` are the fields of
`struct Queue`; `pc` and `index` are the loop in progress, under the mutex, and
`data` is the local of `queue_pop`. Slots beyond `size` keep stale data.
`task_compare_priority` is translated with its signs; what it ranks first is the
task of *lowest* priority, and the newest among equals.

*TaskQueue.* `pthread_cond_wait` splits `queue_pop` into the part before the
wait and the part after the wakeup, with other threads in between. A signal
wakes any one waiting thread; wakeups may be spurious. `pushed`, `refused` and
`taken` are history.

*Server.* `entry[c]` is `"none"`, `"live"`, `"closed"` or `"freed"`, so that use
after free is visible; a worker that uses a freed entry may crash the process,
or lose the response. `live` is the set of allocated tasks. The heap of
responses compares the (zero) bytes it finds where a task has its priority, so
all responses are equal to it and `AfterPop` gives what is left; the heap of
connections reads beyond its objects, and any connection may come out. A line
is one of five kinds, by what `client_thread_main` does with it. A peer that has
gone answers the first write with a reset and a second one raises SIGPIPE, which
nobody handles. The signal handler is one step.

*Storage.* `link` maps a name in a directory to a file object and `disk` has the
contents of the objects, so that a file which is removed while it is open, or
opened twice, behaves as under POSIX. `build_user_path` appends the path of a
command to the user's directory without looking at it: `n` is a file of the user,
`../u/n` the same file as `n` of user `u`, and `../n` one beside the directories of
the users, as long as the user's own directory, which the path leads through,
exists. `Disturbs`, and with it the notion of operations that overlap, compares
files and not paths. A block is 8192 bytes: which upload and
which place it is from, and whether it is encoded; the cipher is its own
inverse on a block, since the key restarts with every block in both loops. The mutex which
`user_store_lock_user` returns belongs to a new object and is never locked: the
operations of a user exclude nobody, and the model has no lock either.
`Restart` is a kill at any moment and a new start on what is left. The temporary
file of an upload belongs to nobody: `source` says which copy it holds, and at any
moment a client may truncate it, write it anew or unlink it, and a worker that is
done may unlink it (`upload_file`, `UploadUnlink`); `src` and `holds` say what a
worker reads that has it open. A worker under which the file is rewritten reads
anything, of any length. The `remove` of a destination after a failed upload may
fail as well, and leave a part of the upload there. `expect` is history: the copy
that a file should hold, when uploads and deletions of it did not overlap.

*LineReader.* `buf` is the array `line[512]` of `client_thread_main`, which
nothing clears, `pos` the local of `recv_line`; `start` says how far earlier
calls have read the stream. A line that `recv_line` returned is recorded with its
place in the stream and with the text that the parser sees, the characters
before the first NUL. At the end of the stream `recv_line` returns without
writing a NUL; what the parser then sees is whatever the buffer holds
(`StaleBytes` says what that is). A reset drops what was not read yet. QUIT is
told from other lines by its first character.

*Session.* `user` is `username` if `logged_in`; `place` is where the program
blocks. A request carries the answer that the stores will have for it, so that
`LoginTruthful` can compare what the program believes with what the server said.
Replies are a stream: `taken` counts halves of replies, and a read may return
half of one, or several. A command that `snprintf` cut has no newline: the server
sees it as a line when the socket is closed or, if a late reply brought the
prompt back, together with the next command. (A second such command before the
first got its newline is left out; a third would fill the reader's buffer.) A line of blanks repeats the
word of the previous command; only `list` works without arguments, so that this
is one more `list`. The temporary files of uploads are shared by name: `files`
says whose hand was last on each, a program's or, for it, a worker's
(`worker_thread_main`, which adds the `unlink` of `worker.c:219` to the server's
step). A program that is not logged in writes the file and removes it at once.
The buffer for an upload's command is as long as that of `recv_line`, so that a
command which is cut there is read all the same.

*Crypto.* A byte is its eight bits. The loops of `fs_upload` and `fs_download`
are given as what they make of a sequence of buffers; both fill 8192 bytes
unless the file ends, so that they see the same sequence. `Storage` keeps one
flag per block for it, which `RoundTrip` justifies.

*Config.* A line is what one `fgets` returns, as tokens; `strtok` skips empty
fields, the last setting wins, and only `1` means persistent. The storage run takes
the kind of storage from the shipped `config.ini`, and TLC checks on the way what
blanks, comments and malformed lines do (`ConfigAssumption` of `MCStorage`).

## What is checked

Passing runs:

| run | instance | shows |
|---|---|---|
| `priority_heap` | 5 tasks of all priorities, two of them equal, first capacity 2 (so that the array grows twice) | the heap order, the right pops, refinement |
| `task_queue` | 4 tasks, 3 consumers | no lost wakeup with more and fewer tasks than consumers; each task once; every task received once pushes cease; consumers end (that they end only on a drained queue is proved) |
| `server_threads` | 2 connections, 2 client threads, 2 workers, 1 line each, a failing allocation | one owner per connection, registered before it is served, entries freed once; at the exit the queues are empty, the entries freed and, without a failure, the sockets closed (a task that the closed queue refused leaks) |
| `server_replies` | 1 peer with up to 2 lines unanswered, 3 lines (two priorities, unknown commands), 2 workers, a failing allocation | no line answered twice; the right reply until the first timeout; backlog at most the number of timeouts; at most as many writes after the peer has gone as it had lines unanswered; tasks freed once; refinement of `ReplyService` |
| `server_liveness` (module `MCSession`) | 2 programs with up to 2 commands, one of which is cut, for 1 client thread and 1 worker, a kill at any time | every command that was read is answered; the prompt returns and the connection of a program that has gone is released, unless the other program keeps the thread for ever; SIGINT ends the process once the programs are gone |
| `storage` | 2 users, a file of one to which both upload, a file above their directories, 2 blocks, 2 passwords, 2 workers, 3 tasks, one temporary file for all uploads, one mishap (a failing call, a restart or a client that rewrites the temporary file) | one SIGNUP wins, accounts are stable, files are in directories that exist; uploads that overlap no change of the file, by any path, are kept in full, downloads deliver them |
| `line_reader` | a buffer for 3 characters, 2 connections of up to 5 characters | no overrun; no character lost or read twice; lines seen as sent; lines that fit returned whole; leftovers only from the thread's own lines; every completed line arrives |
| `client_session` | 2 programs with up to 2 commands, of every kind from the first, uploads under one temporary name from both, a server of 1 client thread and 1 worker, one split read, a kill at any time | a program's login is the server's until the first timeout; replies are not left unread; an upload's file is not taken away by its own program or by the server; no hang-up without QUIT |

The in-memory store (`Persistent = FALSE`) has no run; the theorems about accounts are for both kinds.

The bounds are small, and enough for what the properties are about. Three consumers are the
least with which a signal can wake one thread, a second can overtake it and a
third still waits. Three lines are the least with which a late response, a
response to the line being answered and a third one are in a queue together,
where the heap's order begins to show. Two blocks are the least with which a
file can be torn. A buffer of three characters has room for a line of two that
the end of the stream can cut in its middle, over the rest of an earlier one;
five characters hold a line that does not fit and one more. Two commands are the
least with which the late response to one is read as the reply to the next. Two
programs for one client thread are the least with which one is kept waiting, and
with which two uploads share a temporary file. (The failing allocations that
`Server` allows are in its own runs, and in the proofs about `Session`.) Deadlock checking is off where the system may stop: after the
process has ended, and when the bounded peers or tasks are used up.

Fairness, in `TaskQueue`, `LineReader` and `Session` (for the threads of `Server` and the
client programs): every thread that can run, runs
(weak fairness for each thread, by the kernel's scheduler and the C library's mutexes). Nothing
is assumed of the peers, of their connecting, or of SIGINT; in `Session` a
program goes on when its read can return, but nobody has to type anything. The wait of a client
thread is `pthread_cond_timedwait`, so that its next step never depends on
another thread. `ShutdownCompletes` is conditional on the peers' leaving, since
`recv` has no timeout. For the same reason `PromptReturns` and `ConnectionReleased`
except a program that is `Crowded` out: from some time on all client threads stay
with other programs that are still there. `EveryTaskReceived` excepts pushes that
go on for ever: the heap pops the lowest priority and the newest first, so that
a steady load may starve a task.

### Findings

Each is a run that TLC refutes; `PROJECT.json` quotes the contradicted line.

| run | the code ... |
|---|---|
| `heap_doc_order` | pops the lowest priority, newest first |
| `entry_use` | locks a response entry that was freed in between |
| `torn_file` | mixes two uploads of one file: the per-user lock locks nothing |
| `download_hang` | makes the client program wait for ever after a download that succeeded: the header it waits for is sent to users of high priority only, and nobody has one |

Other disagreements between code and documents that the models show on the way,
without a run of their own:

- after a timeout the late response is sent as the answer to the next command
  (`client.c:175`), and three responses queued by then may go out as 1, 3, 2, since
  they are all equal to the heap (`worker.c:59`, `AfterPop`), where `README.md:39`
  says "Ensures ordered response delivery";
- SIGINT ends the process only when all peers go away, since nothing wakes a client
  thread in `recv` (`client.c:47`, the premise of `ShutdownCompletes`), where
  `EXECUTION_FLOW.md:536` says "Signal handling ensures clean thread termination";
- the client thread reads the task for its log line after `queue_push` gave it
  to a worker that may have freed it (`client.c:124`, action `CtLog`);
- a task that the closed queue refuses is never freed (`client.c:121`, `CtPush`);
- a line that is no command gets no reply (`client.c:111`, `CtReadUnknown`);
- a client thread stays with one connection until it ends, so that as many idle
  peers as threads keep everyone else waiting (`client.c:46`);
- an upload that fails over an existing file removes that file or, if the `remove`
  fails, leaves a part of the upload (`fs.c:94`, `UploadRemove`);
- paths are not checked: `../u/n` in an UPLOAD, DOWNLOAD or DELETE is the file `n` of
  user `u` (`fs.c:12`, `build_user_path`), where `src/README.md:72` says "Protection
  against path traversal attacks". `FilesOwned` therefore does not say that a file is
  with the user who uploaded it;
- two programs that upload files of one name in one second share the temporary
  file, and one truncates or removes what the other's worker is to read
  (`client_program.c:158`, the exception in `UploadSource`);
- a task of higher priority, or an older one, waits as long as others keep coming
  (`queue.c:25`, the exception in `EveryTaskReceived`);
- two downloads in one second may share a temporary file: of the same file, or of
  files `b:c` of user `a` and `c` of user `a_b` (`fs.c:145`, `TempName`);
- a peer that closes in the middle of a line has the line carried out, followed by
  what an earlier line, possibly of another peer, left in the thread's buffer
  (`client.c:21`, `ReadEnd`);
- after a timeout the client program may believe a login that was refused, and
  removes the file of an upload that a worker has yet to read
  (`client_program.c:139` and `:212`, the premise `Smooth`);
- a command of 255 characters or more loses its newline in the client program, and
  program and server wait for each other (`client_program.c:99`, `:126`, `:310`, `partial`);
- the rest of a comment of more than 255 characters is read as a setting
  (`config.c:34`);
- the limit of 10 MB holds for everybody, since the priority that would lift it is
  never stored (`worker.c:206`, `UploadCheck`); the quota is never compared with
  anything.

## What is proved

Every safety property of the passing runs, and every refinement, is also a
theorem, for all values of the constants that satisfy the named assumptions of
the modules (`PROJECT.json` says which theorem states which property). TLC
checked each inductive invariant on small instances before it was proved. The
assumptions ask for little: there is at least one thread of each kind
(`worker_threads` and `client_threads` of `main.c`), `None` is not a value of the
sets it is added to, bounds are natural numbers, a queue has finitely many
consumers and tasks, and the lines of the client program are lines that the
server's peers may send.

*PriorityHeapProofs.* `TypeCorrect`, `HeapOrderAlways`, `PopIsTop` and
`Refinement`. The heap order is not inductive: in the middle of a loop it fails
at one place. The inductive invariant `HeapInv` says where: during `heapify_up`
every edge of the tree is in order except the one that ends in `index`, during
`heapify_down` except those that start there, and in both cases what stands
above `index` may stand above its children, so that a swap breaks no other
edge. It also says that the array holds no task twice. That the root outranks
*all* tasks needs an induction along the path to the root, which is done with a
least counterexample: it has a parent, with a smaller index, that the root does
not outrank either. `Refinement` then shows that the loops permute the contents and that push and
pop are those of `PriorityQueue`.

*TaskQueueProofs.* `TypeCorrect`, `WakeupsSuffice`, `TasksReceivedOnce`,
`Drained`. Here the conjunction of the checked invariants is
inductive. The step that needs care is a consumer that overtakes: it takes a
task without having been signalled, and the number of tasks falls while the
number of woken consumers does not.

*ServerProofs.* `TypeCorrect`, `ConnectionsOwned`, `ServedRegistered`,
`EntriesOnce`, `ExitsClean`, for any number of connections, threads, lines,
timeouts and failed allocations. The inductive invariant `OwnerInv` adds to the
properties where a thread is when it has a connection, a task or an entry
(`Places`, `EntriesHeld`), that a connection which was not accepted yet is nowhere
(`Unconnected`), that one which is served without an entry never had one, so that
nobody else can free it (`NeverRegistered`), and that a thread ends only on a
queue that is closed and stays empty (`Shutdown`). It is preserved by `Step`,
which lets the peers do anything that only adds lines or ends a connection;
`Next` is one case of it, and the client program another.

*ReplyProofs.* `TasksOnce`, `AnswersOnce`, `BacklogBound`, `LateWrites`,
`InOrder`, `Refinement`. What a step does to the lines, responses and replies of
one connection is one of ten *episodes* (a command is read, a line is skipped, a
response is delivered, taken, lost, a timeout is reported, ...); the invariants
are shown episode by episode. `AnswersOnce` needs `TaskInv`: tasks stand for
different lines that were read, and are with one thread each, or queued.
`BacklogBound` counts sets and sequences together, and needs one more unit for a
connection that was never registered: its thread does not wait for the response
to the first command, and the failed allocation has to pay for that one. `OrderInv` says that until the first
timeout everything on its way answers the line that is waited for; after it,
nothing of the kind is true. `LateWrites` is the only one that needs `Pipeline`,
the number of lines a peer sends ahead. `Refinement` maps what `ReplyService`
has read and replied to `rd` and `out`.

*StorageProofs.* `SignupsOnce`, `FilesAreOwned`, `AccountsStable`, for any number
of workers, users, paths, tasks, failures and restarts, and both kinds of
storage. `SignupOnce` is not inductive, because the reply comes after the
critical section that inserts the name: `Names` adds that between the two the
name is inserted, not yet granted, and held by one worker only. `FilesOwned`
needs that a worker past `user_store_lock_user` works for a user that has an
account (`Found`) and on a path that leads to a file, the user's or another's
(`Pathed`); accounts are never removed, so that this stays true while others run. A directory is removed only when it is empty,
and an upload that finds its directory gone fails to open the file.

`StorageTypes`, `UploadsKept` and `DownloadsFaithful` are about the contents, for
files of any number of blocks, any number of temporary files and of clients
that rewrite or remove them, and any paths to the files. `FileInv` follows the file objects: an object
keeps its name as long as it has one or is written (`Objects`), what an upload
reads is a copy that a client made, or anything (`Sources`), the object an
upload may create is not there before (`Fresh`), a task that is alone has no
other beside it that disturbs it (`Undisturbed`), and what such a task has
written or read so far is a prefix of the whole (`WrittenInv`, `ReadInv`). Steps
are sorted by what they do to files (open, write, fail, close, unlink, ...)
before the invariant is shown for each kind.

*LineReaderProofs.* `BufferSafe`, `NothingLost`, `SeenAsSent`,
`FittingLinesWhole`, `LeftoversAreOld`, for every buffer size, alphabet, number
and length of connections. The line in progress is what makes them inductive:
`CurrentLine` says that the first `pos` places of the buffer hold the characters
of the stream from `start` on, none of them a newline, and `Position` that the
line begins where one of the peer's lines begins, as long as those fit.
`StaleBytes` is inductive because a character is only overwritten, and the text
of a line is recorded when it is returned.

*CryptoProofs.* `RoundTrip` and `Injective`: for every key but the empty one and
every sequence of buffers, decoding gives back what was encoded, at the same
length. The index into the key is taken modulo its length and is shown to be
within it; the rest is the exclusive or of bits.

*SessionProofs.* `SessionTypes`, `RepliesAllRead`, `LoginsTruthful`,
`UploadSources`, `NoHangUps`, for any number of client programs, commands, split
reads, kills, timeouts and failures. Each step is a `Step` of the server
(`SessionIsStep`), so that the invariants of `ReplyProofs` hold, and one of nine
*turns* of each program: it sends, cuts, reads, leaves, ... or rests. None of the
properties is inductive. `RepliesRead` counts the replies that are there; the
invariant (`ReadInv`) has to count the ones that will come (`Final`: one for each
line, or for a cut one that the next command completes, unless the server has
hung up), since it is by not sending a second command that the program keeps
up. `LoginTruthful` rests on two numberings: until a timeout the k-th reply
answers the k-th line (`NumberInv`, which holds because every line of the
program but its last gets a reply), and a program that waits will read the
reply to its own request (`LastInv`). `UploadSource` then says that an upload
which no worker has carried out has its file, or another program that picked the
same name had its hand on it last (`SourceInv`). That a worker unlinks
only the file of the upload it has just carried out rests on the numbering of
lines: of one program at most one upload is due at a time. It needs that the server is
running: when the process dies, the program takes the end of the stream for an
answer and removes the file, while the task is still in the dead server's queue.
`NoHangUp` follows from the fact that a thread closes a connection after QUIT, at
the end of the stream, or when the entry is missing (`OpenInv`).

Only model-checked: the liveness properties `EveryTaskReceived`, `ConsumersEnd`,
`CommandAnswered`, `ConnectionReleased`, `ShutdownCompletes`, `LineArrives` and
`PromptReturns` (liveness under fairness is beyond the prover), and what
`Config` makes of the lines of a file (a fold over data).

## What is not modelled

- The text of replies, listings and logs; the names of priorities and commands.
  `LIST` answers OK when the directory can be opened. In `LineReader` the parser
  only looks for QUIT; in `Server` and `Session` a line is one of a few kinds.
- In `client_program.c` the receiving of a file's data, which comes after a
  header that this server never sends, and input that only gets a usage message.
- `user.c` is not compiled. `send_file_data` cannot be reached, since the
  `User` it depends on always has priority 0.
- A failing `pthread_create`, `bind` or `listen`, whose results `main` ignores.
- Paths other than `n`, `../u/n` and `../n`: longer ones, those that name a
  directory, and user names with a `/`. In particular `../users.db`, by which an
  UPLOAD or a DELETE reaches the database of the accounts: `SignupOnce` and
  `AccountStable` hold as long as nobody uses it.
- The time between `connect` and `accept`: in `Session` they are one step. A program
  in the listen backlog when SIGINT comes is reset.

## Plan

Done: queues, request path, shutdown, line reader, user and file store, encoding,
client program, configuration, and the proofs above. Next:

1. The safety core of the liveness properties, as theorems: no state in which a
   thread that has work is blocked for ever (a worker and a queued task, a client
   thread and a delivered response, main and the joins of its threads).
2. The hazards that have no property yet, where a model can tell them apart: the
   temporary file of a download after its reply, and the users an in-memory store
   forgets.
