# Specifications of the concurrent and the crash-safe parts of SnippetCode

The repository is a collection: a C application framework (`app_engine`) with
the thread pool and the list it is built on, the Android log driver, the patcher
of Android's recovery, a disk cache in Java, and a great number of exercises,
vendored sources and small independent programs. What has logic of its own that
is hard to test is of two kinds: threads that share a queue, a ring buffer or a
shutdown flag (framework and driver), and programs that must find their way back
after being killed anywhere (patcher and cache). These modules say what that
code does and what it gets right; source paths below are relative to `src/`.

    tlc -config ThreadPoolSafety.cfg MCThreadPool     # check one run
    tlapm ThreadPoolProofs.tla                        # check the proofs of a *Proofs module

## The system

| component | source | state | operations |
|---|---|---|---|
| thread pool | `c/libraries/threadpool/src/threadpool.c` | mutex, condition, ring (`queue`, `head`, `tail`, `count`), `shutdown`, `started` | create, add, destroy, free, the worker loop |
| task manager | `c/libraries/app_engine/src/core/utils/taskmanager.c` | one pool | add_task, destory: the pool's calls |
| application | `.../core/appe_app.c`, `core/main.c`, `runtime.c` | the message handler, loop mode, `g_quit_app` | init, run, quit; trigger and looper threads; signal handler |
| message queue, looper | `.../core/appe_message_queue.c`, `appe_looper.c` | list, mutex, condition, `s_looper_quit` | push, pop with a timeout, destroy; run, exit |
| linked list | `c/mytest/data_struct/src/list.c` | head, tail, size | insert, remove, destroy |
| TCP server | `.../core/net/appe_socket_in.c` | client slots, thread, the flag `server_quit` | create, accept loop, handlers, free |
| TCP slave | `.../core/net/appe_tcp_slave.c` | fd, receive thread, the flag `SERVER_QUIT` | connect with timeout, receive, send with reconnect, close |
| packet framing | `.../core/net/appe_socket_handler.c` | one static buffer for all servers | reassembly of `:`...CRLF packets, dispatch |
| server, slave groups | `.../core/net/` and `hashmap.c` | fixed tables | register, look up, destroy |
| log driver | `kernel/android/logger.c` | ring, `w_off`, `head`, readers, wait queue | open, release, read, write, flush |
| OTA patcher | `android/c_cpp/recovery/applypatch/applypatch.c`, `updater/install.c` | files, MTD partitions, one backup in the cache | check and patch, called by the update script |
| disk cache | `java/DiskLruCache/.../DiskLruCache.java` | table `lruEntries`, value files, journal and its backup | open, get, edit, commit, abort, remove, trim, rebuild, flush, close, delete |

How they interact. `main()` creates the App, whose `run` starts a detached
*trigger* thread (it fills in the message handler and posts `MSG_ON_START`) and
a *looper*, a detached thread or `main` itself. Posting is
`appe_trans_message` -> `send_message` -> `appe_message_queue_push`; the looper
pops and calls `handler_message` of `runtime.c`, which posts the next message.
A signal handler posts from whatever thread it interrupts. `quit` waits for the
task manager (a graceful `threadpool_destroy`), destroys the queue and only then
tells the looper to stop. Servers and slaves run threads of their own that call
handlers and, through `appe_trans_message`, the queue. The log driver stands
alone: processes meet in it at the ring's mutex and on its wait queue. So does the
patcher, which meets only what its own earlier runs left on the disk. The disk cache
has client threads, one cleanup thread and, through its files, the process that was
killed before.

What is hard, by component, and what makes it correct:

* **thread pool** - a ring moved by callers, tasks and workers; one signal per
  task; shutdown broadcast against workers in any phase; free after the last
  worker. Correct: FIFO, no task lost or run twice, no sleeper beside pending
  work, destroy returns, no worker meets freed memory.
* **log driver** - `orig` read outside the mutex, copies that fail half-way,
  readers lapped between two critical sections, wakeup after unlock. Correct:
  every reader stands on an intact entry, never goes back, never sleeps on data.
* **application, queue, looper** - signals on any thread, sleeps in the place of
  joins, `pop` that waits before it looks. Correct: a posted message is popped, the
  chain of messages does not fork, a signal ends the program.
* **TCP server** - slots and descriptors that are reused, `select` without timeout, a
  quit flag shared by all servers, `free_socket` beside a running thread. Correct: a
  table holds its own clients under their own names, who sent is read, who left is
  released. That servers stop independently is not so, by the shared flag; nor that
  names are the clients' own when two servers receive at once, by the shared buffer.
* **framing** - packets split and joined by `recv`, in a buffer shared by the threads of
  all servers. Correct: nobody is closed for the way packets are cut or for what another
  server receives. Both fail (see Disagreements).
* **OTA patcher** - power lost between any two steps, I/O errors, one backup for all
  jobs, the script run again over what is left. Correct: what a job needs is never
  lost, and a run that is not cut off completes the update. The first is not so for
  partitions, for jobs that share a source, and after a failure that the script ignores.
* **disk cache** - killed between renames, with lines still in the writer's buffer, or
  in the middle of a rebuild; deletions that stop half-way; eviction of what is being
  edited. Correct: a read sees all of a commit or nothing, the journal tells what is
  there, no file is forgotten, the lock is released, and a cleanup meets the limit.
* **TCP slave** - a quit flag shared by all slaves, reconnection against the receive
  thread, detach and then join. Correct: one receive thread per slave, none on a
  closed descriptor.

Every hazard, with its line and the property that covers it, is in
`PROJECT.json`.

## Modules

| module | what it is |
|---|---|
| `ThreadPool` | the pool, one step per critical section |
| `TaskPool` | what a pool promises, without threads, locks or ring; `ThreadPool` implements it |
| `ThreadPoolProofs` | theorems about `ThreadPool` for all constants |
| `ThreadPoolRefinementProofs` | that one signal per task suffices, and that `ThreadPool` implements `TaskPool` |
| `Logger` | the log driver |
| `LoggerProofs` | theorems about `Logger` for every ring and all lengths |
| `AppRuntime` | application, queue, looper and signal handlers together |
| `AppRuntimeProofs` | theorems about `AppRuntime` for every set of signals |
| `TcpServer` | server threads, slot tables, framing, `free_socket` |
| `TcpServerProofs` | theorems about `TcpServer` for all servers, slots and clients |
| `ApplyPatch` | a script of patches, the machine under it and its restarts |
| `ApplyPatchProofs` | theorems about `ApplyPatch` for every script |
| `DiskLruCache` | the disk cache with its files, its journal and its crashes |
| `DiskLruCacheTables` | what the operators of `DiskLruCache` on tables, journal lines and sums return |
| `DiskLruCacheProofs` | theorems about `DiskLruCache` for all keys, values and buffers |
| `MC*` | small instances for TLC |

A definition named `Def_Variant` (`Wrap_OneEarly`, `Flush_ToOldHead`) is a
plausible bug in `Def`. It is used by no specification: put in the place of `Def`
it makes the property `PROJECT.json` pairs it with fail.

### ThreadPool

Variables keep the names of `threadpool_t`; `notify` is the set of workers inside
`pthread_cond_wait` that no signal has reached yet. `memory` is the pool's:
`none`, `live`, `arraysFreed`, `freed`. `accepted`, `taken` and `done` only record
what happened. Acquiring the lock is a step (`AddLock`, `DestroyLock`,
`WorkerLock`, `WorkerWake`, `FreePool`), everything done under it is the next step
of the same thread (`Enqueue`/`Reject`, `BeginShutdown`/`AlreadyShutdown`,
`WorkerWait`/`WorkerTake`/`WorkerExit`). Between the two nobody else can change
what the lock protects, so no interleaving is lost. Thread creation, joins and the
release of the arrays are steps outside the lock. Allocation and
`pthread_create` may fail at any point; a failed creation destroys the workers
it already has. `pthread_cond_wait` may wake spuriously; `pthread_cond_signal`
may pick any waiter. Running tasks may add tasks.

A task is added once, so that the records tell tasks apart. `AlreadyShutdown`
returns with the lock held, as `threadpool.c:212` does. A call on the freed pool
goes to `wild`, after which the thread does nothing: the C program is undefined
there. `README:8` of the library announces that one task is reserved "for signaling
the queue is full"; the code has no such task and fills every slot
(`threadpool.c:165`).

### Logger

A cell of `buf` is a unit of bytes, tagged with its message and position, so that
a reader that stands inside an entry is seen. The header is two cells, the two
bytes of `len`, which `get_entry_len` reads separately since they may straddle
the end of the ring. A write is `WriteStart` (reads `orig` without the mutex),
`WriteLock`, `WriteHeader` (`fix_up_readers`, then the header),
`WritePayload` or `WriteFault` (all segments; or k bytes, then `w_off = orig`),
and `WriteWake` after the unlock. `logger_read` is `ReadPrepare`,
`ReadEmpty`/`ReadNonEmpty`, `ReadResume`, `Signal`, and after the second lock
`ReadRaced`, `ReadFails` or `ReadEntry`. Messages are numbered in the order in
which they take the mutex. A length read where no header stands decodes to a
bare header's length: the real code would read garbage; this matters only after
a property has already failed. `get_next_entry` is the loop of lines 222-233 as a
function of the `count` it has come to.

Left out: `poll` and the `ioctl`s that only read, permission and misc-device
registration, the time stamp and pid of the header, messages cut to
`LOGGER_ENTRY_MAX_PAYLOAD`, writes of length zero (they return at once).

### AppRuntime

Threads are `main`, `trigger`, `loop` and one per signal. A signal handler is a
thread with a *victim* that stands still until the handler returns. It may
interrupt any live thread, or another handler, at any point, with or without the
queue's mutex. `Raise` happens once per signal, as `except_quit` puts `SIG_DFL`
back and a second one kills the process. `mode` is chosen at the start: `thread`
(background or foreground looper) and `process` (`onProcess` set or `NULL`). The
`usleep(200000)` and `usleep(1000)` of `run` wait for nobody, and a signal cuts them short:
`LoopStarted` and `SleepEnds` may come at any time. `waiting` says that the looper is inside
`pthread_cond_timedwait` and neither signalled nor timed out. `PopNoWait` is the
call that returns `EINVAL` when `tv_nsec` has reached a second, at once and with the
mutex held. `SendNull` is the call through `send_message` before `thread_runtime` has
set it. A thread that uses the destroyed queue goes `wild`, after which nothing is
claimed.

Left out: option parsing, logging, and what the handler of `main.c:30-55` does that a
handler must not (`malloc`, the logger's own locks). The three
`on_msg_*` functions act on other modules and are one step, `Handle`. The
program's `process` and `destroy` hooks are one step each; the TCP groups are
destroyed in `Return`.

### TcpServer

A thread per server loops through `Loop` (test `server_quit`, build the set),
`SelectReturns`, and then either `Accept`, always first and followed by another
`select`, or the slots in turn: `SkipSlot`, `NoHandler`, `RecvEnd`, or `Recv` and then a
scan (`ScanFinds`, `ScanFindsNone`, `ScanMixed`). Descriptor numbers belong to the
process (`owner`) and the lowest free one is handed out, whichever server asks. A
client's stream is a sequence of segments: a registration with a name, any other packet,
or the two halves of one; `recv` takes any part of what has arrived.
`appe_handler_proc_stub` copies each packet it finds over the one before, hence only the
last of several is handled, perhaps with a tail of a longer one (`UNKNOWN`); bytes that
follow it are lost; and without any complete packet the next `recv` asks for no bytes
and the connection is closed. `findHandlerByName` gives a client without a name to the
first handler.

The buffer that `recv` fills and the scan reads is static, and all threads use it
without a lock. `got` is what a thread has put there. `mixed` names the threads whose
bytes are no longer theirs: a `Recv` disturbs whoever is between its own `recv` and the
end of its scan, may be disturbed by it, and so does the `memmove` at the end of a scan.
What such a thread finds is `ScanMixed`: any name, no name, or nothing and a close.
`registered` is the last name that a client really sent, and `muddled` says that it was
scanned amid other bytes.

`s_mutex` is left out because it orders nothing: only the server's thread takes
it. `free_socket` runs on other threads and takes nothing. It is two steps, the
flag and, after the sleep, the release of everything; a thread that is inside its
loop's body then, or comes back to it (the flag may have been reset by another server
that started, and `select` has no timeout), goes `wild`. Nothing is claimed from there;
in particular a descriptor closed twice is not followed into other servers.

Left out: handlers that do not use the stub (telnet), replies, socket options. A process
has fewer than 64 descriptors: with more, `FD_ISSET(-1)` of a free slot reads a real
bit. What has arrived fits the receive buffer.

### ApplyPatch

The script is `N` jobs, each with a source and a target path; `Partitions` are the paths
that are MTD partitions, and `Asserted` the jobs whose failure stops the script. `fs`
and `copy` are what the disk holds: the old or the new content of a path, junk (a write
that was cut off), or nothing. `pc` is the place in `applypatch()`; `Start` begins the
script again at its checks, and `Crash` may come between any two steps. One step makes
one change of the disk: `SaveOpen` truncates `CACHE_TEMP_SOURCE`, `SaveWrite` fills it,
`Unlink` is line 681 (which may fail unnoticed), `Rename` 802, `WriteBegins` and
`WriteEnds` are `WriteToMTDPartition`, `Clean` is line 811. A crash between `SaveOpen`
and `SaveWrite` leaves junk in the copy, one between `WriteBegins` and `WriteEnds` in
the partition. `IOError` is a `return 1` after a source was found. A failure is the
value "" to the script (`install.c:829`): `Fails` stops it if it asserts on the job, and
else goes on to the next.

Four points of the code decide the model. `enough_space` of line 645 is shadowed by that
of 648, so that a file's source is always saved and unlinked, however much space there
is; hence a source with another target is deleted too (513-514: it "is NOT deleted on
success"), and a file is never made of a partition (663-669, `SourceIsPartition`). For the
same reason `retry` is 0 and a patch that does not apply fails. Line 591 has
`to_use > 0` where 574 has `>= 0`: `PatchIndex` says where in the list a job's hash
stands. And for a partition 638 saves `source_file` even when the patch will be taken from
the copy: then `source_file.data` is `NULL` or freed, and the copy has been truncated before
`write` refuses it (or writes what is no job's source).

External: the script, which asserts the check of every job first (where the target is
another file, of that one too), and whoever starts it again. Left out: checks without
hashes (`num_patches` 0, 408-414), which pass for any file that loads; the formats of
patches, and `MakeFreeSpaceOnCache` (its failure is an `IOError`; `freecache.c` spares
the backup). Assumed: what is written reaches the disk in the order of the calls, and
what one job writes no other job reads or writes. Jobs may read the same source.

### DiskLruCache

Public methods are `synchronized`, hence single actions with the names of the methods.
`holder` is whoever trims: `cleanupCallable`, `flush` and `close` keep the lock from
`Begin...` to `End...`, one removal (`Trim`) a step. A crash inside a method is an action
of its own (`CrashInCommit`, `CrashInRemove`, `CrashInRebuild`, ...), which does some of
the method's file operations and kills the process. What `BufferedWriter` still holds is
`buf`; a crash writes any part of it, perhaps with a torn last line.

A journal file is what `readJournal` makes of it: the table that its lines replay to,
whether it ends in a torn line (which `StrictLineReader` passes over), whether it holds
a line that is refused. The code appends after a torn line without looking, which makes
one line of two (`Appended`): the open after that finds the journal corrupt and deletes
the whole cache. The order of the table is the access order of `LinkedHashMap`, in which
a look-up moves an entry to the end; only thereby does `trimToSize` come to its second
eldest when the eldest is being edited. A value is a number that is also its length.
`last` and `wiped` only record what was committed and whether the deletion of a directory
was cut short.

Left out: the snapshots' sequence numbers, so that any `Snapshot.edit` may be refused
(`edit_Refused`); `redundantOpCount`, so that a cleanup and a rebuild may come at any
time; `journal.tmp`, which is never read; journal writes and renames that fail; a second
stream for the same index in one edit; a directory that is opened again between the
`close()` and the `deleteContents()` of `delete()`, which is not synchronized.
`KeepSome` leaves any of the files, whatever order the directory lists them in.

## Runs

| run | instance | what it shows |
|---|---|---|
| `pool_safety` | 2 workers, 2 callers that both may destroy, 2 slots, 3 tasks | type invariant, FIFO (`RingHoldsBacklog`), `FreedAfterWorkers`, `GracefulRunsEverything`, `NoSleeperWhilePending`, and `ThreadPool` implements `TaskPool` |
| `pool_live` | 2 workers, 1 slot, 2 tasks, fair | `DestroyReturns`, `AcceptedRuns` |
| `log_fault` | 1 writer that may fail, 1 reader, 8 cells, 5 writes | readers see whole entries, in spite of laps and failures, never go back, and a full ring never looks empty (`WriteIsReadable`) |
| `log_writers` | 2 writers that do not fail, 1 reader, 4 writes, fair | the same, no missed wakeup, a blocked reader returns |
| `log_stale` | 2 writers that may fail | `ReadersSeeEntries` is violated |
| `tcp_tables` | 2 servers, 1 slot each, 2 clients, whole packets | `TablesHoldOwnClients`; `NameIsClients` and `ClosedOnlyIfRemoteQuit`, except clients that were scanned amid another server's bytes |
| `tcp_names` | the same | `KeyIsFromClient`, `NameIsClients` without the exception, is violated |
| `tcp_serve` | 1 server, 2 slots, 2 clients, halves, fair | `HungUpIsFreed`, `UnreadIsRead` |
| `app` | all modes, 1 signal, fair | `OneChain`, `PostedIsPopped`, `SignalEndsApp`, `MutexIsReleased` |
| `patch` | 7 jobs: a file in its place, a file made of another, a partition, two files made of one, a file made of a partition, a partition made of it; the first 4 asserted; 6 starts, fair | no file is lost (`NothingLost`), a partition in one place only (`LostOnlyOnResume`), the end is the end (`DoneIsPatched`), a run left in peace patches the files (`RunPatchesFiles`) |
| `disk` | 1 entry of 2 files, 2 values, limits 2 and 3, 2 lines of buffer | `AllOrNothing`, `SizeIsOfFiles`, `ReplayIsTable` |
| `disk_two` | 2 entries of 1 file, of which 1 fits, fair | `FilesAreJournalled`, `LockIsReleased`, `CleanupMeetsLimit` |

Bounds. *Pool:* three tasks overfill and wrap two slots; two workers are enough
for a signal to reach one worker while another takes its task, and for joins in
an order other than that of the exits. Two callers suffice for add against
destroy and destroy against destroy; running tasks add as well, so up to four
threads compete for the lock. A state in which a second destroy has left with the
lock is one where the program may really stop (`LockLeaked`); elsewhere deadlock is
checked.
*Logger:* `Size` 8 with entries of 3 and 4 cells gives entries that end exactly at the
ring's end, wrap in the header or in the payload, and end exactly on a reader.
Five writes (`MaxWrites`) lap the ring twice. `SizeAssumption` is the one of
`DEFINE_LOGGER_DEVICE` as far as it matters: the ring holds two maximal entries.
*TcpServer:* two clients for one slot reuse the slot and the descriptor, overfill the
table, and may each be on another server; two segments (`MaxSent`) are a registration
and what follows it, or a packet and its rest. Each client connects once.
`tcp_tables`, all safety, is checked up to permutations of the servers and of the clients,
which nothing in the model tells apart.
*ApplyPatch:* six starts (`MaxStarts`) are five interruptions, more than there are kinds
of remains for the one backup; job 4 meets a copy that is the partition's, and its hash is
the first of its list, so that line 591 refuses the copy (`NoSource`); job 5 finds its source
gone with job 4, job 6 is the file that is never made of a partition, and jobs 5 to 7 may fail
while the script goes on. What is on the disk at first is all that the assumptions allow.
*DiskLruCache:* sizes reach twice the limit; two files show a mix, two entries an eldest
in an editor's hands with another to evict; both at once is more than TLC explores here.
The writer's buffer (8192 bytes in Java) is one or two lines (`MaxBuffer`), so that it
overflows. Crashes and reopenings are not bounded.
*AppRuntime:* nothing is bounded but the signals, one in the run (the theorems have any
number); the queue cannot hold more than the
chain's message and one `MSG_ON_EXIT` per poster.

Fairness. Threads run (weak fairness of each thread's own steps); a mutex that
is freed over and over is at last granted (strong fairness of each acquisition, as
the Linux mutexes give in practice; without it any liveness claim about a
mutex is false); tasks and hooks return; a timed wait times out. Nobody
is obliged to call anything, raise a signal or wake spuriously, and `onProcess` need
not ask to stop: only `g_quit_app` forces its end. A `select` with something to report
returns in the end (strong fairness, for signals may interrupt some of the calls).
A run of the update script goes on while the power lasts; nobody is obliged to start it
again. The holder of the cache's lock goes on, and the executor runs a cleanup that was
submitted for the size; no client is obliged to call.

### Disagreements

`log_stale` is one of the two runs that TLC must find violated: `orig` is read at
`logger.c:328`, before the mutex. Writer A reads `orig`, writer B commits, A's copy
fails and puts `w_off` back before B's entry; after two more writes a reader stands
where no entry starts. With one writer (`log_fault`) the same failure is harmless.

`tcp_names` is the other. Server A has received a packet of its client into the static
buffer of `appe_socket_handler.c:152` when server B receives there too; A scans B's
bytes, and `appe_default_handler` gives A's client a name that it never sent
(`include/core/net/appe_socket_in.h:85`: `remote_name` is the key that the client
passes).

The other disagreements between the code and what it says of itself are reproduced by
configurations kept beside the runs; each ends in a counterexample.

| module and configuration | property | what happens |
|---|---|---|
| `MCThreadPool`, `ThreadPoolTwoDestroys.cfg` | `DestroyReturns` | the second `threadpool_destroy` returns with the lock held (`break` at `threadpool.c:212` passes over the unlock); the first waits for ever for workers that cannot exit (`README:9`: "Stops and joins all worker threads on destroy.") |
| `MCLogger`, `LoggerRelease.cfg` | `ReaderListProtected` | `list_del` and `kfree` (`logger.c:435`) without the mutex while a writer walks the list under it (`logger.c:53-55`: "The structure is protected by log->mutex.") |
| `MCAppRuntime`, `AppRuntimeQuit.cfg` | `QueueOutlivesLooper` | `quit` destroys the queue and only then stops the looper (`appe_app.c:161-162`); the `usleep(1000)` of line 145 is all that is between, and a looper that is slower, or a signal that cuts the sleep short, leaves it on a destroyed queue |
| `MCTcpServer`, `TcpServerSplit.cfg` | `ClosedOnlyIfRemoteQuit` | a packet in two segments (`ScanFindsNone`); `appe_socket_in.c:281` takes every `rc <= 0` for the end of the remote |
| `MCApplyPatch`, `ApplyPatchMtd.cfg` | `PartitionsSurvive` | the write of a partition is cut off; the next run would patch from the copy, but first opens the copy to save a source that did not load (`applypatch.c:632-633`: "We still write the original source to cache, in case the MTD write is interrupted.") |
| `MCApplyPatch`, `ApplyPatchFirst.cfg` | `RunPatchesFiles` | the copy matches the first hash of the list and `to_use > 0` refuses it: once interrupted, the update can never be completed (`applypatch.c:501-502`: "it's okay to run this program multiple times") |
| `MCApplyPatch`, `ApplyPatchShared.cfg` | `SharedSurvive` | a file of which two jobs read is unlinked by the first and its copy deleted when that job is done; the second has nothing to patch from (`applypatch.c:513-514`: "<source_filename> is NOT deleted on success") |
| `MCApplyPatch`, `ApplyPatchNoAssert.cfg` | `UnassertedSurvive` | a job fails after its source was unlinked, the script does not assert on it and goes on, and the next job saves its own source over the one copy |
| `MCDiskLruCache`, `DiskLruCacheLimit.cfg` | `LimitIsMet` | killed after a commit went over the limit and before the cleanup ran; `open` (200-242) finds the same size and submits nothing (57-58: "the cache will remove entries in the background until the limit is satisfied") |
| `MCDiskLruCache`, `DiskLruCacheMix.cfg` | `AllOrNothing` | one stream of an edit does not open and eats its writes (`DiskLruCache.java:813`); the commit publishes the value of the other (75-76: "never a mix of values") |

What the properties of the runs have to exclude is as telling. Of the cache:

* `Spinning`: when every entry left is being edited, `trimToSize` looks at one after the
  other for ever, with the lock that the editors would need (`LockIsReleased`);
* `Phantom`: killed after `remove` deleted files and before its `REMOVE` line was written
  out, the journal brings the entry back without its files. `get` answers null (82-83:
  "the corresponding entries will be dropped from the cache" - it is not), `remove`
  throws, and with it every eviction, `flush` and `close` that comes to it
  (`CleanupMeetsLimit`);
* a limit that is exceeded with no cleanup submitted: `CleanupMeetsLimit` begins with the
  submission, `LimitIsMet` is the one that does not;
* `wiped`: emptying the directory of a corrupt cache, or `delete`, may be killed when the
  journal is gone and files are left.

Of the application: the looper may meet the destroyed queue, after which nothing is claimed
(`Wild`); a signal taken by a thread that holds the queue's mutex deadlocks it
(`SelfDeadlock`), and neither `SignalEndsApp` nor `MutexIsReleased` speaks of that case.

Of the servers: `muddled` and `mixed`, a client whose bytes were scanned amid another
server's, and `Wild`, a thread beside `free_socket`.

Of the patcher: `Undisturbed`, jobs that no failure passed over by the script precedes, and
whose source no earlier job reads; and partitions, but for `LostOnlyOnResume`.
`RunPatchesFiles` speaks of the files before any such job or partition.

## Proofs

Eight modules prove theorems for every value of the constants that the assumptions
allow. For each component an inductive invariant holds what the properties themselves do
not know: none of the properties is inductive as it stands.

| module | theorem | states |
|---|---|---|
| `ThreadPoolProofs` | `TypeCorrect`, `PoolIsFIFO`, `NoWorkerAfterFree`, `GracefulDrains` | `TypeOK`, `RingHoldsBacklog`, `FreedAfterWorkers`, `GracefulRunsEverything` |
| `ThreadPoolRefinementProofs` | `SignalsSuffice`, `PoolImplementsTaskPool` | `NoSleeperWhilePending`, `ImplementsTaskPool` |
| `LoggerProofs` | `TypeInvariant`, `EntriesStayWhole`, `SleepersAreWoken`, `ReadsAreNewer`, `WritesAreReadable` | `TypeOK`, `ReadersSeeEntries`, `NoMissedWakeup`, `ReadsMoveForward`, `WriteIsReadable` |
| `AppRuntimeProofs` | `TypeInvariant`, `ChainIsSingle` | `TypeOK`, `OneChain` |
| `TcpServerProofs` | `TypeInvariant`, `TablesAreOwn`, `NamesAreOwn`, `WholePacketsAreServed` | `TypeOK`, `TablesHoldOwnClients`, `NameIsClients`, `ClosedOnlyIfRemoteQuit` |
| `ApplyPatchProofs` | `UpdateTypeCorrect`, `FilesSurvive`, `LostInOnePlace`, `EndIsPatched` | `TypeOK`, `NothingLost`, `LostOnlyOnResume`, `DoneIsPatched` |
| `DiskLruCacheTables` | `RebuiltIs` and the lemmas beside it | what `Replay`, `Rebuilt`, `Recovered`, `Total` return |
| `DiskLruCacheProofs` | `TypeInvariant`, `CommitsAreAtomic`, `SizeIsLengths`, `JournalIsTable`, `NoFileLeaks` | `TypeOK`, `AllOrNothing`, `SizeIsOfFiles`, `ReplayIsTable`, `FilesAreJournalled` |

### The pool

Assumed: at least one worker and one slot, callers that are not workers, sentinels that
are not threads or tasks. `TypeOK` needs to know, for example, that `started` is positive
when a worker exits, hence that it counts them. The invariant `IInv` is the conjunction of

* `LockHeld`: who is in a critical section holds the lock;
* `Lifecycle`: workers are born in order, creation precedes every other call
  (`BornInOrder`, `CreationFirst`), a thread that joins or frees has announced the
  shutdown, and no worker leaves an open pool (`AliveUntilFreed`), a graceful
  shutdown is that of a complete pool (`GracefulIsComplete`);
* `JoinedExited` and `StartedCounts`: who was joined has exited, and `started` is
  the number of workers still in their loop. Together: a destroyer that joined
  `threadCount` workers finds `started = 0`, which is `FreedAfterWorkers`;
* `RingHoldsBacklog`: the slots from `head` on hold the accepted tasks that were
  not taken;
* `TaskOfWorker`, `TakenRuns`, `Drained`, `ArgIsTask`: a taken task is in the hands
  of a running worker or done, and after a worker left a graceful shutdown the
  backlog is empty and stays so. At `freed` all workers have left, so that every
  accepted task is taken, and every taken one done.

Each part has a lemma that every step preserves it; `Invariance` puts them together.

For `SignalsSuffice`, `Sleepers` adds that whoever is in `notify` waits, and nobody does
after the shutdown: an added task wakes one worker, which is then on its way; a worker
that takes one task off the way takes one off the count.

The refinement maps the ring to `Backlog`, the workers' tasks to `RunningTasks` and the
memory and the flags to `Phase`. `RefInv` says what the mapping needs beyond `IInv`: one
thread frees the pool, nobody is inside a freed one, a task is accepted once and started
once. `Enqueue`, `WorkerTake` and `WorkerRun` map to `Submit`, `Start` and `Finish`, the
steps of creation and destruction to those of the phases, everything else to a stutter
(`StepRefines`).

### The log driver

Assumed: the ring holds two entries of the longest length (`SizeAssumption`), there is a
longest length (`PayloadAssumption`), and writers are finitely many (`WritersAssumption`).
`TypeInvariant` has no other hypothesis: whatever garbage is taken for a length,
`get_next_entry` ends and its offset is in the ring. That it has a value at all is not
obvious, for the `count` of its loop grows by what it reads: `LoopHasValue` constructs it.

The other four need `OneIfFaults`: where a copy can fail there is one writer. Without it
they are false, as `log_stale` shows; with it `orig` is still `w_off` when the write begins.
A copy that never fails, with any number of writers, and one writer whose copies fail are
both covered. `Inv` is the conjunction of

* `Control`: types; the holder of the mutex is the one writer between its header and its
  payload; the open files are the listed readers;
* `HeaderIsIn`: while an entry is half written its header is in the two cells behind
  `Start`, where `w_off` was when the write began;
* `Placed`: from the head, and from every reader, a run of whole committed entries in the
  order of writing leads to `Start` (`Run`), each newer than what this reader got
  (`Newer`), and an entry in progress fits between `Start` and them (`Clear`);
* `OrigIsStart`, which is what the hypothesis gives, and `SleepersWait`.

The step that matters is `WriteHeader`: `PulledClear` shows that `fix_up_readers` moves a
reader that the entry would run into by whole entries, far enough that the entry does not
come round to it (hence `WriteIsReadable`), and one that it would not run into not at all.

### The application

Assumed: signals are not threads of the program. `IInv` adds who the looper is
(`Foreground`), that it only sends on a step it has handled (`LooperHolds`), that the
chain's message is in the queue once, or in the looper's hand, or still with the trigger
(`Chain`, from which `OneChain` follows), which is not before `run` (`TriggerWaits`). No
length of a sleep is assumed.

### The TCP server

Assumed: finitely many clients, handler names apart from `DEFAULT`, `UNKNOWN` and the
kinds of segments, and a sentinel that is nothing else (`NamesAssumption`). From a state
in which a thread is `wild` nothing changes, so that `IInv` is `TypeOK /\ (~Wild =>
Tables /\ ScansItsSlot)`. `Tables` says what neither property knows: a connection has
one descriptor, a descriptor in a slot is in no slot of any server besides, a free slot
has no name, and neither has a client that was not accepted; `ScansItsSlot`, that a
thread scans for a slot in use. That the lowest free descriptor exists (`FdIsLeft`) is
by counting. `WholePacketsAreServed` has the hypothesis that clients send no halves;
with halves it is false (`TcpServerSplit.cfg`). It needs that what `select` reported can
still be read when its slot's turn comes (`ReadyIsReadable`): the handling of a slot
takes nothing from another. It needs too that what was received is not empty and whole
(`GotIsSent`, `PacketsAreFound`). Both this theorem and `NamesAreOwn` except, as the
properties do, clients scanned amid another server's bytes; `tcp_names` shows that the
exception cannot be dropped.

### The patcher

Assumed: what one job writes no other reads or writes (`PathsAssumption`); jobs may share
sources, and any may be a partition's or a file's. `NothingLost` is of jobs that are
`Undisturbed`, and both parts of that are needed (`ApplyPatchShared.cfg`,
`ApplyPatchNoAssert.cfg`). It is not
inductive: it does not know whose copy it is when the source is unlinked, nor that nobody
needs the copy that is about to be overwritten. The invariant `IInv` adds

* `BeforeJob`: the asserted jobs before the present one are patched;
* `InOrder`: an undisturbed job whose source is not the old one any more has only patched
  jobs before it, so that at most one of them depends on the copy, and it is the first;
* `AtPlace`: what each place in the program knows of the disk. At `save` a file's source is
  whole, from `unlink` to `replace` the copy is that of `job`; a copy this run made is
  that of `job`, or junk if `job` is a partition.

### The disk cache

Assumed: finitely many keys, at least one value per entry, lengths and limits that are
positive, a writer's buffer of at least one line. A journal is what readers make of it, and
the process may die before any line of the buffer is written. So the invariant does not
speak of the journal but of its *survivors*: the tables it may be read as, one for every
prefix of the buffer (`Survivors`; just one after a torn line, none if it is corrupt).
`IInv` says that each of them is `Good`:

* `Fine`: the keys it knows are those it has as readable or edited;
* it has every entry as edited that is being edited now, so that recovery deletes what
  the editor leaves;
* `Kept`: of an entry that recovery would keep, every file there is has the length that
  the table says, holds what was last committed, and has no half-made successor;
* `Covered`: a key that it does not know has no files.

The rest is `Memory` and `NoLeak` (the same of the table in memory), `Writing` (an editor's
files hold what it wrote), `Tracks` (all lines replayed, the table is that in memory) and
types. `StaysGood` shows that an old survivor stays good in any step that makes files of
edited entries only, and each action has a lemma for the one new survivor that its line
brings. The order of operations is what this proof hangs on: `edit` flushes `DIRTY` before
there is any file, `rebuildJournal` keeps the backup until the new journal is in place, a
removal deletes files before it logs, which is why `Kept` allows files to be missing, and
the properties are about entries whose files exist.

`CommitsAreAtomic` has the hypothesis that every stream opens its file. Without it the
property is false (`DiskLruCacheMix.cfg`), and the invariant is stated so that the other
theorems do not need it. `SizeIsLengths` needs besides that entries without values have no
lengths, which holds of every table that lines lead to and is part of `TableType`. Sums and
replays are functions on sets and on numbers of lines; that the recursive functions have
values is proved (`FoldExists`, `AfterExists`), by counting up (`UpTo`).

### Only model-checked

Liveness (`DestroyReturns`, `AcceptedRuns`, `BlockedReaderReturns`, `PostedIsPopped`,
`SignalEndsApp`, `HungUpIsFreed`, `UnreadIsRead`, `RunPatchesFiles`, `LockIsReleased`,
`CleanupMeetsLimit`, `MutexIsReleased`) rests on fairness and is out of the prover's reach.
Every other property of a passing run is the statement of a theorem. That a
hypothesis is needed (`log_stale`, `tcp_names`) is shown by TLC alone, and so are the
configurations that no run lists (`TcpServerSplit.cfg`, `DiskLruCacheMix.cfg`).

## Not modelled

The repository has some 360,000 lines of implementation in two thousand files; the
modules stand for a small share of them. Most of the rest is not one system: a fragment
of glibc, SQLite, google_test in two copies, AOSP's recovery, toolbox and boot loaders,
kernel drivers, exercises to books, and scripts of a page each. What is vendored is at
most called, and what is an exercise runs alone and ends: nothing shared, nothing to lose,
nothing to interleave that a state machine would say something about.

Of the framework itself:

* the TCP slave (`appe_tcp_slave.c`): its receive thread and its callers share `fd`,
  `pthread` and the flag `SERVER_QUIT` (one for all slaves) without any lock,
  `pthread_join` is called on threads that detached themselves, and only sleeps keep them
  apart. A model would have to exclude nearly every interleaving before a property could
  hold;
* server and slave groups, `hashmap.c`, the linked list: tables and pointers used by one
  thread at a time. `AppRuntime` has the list as a sequence;
* Modbus, databases, serial and GTK modules: wrappers of libraries with no state but a
  handle. Options, ini, md5 and the zlog wrapper parse or format.

## Plan

1. (done) `ThreadPool`, `TaskPool`, `ThreadPoolProofs`, `Logger`, `AppRuntime`,
   `TcpServer`.
2. (done) What must survive a crash: `ApplyPatch` with its proofs, `DiskLruCache`.
3. (done) Proofs of every safety property that a passing run checks, and that
   `ThreadPool` implements `TaskPool`.
4. `DiskLruCache`: sequence numbers and stale snapshots, the order of eviction.
5. `TcpServer`: an abstract server (clients known by name, heard or closed) that it
   implements; `free_socket` slot by slot, to follow a descriptor that is closed twice
   into the other server.
