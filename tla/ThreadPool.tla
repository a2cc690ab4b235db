----------------------------- MODULE ThreadPool -----------------------------
(***************************************************************************)
(* The pthread pool c/libraries/threadpool/src/threadpool.c, on which the  *)
(* TaskManager of app_engine runs its tasks.  Every access the code makes  *)
(* while it holds pool->lock is one step that starts from lock = self; the *)
(* steps outside the lock (thread creation, join, free) stand alone.       *)
(*                                                                         *)
(* accepted, taken and done record what the pool did: the tasks            *)
(* threadpool_add returned 0 for, the tasks workers dequeued, both in      *)
(* order, and the tasks whose function returned.                           *)
(***************************************************************************)
EXTENDS Integers, Sequences, FiniteSets, Functions

CONSTANTS ThreadCount,     \* thread_count of threadpool_create
          QueueSize,       \* queue_size of threadpool_create
          Callers,         \* threads that use the pool's handle
          Owner,           \* the caller that creates the pool
          Destroyers,      \* the callers that may call threadpool_destroy
          Tasks,           \* (function, argument) pairs, each added once
          NoThread,        \* owner of a free mutex
          NoTask           \* content of a queue slot never written

Workers == 1..ThreadCount
Threads == Workers \cup Callers

ASSUME ThreadCountAssumption == ThreadCount \in Nat \ {0}
ASSUME QueueSizeAssumption   == QueueSize \in Nat \ {0}
ASSUME CallersAssumption     == /\ Owner \in Callers
                                /\ Destroyers \subseteq Callers
                                /\ Callers \cap Workers = {}
                                /\ NoThread \notin Threads
ASSUME TasksAssumption       == NoTask \notin Tasks

(* threadpool_shutdown_t, 0 while the pool is open *)
Open      == 0
Immediate == 1
Graceful  == 2

VARIABLES lock, notify, queue, head, tail, count, shutdown, threadCount,
          started, memory, pc, task, arg, joined, accepted, taken, done

ring  == <<queue, head, tail, count>>
flags == <<shutdown, threadCount, started, memory>>
hist  == <<accepted, taken, done>>
vars  == <<lock, notify, ring, flags, pc, task, arg, joined, hist>>

WorkerPC == {"unborn", "lock", "test", "wait", "run", "add", "adding", "exited"}
CallerPC == {"outside", "alloc", "create", "idle", "add", "adding", "destroy",
             "destroying", "join", "free", "freeLock", "destroyed", "wild"}

Init ==
  /\ lock = NoThread
  /\ notify = {}
  /\ queue = [i \in 0..(QueueSize - 1) |-> NoTask]
  /\ head = 0 /\ tail = 0 /\ count = 0
  /\ shutdown = Open /\ threadCount = 0 /\ started = 0
  /\ memory = "none"
  /\ pc = [t \in Threads |-> IF t \in Workers THEN "unborn"
                             ELSE IF t = Owner THEN "alloc" ELSE "outside"]
  /\ task = [w \in Workers |-> NoTask]
  /\ arg = [t \in Threads |-> NoTask]
  /\ joined = [c \in Callers |-> 0]
  /\ accepted = <<>> /\ taken = <<>> /\ done = {}

Goto(t, label) == pc' = [pc EXCEPT ![t] = label]

(* The index after i in the circular buffer. *)
Wrap_OneEarly(i) == IF i + 2 >= QueueSize THEN 0 ELSE i + 1
Wrap(i) == IF i + 1 = QueueSize THEN 0 ELSE i + 1

(* Slot i of the backlog, i = 0 being the oldest task: where the code put
   it, as the indices only move by Wrap. *)
Slot(i) == IF head + i < QueueSize THEN head + i ELSE head + i - QueueSize

-----------------------------------------------------------------------------
(* threadpool_create *)

(* The struct, both arrays, the mutex and the condition are there. *)
CreateAlloc ==
  /\ pc[Owner] = "alloc"
  /\ memory' = "live"
  /\ Goto(Owner, "create")
  /\ UNCHANGED <<lock, notify, ring, shutdown, threadCount, started, task, arg,
                 joined, hist>>

(* goto err: whatever was allocated is released, the caller gets NULL. *)
CreateAllocFails ==
  /\ pc[Owner] = "alloc"
  /\ memory' = "freed"
  /\ Goto(Owner, "destroyed")
  /\ UNCHANGED <<lock, notify, ring, shutdown, threadCount, started, task, arg,
                 joined, hist>>

CreateThread ==
  LET w == threadCount + 1 IN
  /\ pc[Owner] = "create"
  /\ threadCount < ThreadCount
  /\ pc' = [pc EXCEPT ![w] = "lock"]
  /\ threadCount' = threadCount + 1
  /\ started' = started + 1
  /\ UNCHANGED <<lock, notify, ring, shutdown, memory, task, arg, joined, hist>>

(* pthread_create failed: threadpool_destroy(pool, 0), then NULL. *)
CreateThreadFails ==
  /\ pc[Owner] = "create"
  /\ threadCount < ThreadCount
  /\ pc' = [pc EXCEPT ![Owner] = "destroy"]
  /\ UNCHANGED <<lock, notify, ring, flags, task, arg, joined, hist>>

(* The pool is returned and its handle handed to the other callers. *)
CreateReturns ==
  /\ pc[Owner] = "create"
  /\ threadCount = ThreadCount
  /\ pc' = [t \in Threads |-> IF t \in Callers THEN "idle" ELSE pc[t]]
  /\ UNCHANGED <<lock, notify, ring, flags, task, arg, joined, hist>>

-----------------------------------------------------------------------------
(* threadpool_add, called by a caller or by a running task *)

Adding(t) == pc[t] \in {"add", "adding"}

Fresh == Tasks \ (Range(accepted) \cup {arg[t] : t \in {u \in Threads : Adding(u)}})

AddCall(t) ==
  /\ \/ t \in Callers /\ pc[t] = "idle"
     \/ t \in Workers /\ pc[t] = "run"
  /\ \E x \in Fresh : arg' = [arg EXCEPT ![t] = x]
  /\ Goto(t, "add")
  /\ UNCHANGED <<lock, notify, ring, flags, task, joined, hist>>

AddLock(t) ==
  /\ pc[t] = "add"
  /\ lock = NoThread /\ memory # "freed"
  /\ lock' = t
  /\ Goto(t, "adding")
  /\ UNCHANGED <<notify, ring, flags, task, arg, joined, hist>>

(* pthread_cond_signal wakes one of the waiting workers, if there is one. *)
Signal_Lost == UNCHANGED notify
Signal ==
  IF notify = {} THEN UNCHANGED notify
  ELSE \E w \in notify : notify' = notify \ {w}

AddRejected_NotWhenFull == shutdown # Open
AddRejected_NotInShutdown == count = QueueSize
AddRejected == count = QueueSize \/ shutdown # Open

ReturnFromAdd(t) == Goto(t, IF t \in Workers THEN "run" ELSE "idle")

Enqueue(t) ==
  /\ pc[t] = "adding" /\ lock = t
  /\ ~AddRejected
  /\ queue' = [queue EXCEPT ![tail] = arg[t]]
  /\ tail' = Wrap(tail)
  /\ count' = count + 1
  /\ Signal
  /\ lock' = NoThread
  /\ ReturnFromAdd(t)
  /\ accepted' = Append(accepted, arg[t])
  /\ UNCHANGED <<head, flags, task, arg, joined, taken, done>>

(* threadpool_queue_full or threadpool_shutdown. *)
Reject(t) ==
  /\ pc[t] = "adding" /\ lock = t
  /\ AddRejected
  /\ lock' = NoThread
  /\ ReturnFromAdd(t)
  /\ UNCHANGED <<notify, ring, flags, task, arg, joined, hist>>

-----------------------------------------------------------------------------
(* threadpool_destroy and threadpool_free *)

DestroyCall(c) ==
  /\ c \in Destroyers /\ pc[c] = "idle"
  /\ Goto(c, "destroy")
  /\ UNCHANGED <<lock, notify, ring, flags, task, arg, joined, hist>>

DestroyLock(c) ==
  /\ pc[c] = "destroy"
  /\ lock = NoThread /\ memory # "freed"
  /\ lock' = c
  /\ Goto(c, "destroying")
  /\ UNCHANGED <<notify, ring, flags, task, arg, joined, hist>>

(* A destroy on the way out of threadpool_create passes flags = 0. *)
ShutdownKinds == IF threadCount < ThreadCount THEN {Immediate}
                 ELSE {Immediate, Graceful}

BeginShutdown_NoBroadcast(c) ==
  /\ pc[c] = "destroying" /\ lock = c
  /\ shutdown = Open
  /\ shutdown' \in ShutdownKinds
  /\ lock' = NoThread
  /\ Goto(c, "join")
  /\ UNCHANGED <<notify, ring, threadCount, started, memory, task, arg, joined, hist>>

(* First destroy: set shutdown, broadcast, unlock, go and join. *)
BeginShutdown(c) ==
  /\ pc[c] = "destroying" /\ lock = c
  /\ shutdown = Open
  /\ shutdown' \in ShutdownKinds
  /\ notify' = {}
  /\ lock' = NoThread
  /\ Goto(c, "join")
  /\ UNCHANGED <<ring, threadCount, started, memory, task, arg, joined, hist>>

(* Already shutting down: the break leaves the do-while, and the function
   returns threadpool_shutdown without unlocking. *)
AlreadyShutdown(c) ==
  /\ pc[c] = "destroying" /\ lock = c
  /\ shutdown # Open
  /\ Goto(c, "destroyed")
  /\ UNCHANGED <<lock, notify, ring, flags, task, arg, joined, hist>>

JoinThread_NoWait(c) ==
  /\ pc[c] = "join"
  /\ joined[c] < threadCount
  /\ joined' = [joined EXCEPT ![c] = @ + 1]
  /\ UNCHANGED <<lock, notify, ring, flags, pc, task, arg, hist>>

JoinThread(c) ==
  /\ pc[c] = "join"
  /\ joined[c] < threadCount
  /\ pc[joined[c] + 1] = "exited"
  /\ joined' = [joined EXCEPT ![c] = @ + 1]
  /\ UNCHANGED <<lock, notify, ring, flags, pc, task, arg, hist>>

JoinDone(c) ==
  /\ pc[c] = "join"
  /\ joined[c] = threadCount
  /\ Goto(c, "free")
  /\ UNCHANGED <<lock, notify, ring, flags, task, arg, joined, hist>>

(* threadpool_free refuses while started > 0 and its result is ignored;
   otherwise it frees both arrays first. *)
FreeArrays(c) ==
  /\ pc[c] = "free"
  /\ IF started > 0
     THEN UNCHANGED memory /\ Goto(c, "destroyed")
     ELSE memory' = "arraysFreed" /\ Goto(c, "freeLock")
  /\ UNCHANGED <<lock, notify, ring, shutdown, threadCount, started, task, arg,
                 joined, hist>>

(* "Let's lock the mutex just in case": lock, destroy it, free(pool). *)
FreePool(c) ==
  /\ pc[c] = "freeLock"
  /\ lock = NoThread
  /\ lock' = c
  /\ memory' = "freed"
  /\ Goto(c, "destroyed")
  /\ UNCHANGED <<notify, ring, shutdown, threadCount, started, task, arg,
                 joined, hist>>

(* A call that reaches pool->lock after free(pool): undefined from here. *)
TouchFreed(c) ==
  /\ pc[c] \in {"add", "destroy"} /\ c \in Callers
  /\ memory = "freed"
  /\ Goto(c, "wild")
  /\ UNCHANGED <<lock, notify, ring, flags, task, arg, joined, hist>>

-----------------------------------------------------------------------------
(* threadpool_thread *)

MustWait == count = 0 /\ shutdown = Open
MustExit_Undrained == shutdown # Open
MustExit == shutdown = Immediate \/ (shutdown = Graceful /\ count = 0)

WorkerLock(w) ==
  /\ pc[w] = "lock"
  /\ lock = NoThread
  /\ lock' = w
  /\ Goto(w, "test")
  /\ UNCHANGED <<notify, ring, flags, task, arg, joined, hist>>

WorkerWait(w) ==
  /\ pc[w] = "test" /\ lock = w
  /\ MustWait
  /\ notify' = notify \cup {w}
  /\ lock' = NoThread
  /\ Goto(w, "wait")
  /\ UNCHANGED <<ring, flags, task, arg, joined, hist>>

(* Signalled: pthread_cond_wait takes the lock again before it returns. *)
WorkerWake(w) ==
  /\ pc[w] = "wait" /\ w \notin notify
  /\ lock = NoThread
  /\ lock' = w
  /\ Goto(w, "test")
  /\ UNCHANGED <<notify, ring, flags, task, arg, joined, hist>>

SpuriousWakeup(w) ==
  /\ w \in notify
  /\ notify' = notify \ {w}
  /\ UNCHANGED <<lock, ring, flags, pc, task, arg, joined, hist>>

WorkerTake(w) ==
  /\ pc[w] = "test" /\ lock = w
  /\ ~MustWait /\ ~MustExit
  /\ task' = [task EXCEPT ![w] = queue[head]]
  /\ taken' = Append(taken, queue[head])
  /\ head' = Wrap(head)
  /\ count' = count - 1
  /\ lock' = NoThread
  /\ Goto(w, "run")
  /\ UNCHANGED <<notify, queue, tail, flags, arg, joined, accepted, done>>

(* The task's function returns. *)
WorkerRun(w) ==
  /\ pc[w] = "run"
  /\ done' = done \cup {task[w]}
  /\ task' = [task EXCEPT ![w] = NoTask]
  /\ Goto(w, "lock")
  /\ UNCHANGED <<lock, notify, ring, flags, arg, joined, accepted, taken>>

WorkerExit(w) ==
  /\ pc[w] = "test" /\ lock = w
  /\ ~MustWait /\ MustExit
  /\ started' = started - 1
  /\ lock' = NoThread
  /\ Goto(w, "exited")
  /\ UNCHANGED <<notify, ring, shutdown, threadCount, memory, task, arg, joined,
                 hist>>

-----------------------------------------------------------------------------
Create == \/ CreateAlloc \/ CreateAllocFails \/ CreateThread
          \/ CreateThreadFails \/ CreateReturns

(* The steps a thread takes once it is inside the pool's code. *)
AddStep(t) == Enqueue(t) \/ Reject(t)

CallerStep(c) == \/ BeginShutdown(c) \/ AlreadyShutdown(c)
                 \/ JoinThread(c) \/ JoinDone(c)
                 \/ FreeArrays(c) \/ TouchFreed(c)

WorkerStep(w) == WorkerWait(w) \/ WorkerTake(w) \/ WorkerRun(w) \/ WorkerExit(w)

(* The steps that acquire pool->lock. *)
CallerAcquire(c) == AddLock(c) \/ DestroyLock(c) \/ FreePool(c)
WorkerAcquire(w) == AddLock(w) \/ WorkerLock(w) \/ WorkerWake(w)

(* The pool is gone and every caller has returned for good; or a second
   destroy has returned with the lock, and who needs it waits for ever. *)
Gone == /\ memory = "freed"
        /\ \A c \in Callers : pc[c] \in {"outside", "idle", "destroyed", "wild"}
LockLeaked == \E c \in Callers : lock = c /\ pc[c] = "destroyed"

Terminated == (Gone \/ LockLeaked) /\ UNCHANGED vars

Next ==
  \/ Create
  \/ \E c \in Callers : \/ AddCall(c) \/ DestroyCall(c)
                        \/ AddStep(c) \/ CallerStep(c) \/ CallerAcquire(c)
  \/ \E w \in Workers : \/ AddCall(w) \/ SpuriousWakeup(w)
                        \/ AddStep(w) \/ WorkerStep(w) \/ WorkerAcquire(w)
  \/ Terminated

(* The scheduler runs every thread, tasks terminate, and a mutex that is
   released again and again is eventually granted to each thread that asks
   for it.  Nobody is obliged to call the pool, and a wakeup need not be
   spurious. *)
Fairness ==
  /\ WF_vars(Create)
  /\ \A c \in Callers : /\ WF_vars(AddStep(c)) /\ WF_vars(CallerStep(c))
                        /\ SF_vars(CallerAcquire(c))
  /\ \A w \in Workers : /\ WF_vars(AddStep(w)) /\ WF_vars(WorkerStep(w))
                        /\ SF_vars(WorkerRun(w)) /\ SF_vars(WorkerAcquire(w))

Spec == Init /\ [][Next]_vars
FairSpec == Spec /\ Fairness

-----------------------------------------------------------------------------
(* Properties *)

TypeOK ==
  /\ lock \in Threads \cup {NoThread}
  /\ notify \subseteq Workers
  /\ queue \in [0..(QueueSize - 1) -> Tasks \cup {NoTask}]
  /\ head \in 0..(QueueSize - 1) /\ tail \in 0..(QueueSize - 1)
  /\ count \in 0..QueueSize
  /\ shutdown \in {Open, Immediate, Graceful}
  /\ threadCount \in 0..ThreadCount /\ started \in 0..ThreadCount
  /\ memory \in {"none", "live", "arraysFreed", "freed"}
  /\ pc \in [Threads -> WorkerPC \cup CallerPC]
  /\ \A w \in Workers : pc[w] \in WorkerPC
  /\ \A c \in Callers : pc[c] \in CallerPC
  /\ task \in [Workers -> Tasks \cup {NoTask}]
  /\ arg \in [Threads -> Tasks \cup {NoTask}]
  /\ joined \in [Callers -> 0..ThreadCount]
  /\ accepted \in Seq(Tasks) /\ taken \in Seq(Tasks)
  /\ done \subseteq Tasks

(* Tasks leave in the order threadpool_add accepted them, none lost, none
   twice: what was taken is a prefix of what was accepted, and the ring
   between head and tail holds exactly the rest (threadpool.c:160-180 and
   285-289 move tail, head and count separately). *)
RingHoldsBacklog ==
  /\ Len(accepted) = Len(taken) + count
  /\ \A i \in 1..Len(taken) : taken[i] = accepted[i]
  /\ \A i \in 0..(count - 1) : queue[Slot(i)] = accepted[Len(taken) + 1 + i]
  /\ tail = Slot(count)

(* threadpool_free releases the queue, the mutex and the pool only when no
   worker can touch them any more, and a destroy that joined the workers
   never finds started > 0 and leaks the pool (threadpool.c:225-257). *)
FreedAfterWorkers ==
  /\ memory \in {"arraysFreed", "freed"} =>
       \A w \in Workers : pc[w] \in {"unborn", "exited"}
  /\ \A c \in Callers : pc[c] \in {"free", "freeLock"} => started = 0

(* threadpool.h:80-82: a graceful destroy "processes all pending tasks
   before shutdown"; tests/shutdown.c:46 counts on it. *)
GracefulRunsEverything ==
  memory = "freed" /\ shutdown = Graceful => Range(accepted) \subseteq done

(* One signal for each task suffices: while a worker sleeps on the condition
   variable, every pending task has an awake worker of its own on its way to
   the queue, in spite of signals that reach a worker after another one took
   its task (threadpool.c:183 and 274-276). *)
OnTheWay == {w \in Workers : \/ pc[w] \in {"lock", "test"}
                             \/ pc[w] = "wait" /\ w \notin notify}
NoSleeperWhilePending == notify # {} => count <= Cardinality(OnTheWay)

(* A destroy returns: every worker is woken, leaves its loop and is joined
   ("Stops and joins all worker threads on destroy", README). *)
DestroyReturns ==
  \A c \in Callers : pc[c] = "destroy" ~> pc[c] = "destroyed"

(* A task that was accepted runs to its end unless an immediate shutdown
   drops it. *)
AcceptedRuns ==
  \A x \in Tasks : x \in Range(accepted) ~> x \in done \/ shutdown = Immediate

(* What the pool's state means to its users. *)
Backlog      == [i \in 1..count |-> queue[Slot(i - 1)]]
RunningTasks == {task[w] : w \in {v \in Workers : task[v] # NoTask}}
Phase == IF memory = "freed" THEN "closed"
         ELSE IF shutdown = Open THEN "open"
         ELSE IF shutdown = Graceful THEN "draining" ELSE "dropping"

(* The pool implements TaskPool. *)
Pool == INSTANCE TaskPool WITH Capacity <- QueueSize, backlog <- Backlog,
          running <- RunningTasks, finished <- done, phase <- Phase
ImplementsTaskPool == Pool!Spec
=============================================================================
