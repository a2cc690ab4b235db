-------------------------- MODULE ThreadPoolProofs --------------------------
(***************************************************************************)
(* Proofs about ThreadPool for every number of workers, callers, tasks and *)
(* queue slots.  The inductive invariant is the conjunction IInv of the    *)
(* parts below; each part says what another part, or a property, needs.    *)
(***************************************************************************)
EXTENDS ThreadPool, SequenceTheorems, FiniteSetTheorems, TLAPS

(* The mutex is what makes the critical sections exclusive. *)
LockHeld == \A t \in Threads : pc[t] \in {"test", "adding", "destroying"} => lock = t

(* Workers are started in order; creation precedes every other call. *)
BornInOrder == \A w \in Workers : pc[w] = "unborn" <=> w > threadCount
CreationFirst ==
  /\ pc[Owner] \in {"alloc", "create"} =>
       \A c \in Callers \ {Owner} : pc[c] = "outside"
  /\ pc[Owner] = "alloc" => threadCount = 0
  /\ \A c \in Callers : pc[c] \in {"alloc", "create"} => c = Owner

(* The pool's memory, the shutdown flag and the threads that destroy it. *)
AliveUntilFreed ==
  /\ pc[Owner] \in {"alloc", "create"} =>
       memory \in {"none", "live"} /\ shutdown = Open
  /\ \A c \in Callers : pc[c] \in {"join", "free", "freeLock"} => shutdown # Open
  /\ shutdown = Open => \A w \in Workers : pc[w] # "exited"
JoinedExited ==
  \A c \in Callers :
    /\ \A i \in 1..joined[c] : pc[i] = "exited"
    /\ pc[c] \in {"free", "freeLock"} => joined[c] = threadCount

(* started counts the workers that have not left their loop. *)
Running == {w \in Workers : pc[w] \notin {"unborn", "exited"}}
StartedCounts == started = Cardinality(Running)

(* A dequeued task is run by the worker that took it, or has run. *)
TaskOfWorker ==
  \A w \in Workers : task[w] # NoTask <=> pc[w] \in {"run", "add", "adding"}
TakenRuns ==
  \A i \in 1..Len(taken) : taken[i] \in done \/ \E w \in Workers : task[w] = taken[i]

(* A graceful shutdown is that of a complete pool, and a worker that leaves it
   leaves no backlog behind. *)
GracefulIsComplete == shutdown = Graceful => threadCount = ThreadCount
Drained == shutdown = Graceful /\ (\E w \in Workers : pc[w] = "exited") => count = 0
ArgIsTask == \A t \in Threads : pc[t] \in {"add", "adding"} => arg[t] \in Tasks

Lifecycle == BornInOrder /\ CreationFirst /\ AliveUntilFreed /\ GracefulIsComplete

IInv == /\ TypeOK /\ LockHeld /\ Lifecycle /\ JoinedExited /\ StartedCounts
        /\ FreedAfterWorkers /\ RingHoldsBacklog
        /\ TaskOfWorker /\ TakenRuns /\ Drained /\ ArgIsTask

-----------------------------------------------------------------------------

(* Workers and callers are disjoint sets of threads; workers are numbered. *)
LEMMA ThreadFacts ==
  /\ Workers \subseteq Threads /\ Callers \subseteq Threads
  /\ Owner \in Callers /\ Callers \cap Workers = {}
  /\ NoThread \notin Threads
  /\ \A w \in Workers : w \in Int
BY CallersAssumption, ThreadCountAssumption DEF Threads, Workers

(* What the type invariant says of control and of the counters. *)
PcFun == /\ pc \in [Threads -> WorkerPC \cup CallerPC]
         /\ \A w \in Workers : pc[w] \in WorkerPC
         /\ \A c \in Callers : pc[c] \in CallerPC
LEMMA PcFacts == TypeOK => PcFun
BY DEF TypeOK, PcFun

-----------------------------------------------------------------------------
(* LockHeld is preserved by every step. *)
LEMMA LockHeldStep ==
  ASSUME PcFun, LockHeld, [Next]_vars
  PROVE  LockHeld'
<1> USE ThreadFacts DEF LockHeld, PcFun, Goto
<1>1. CASE Create
  BY <1>1 DEF Create, CreateAlloc, CreateAllocFails, CreateThread,
              CreateThreadFails, CreateReturns
<1>2. ASSUME NEW t \in Threads, AddCall(t) \/ AddLock(t)
      PROVE  LockHeld'
  BY <1>2 DEF AddCall, AddLock
<1>3. ASSUME NEW t \in Threads, AddStep(t)
      PROVE  LockHeld'
  BY <1>3 DEF AddStep, Enqueue, Reject, ReturnFromAdd
<1>4. ASSUME NEW c \in Callers,
             DestroyCall(c) \/ CallerStep(c) \/ DestroyLock(c) \/ FreePool(c)
      PROVE  LockHeld'
  BY <1>4 DEF DestroyCall, CallerStep, DestroyLock, FreePool, BeginShutdown,
     AlreadyShutdown, JoinThread, JoinDone, FreeArrays, TouchFreed
<1>5. ASSUME NEW w \in Workers, \/ SpuriousWakeup(w) \/ WorkerStep(w)
                                \/ WorkerLock(w) \/ WorkerWake(w)
      PROVE  LockHeld'
  BY <1>5 DEF SpuriousWakeup, WorkerStep, WorkerLock, WorkerWake, WorkerWait,
     WorkerTake, WorkerRun, WorkerExit
<1>6. CASE UNCHANGED vars
  BY <1>6 DEF vars
<1> QED
  BY <1>1, <1>2, <1>3, <1>4, <1>5, <1>6
     DEF Next, Terminated, CallerAcquire, WorkerAcquire

-----------------------------------------------------------------------------
(* Creation, shutdown and the memory: which thread may be where. *)
LEMMA LifecycleStep ==
  ASSUME PcFun, threadCount \in 0..ThreadCount, Lifecycle, [Next]_vars
  PROVE  Lifecycle'
<1> USE ThreadFacts, ThreadCountAssumption
    DEF Lifecycle, BornInOrder, CreationFirst, AliveUntilFreed,
        GracefulIsComplete, PcFun, Goto, Open, Immediate, Graceful
<1>1. CASE Create
  <2>1. CASE CreateAlloc \/ CreateAllocFails
    BY <2>1 DEF CreateAlloc, CreateAllocFails
  <2>2. CASE CreateThread
    BY <2>2 DEF CreateThread, Workers
  <2>3. CASE CreateThreadFails \/ CreateReturns
    BY <2>3 DEF CreateThreadFails, CreateReturns, flags
  <2> QED BY <1>1, <2>1, <2>2, <2>3 DEF Create
<1>2. ASSUME NEW t \in Threads, AddCall(t) \/ AddLock(t)
      PROVE  Lifecycle'
  BY <1>2 DEF AddCall, AddLock, flags
<1>3. ASSUME NEW t \in Threads, AddStep(t)
      PROVE  Lifecycle'
  BY <1>3 DEF AddStep, Enqueue, Reject, ReturnFromAdd, flags
<1>4. ASSUME NEW c \in Callers, DestroyCall(c) \/ DestroyLock(c) \/ FreePool(c)
      PROVE  Lifecycle'
  BY <1>4 DEF DestroyCall, DestroyLock, FreePool, flags
<1>5. ASSUME NEW c \in Callers, CallerStep(c)
      PROVE  Lifecycle'
  BY <1>5 DEF CallerStep, BeginShutdown, AlreadyShutdown, JoinThread, JoinDone,
     FreeArrays, TouchFreed, ShutdownKinds, flags
<1>6. ASSUME NEW w \in Workers, \/ SpuriousWakeup(w) \/ WorkerStep(w)
                                \/ WorkerLock(w) \/ WorkerWake(w)
      PROVE  Lifecycle'
  BY <1>6 DEF SpuriousWakeup, WorkerStep, WorkerLock, WorkerWake, WorkerWait,
     WorkerTake, WorkerRun, WorkerExit, MustExit, flags
<1>7. CASE UNCHANGED vars
  BY <1>7 DEF vars, flags
<1> QED
  BY <1>1, <1>2, <1>3, <1>4, <1>5, <1>6, <1>7
     DEF Next, Terminated, CallerAcquire, WorkerAcquire

-----------------------------------------------------------------------------
(* A worker that left its loop never comes back. *)
LEMMA ExitedStays ==
  ASSUME PcFun, threadCount \in 0..ThreadCount, BornInOrder, [Next]_vars,
         NEW v \in Workers, pc[v] = "exited"
  PROVE  pc'[v] = "exited"
<1> USE ThreadFacts, ThreadCountAssumption DEF BornInOrder, PcFun, Goto
<1>1. CASE Create
  BY <1>1 DEF Create, CreateAlloc, CreateAllocFails, CreateThread,
     CreateThreadFails, CreateReturns, Workers
<1>2. ASSUME NEW t \in Threads, AddCall(t) \/ AddLock(t) \/ AddStep(t)
      PROVE  pc'[v] = "exited"
  BY <1>2 DEF AddCall, AddLock, AddStep, Enqueue, Reject, ReturnFromAdd
<1>3. ASSUME NEW c \in Callers,
             DestroyCall(c) \/ DestroyLock(c) \/ FreePool(c) \/ CallerStep(c)
      PROVE  pc'[v] = "exited"
  BY <1>3 DEF DestroyCall, DestroyLock, FreePool, CallerStep, BeginShutdown,
     AlreadyShutdown, JoinThread, JoinDone, FreeArrays, TouchFreed
<1>4. ASSUME NEW w \in Workers, \/ SpuriousWakeup(w) \/ WorkerStep(w)
                                \/ WorkerLock(w) \/ WorkerWake(w)
      PROVE  pc'[v] = "exited"
  BY <1>4 DEF SpuriousWakeup, WorkerStep, WorkerLock, WorkerWake, WorkerWait,
     WorkerTake, WorkerRun, WorkerExit
<1>5. CASE UNCHANGED vars
  BY <1>5 DEF vars
<1> QED
  BY <1>1, <1>2, <1>3, <1>4, <1>5 DEF Next, Terminated, CallerAcquire, WorkerAcquire

(* A destroy joins the workers in turn; who is joined has left its loop. *)
LEMMA JoinedExitedStep ==
  ASSUME PcFun, threadCount \in 0..ThreadCount, joined \in [Callers -> 0..ThreadCount],
         Lifecycle, JoinedExited, [Next]_vars
  PROVE  JoinedExited'
<1> USE ThreadFacts, ThreadCountAssumption DEF PcFun, Goto
<1>1. ASSUME NEW c \in Callers, NEW i \in 1..joined'[c]
      PROVE  pc'[i] = "exited"
  <2>1. \/ joined' = joined
        \/ \E d \in Callers : JoinThread(d)
    BY DEF Next, vars, Terminated, Create, CreateAlloc, CreateAllocFails, CreateThread,
       CreateThreadFails, CreateReturns, AddCall, AddStep, AddLock, Enqueue, Reject,
       DestroyCall, CallerStep, CallerAcquire, DestroyLock, FreePool, BeginShutdown,
       AlreadyShutdown, JoinDone, FreeArrays, TouchFreed, SpuriousWakeup, WorkerStep,
       WorkerAcquire, WorkerLock, WorkerWake, WorkerWait, WorkerTake, WorkerRun, WorkerExit
  <2>2. pc[i] = "exited"
    BY <2>1 DEF JoinedExited, JoinThread
  <2>3. i \in Workers
    <3>1. joined'[c] <= ThreadCount
      BY <2>1 DEF JoinThread
    <3>2. joined'[c] \in Int
      BY <2>1 DEF JoinThread
    <3> QED BY <3>1, <3>2 DEF Workers
  <2> QED BY <2>2, <2>3, ExitedStays DEF Lifecycle
<1>2. ASSUME NEW c \in Callers, pc'[c] \in {"free", "freeLock"}
      PROVE  joined'[c] = threadCount'
  <2> USE <1>2 DEF JoinedExited, Lifecycle, CreationFirst, AliveUntilFreed
  <2>1. CASE Create
    BY <2>1 DEF Create, CreateAlloc, CreateAllocFails, CreateThread,
       CreateThreadFails, CreateReturns, flags, Workers
  <2>2. ASSUME NEW t \in Threads, AddCall(t) \/ AddLock(t) \/ AddStep(t)
        PROVE  joined'[c] = threadCount'
    BY <2>2 DEF AddCall, AddLock, AddStep, Enqueue, Reject, ReturnFromAdd, flags
  <2>3. ASSUME NEW d \in Callers,
               DestroyCall(d) \/ DestroyLock(d) \/ FreePool(d) \/ CallerStep(d)
        PROVE  joined'[c] = threadCount'
    BY <2>3 DEF DestroyCall, DestroyLock, FreePool, CallerStep, BeginShutdown,
       AlreadyShutdown, JoinThread, JoinDone, FreeArrays, TouchFreed, flags
  <2>4. ASSUME NEW w \in Workers, \/ SpuriousWakeup(w) \/ WorkerStep(w)
                                  \/ WorkerLock(w) \/ WorkerWake(w)
        PROVE  joined'[c] = threadCount'
    BY <2>4 DEF SpuriousWakeup, WorkerStep, WorkerLock, WorkerWake, WorkerWait,
       WorkerTake, WorkerRun, WorkerExit, flags
  <2>5. CASE UNCHANGED vars
    BY <2>5 DEF vars, flags
  <2> QED
    BY <2>1, <2>2, <2>3, <2>4, <2>5 DEF Next, Terminated, CallerAcquire, WorkerAcquire
<1> QED BY <1>1, <1>2 DEF JoinedExited

-----------------------------------------------------------------------------
(* The counter started is the number of workers inside their loop. *)
LEMMA Interval1 ==
  ASSUME NEW n \in Nat, NEW S \in SUBSET (1..n)
  PROVE  IsFiniteSet(S) /\ Cardinality(S) \in Nat /\ Cardinality(S) <= n
<1>1. IsFiniteSet(1..n) /\ Cardinality(1..n) = n
  BY FS_Interval
<1> QED BY <1>1, FS_Subset, FS_CardinalityType

(* The workers in their loop can be counted. *)
LEMMA RunningFinite ==
  ASSUME threadCount \in 0..ThreadCount, BornInOrder
  PROVE  IsFiniteSet(Running)
<1>1. Running \subseteq 1..threadCount
  BY ThreadCountAssumption DEF Running, BornInOrder, Workers
<1> QED BY <1>1, Interval1

(* started counts them. *)
LEMMA StartedCountsStep ==
  ASSUME PcFun, threadCount \in 0..ThreadCount, Lifecycle, StartedCounts, [Next]_vars
  PROVE  StartedCounts'
<1> USE ThreadFacts, ThreadCountAssumption DEF Lifecycle, BornInOrder, PcFun, Goto
<1>f. IsFiniteSet(Running)
  BY RunningFinite
<1>1. CASE Create
  <2>1. CASE CreateThread
    <3>1. Running' = Running \cup {threadCount + 1}
      BY <2>1 DEF CreateThread, Running, Workers
    <3>2. threadCount + 1 \notin Running
      BY DEF Running
    <3>3. started' = started + 1
      BY <2>1 DEF CreateThread
    <3> QED BY <1>f, <3>1, <3>2, <3>3, FS_AddElement DEF StartedCounts
  <2>2. CASE CreateAlloc \/ CreateAllocFails \/ CreateThreadFails \/ CreateReturns
    <3>1. Running' = Running
      BY <2>2 DEF CreateAlloc, CreateAllocFails, CreateThreadFails, CreateReturns, Running
    <3>2. started' = started
      BY <2>2 DEF CreateAlloc, CreateAllocFails, CreateThreadFails, CreateReturns, flags
    <3> QED BY <3>1, <3>2 DEF StartedCounts
  <2> QED BY <1>1, <2>1, <2>2 DEF Create
<1>2. ASSUME NEW t \in Threads, AddCall(t) \/ AddLock(t) \/ AddStep(t)
      PROVE  StartedCounts'
  <2>1. Running' = Running
    BY <1>2 DEF AddCall, AddLock, AddStep, Enqueue, Reject, ReturnFromAdd, Running, WorkerPC
  <2>2. started' = started
    BY <1>2 DEF AddCall, AddLock, AddStep, Enqueue, Reject, flags
  <2> QED BY <2>1, <2>2 DEF StartedCounts
<1>3. ASSUME NEW c \in Callers,
             DestroyCall(c) \/ DestroyLock(c) \/ FreePool(c) \/ CallerStep(c)
      PROVE  StartedCounts'
  <2>1. Running' = Running
    BY <1>3 DEF DestroyCall, DestroyLock, FreePool, CallerStep, BeginShutdown,
       AlreadyShutdown, JoinThread, JoinDone, FreeArrays, TouchFreed, Running
  <2>2. started' = started
    BY <1>3 DEF DestroyCall, DestroyLock, FreePool, CallerStep, BeginShutdown,
       AlreadyShutdown, JoinThread, JoinDone, FreeArrays, TouchFreed, flags
  <2> QED BY <2>1, <2>2 DEF StartedCounts
<1>4. ASSUME NEW w \in Workers, WorkerExit(w)
      PROVE  StartedCounts'
  <2>1. Running' = Running \ {w} /\ w \in Running
    BY <1>4 DEF WorkerExit, Running
  <2>2. started' = started - 1
    BY <1>4 DEF WorkerExit
  <2> QED BY <1>f, <2>1, <2>2, FS_RemoveElement DEF StartedCounts
<1>5. ASSUME NEW w \in Workers,
             \/ SpuriousWakeup(w) \/ WorkerLock(w) \/ WorkerWake(w)
             \/ WorkerWait(w) \/ WorkerTake(w) \/ WorkerRun(w)
      PROVE  StartedCounts'
  <2>1. Running' = Running
    BY <1>5 DEF SpuriousWakeup, WorkerLock, WorkerWake, WorkerWait, WorkerTake,
       WorkerRun, Running
  <2>2. started' = started
    BY <1>5 DEF SpuriousWakeup, WorkerLock, WorkerWake, WorkerWait, WorkerTake,
       WorkerRun, flags
  <2> QED BY <2>1, <2>2 DEF StartedCounts
<1>6. CASE UNCHANGED vars
  BY <1>6 DEF vars, flags, StartedCounts, Running
<1> QED
  BY <1>1, <1>2, <1>3, <1>4, <1>5, <1>6
     DEF Next, Terminated, CallerAcquire, WorkerAcquire, WorkerStep

-----------------------------------------------------------------------------
(* Nothing a worker may touch is freed while a worker is left. *)
LEMMA AllGone ==
  ASSUME PcFun, BornInOrder, JoinedExited, threadCount \in 0..ThreadCount,
         StartedCounts, NEW c \in Callers, pc[c] \in {"join", "free", "freeLock"},
         joined[c] = threadCount
  PROVE  started = 0 /\ \A w \in Workers : pc[w] \in {"unborn", "exited"}
<1>1. \A w \in Workers : pc[w] \in {"unborn", "exited"}
  BY ThreadCountAssumption DEF JoinedExited, BornInOrder, Workers
<1>2. Running = {}
  BY <1>1 DEF Running
<1> QED BY <1>1, <1>2, FS_EmptySet DEF StartedCounts

(* Only who found started at zero goes on to free. *)
LEMMA FreedAfterWorkersStep ==
  ASSUME PcFun, Lifecycle, JoinedExited, threadCount \in 0..ThreadCount,
         StartedCounts, FreedAfterWorkers, [Next]_vars
  PROVE  FreedAfterWorkers'
<1> USE ThreadFacts DEF FreedAfterWorkers, PcFun, Goto
<1>1. CASE Create
  <2> USE DEF Lifecycle, AliveUntilFreed, CreationFirst
  <2>1. CASE CreateAllocFails
    BY <2>1 DEF CreateAllocFails, BornInOrder, Workers
  <2>2. CASE CreateAlloc \/ CreateThread \/ CreateThreadFails \/ CreateReturns
    BY <2>2 DEF CreateAlloc, CreateThread, CreateThreadFails, CreateReturns, flags, Workers
  <2> QED BY <1>1, <2>1, <2>2 DEF Create
<1>2. ASSUME NEW t \in Threads, AddCall(t) \/ AddLock(t) \/ AddStep(t)
      PROVE  FreedAfterWorkers'
  BY <1>2 DEF AddCall, AddLock, AddStep, Enqueue, Reject, ReturnFromAdd, flags
<1>3. ASSUME NEW c \in Callers, \/ DestroyCall(c) \/ DestroyLock(c) \/ BeginShutdown(c)
                                \/ AlreadyShutdown(c) \/ JoinThread(c) \/ TouchFreed(c)
      PROVE  FreedAfterWorkers'
  BY <1>3 DEF DestroyCall, DestroyLock, BeginShutdown, AlreadyShutdown, JoinThread,
     TouchFreed, flags
<1>4. ASSUME NEW c \in Callers, JoinDone(c) \/ FreeArrays(c) \/ FreePool(c)
      PROVE  FreedAfterWorkers'
  <2>1. started = 0 /\ \A w \in Workers : pc[w] \in {"unborn", "exited"}
    BY <1>4, AllGone DEF JoinDone, FreeArrays, FreePool, JoinedExited, Lifecycle
  <2> QED BY <1>4, <2>1 DEF JoinDone, FreeArrays, FreePool, flags
<1>5. ASSUME NEW w \in Workers, \/ SpuriousWakeup(w) \/ WorkerStep(w)
                                \/ WorkerLock(w) \/ WorkerWake(w)
      PROVE  FreedAfterWorkers'
  <2>1. \A c \in Callers : pc[c] \in {"free", "freeLock"} =>
          \A v \in Workers : pc[v] \in {"unborn", "exited"}
    BY AllGone DEF JoinedExited, Lifecycle
  <2>2. CASE WorkerExit(w)
    BY <2>1, <2>2 DEF WorkerExit
  <2>3. CASE \/ SpuriousWakeup(w) \/ WorkerLock(w) \/ WorkerWake(w)
             \/ WorkerWait(w) \/ WorkerTake(w) \/ WorkerRun(w)
    BY <2>3 DEF SpuriousWakeup, WorkerLock, WorkerWake, WorkerWait, WorkerTake,
       WorkerRun, flags
  <2> QED BY <1>5, <2>2, <2>3 DEF WorkerStep
<1>6. CASE UNCHANGED vars
  BY <1>6 DEF vars, flags
<1> QED
  BY <1>1, <1>2, <1>3, <1>4, <1>5, <1>6
     DEF Next, Terminated, CallerStep, CallerAcquire, WorkerAcquire

-----------------------------------------------------------------------------
(* The ring and the order of tasks. *)
RingTypes == /\ queue \in [0..(QueueSize - 1) -> Tasks \cup {NoTask}]
             /\ head \in 0..(QueueSize - 1) /\ tail \in 0..(QueueSize - 1)
             /\ count \in 0..QueueSize
             /\ accepted \in Seq(Tasks) /\ taken \in Seq(Tasks)

(* The numbers of the ring, for arithmetic. *)
LEMMA RingNumbers ==
  ASSUME RingTypes, RingHoldsBacklog
  PROVE  /\ QueueSize \in Int /\ QueueSize > 0
         /\ head \in Int /\ 0 <= head /\ head < QueueSize
         /\ tail \in Int /\ 0 <= tail /\ tail < QueueSize
         /\ count \in Int /\ 0 <= count /\ count <= QueueSize
         /\ Len(taken) \in Nat /\ Len(accepted) \in Nat
         /\ Len(accepted) = Len(taken) + count
<1>1. Len(taken) \in Nat /\ Len(accepted) \in Nat
  BY LenProperties DEF RingTypes
<1> QED BY <1>1, QueueSizeAssumption DEF RingTypes, RingHoldsBacklog

(* The oldest task of the backlog is at head. *)
LEMMA HeadIsOldest ==
  ASSUME RingTypes, RingHoldsBacklog, count > 0
  PROVE  /\ queue[head] = accepted[Len(taken) + 1]
         /\ queue[head] \in Tasks
<1>1. Slot(0) = head /\ 0 \in 0..(count - 1)
  BY RingNumbers DEF Slot
<1>2. queue[Slot(0)] = accepted[Len(taken) + 1 + 0]
  BY <1>1 DEF RingHoldsBacklog
<1>3. Len(taken) + 1 \in 1..Len(accepted) /\ Len(taken) + 1 + 0 = Len(taken) + 1
  BY RingNumbers
<1>4. accepted[Len(taken) + 1] \in Tasks
  BY <1>3, ElementOfSeq DEF RingTypes
<1> QED BY <1>1, <1>2, <1>3, <1>4

(* threadpool_add writes behind the backlog. *)
LEMMA EnqueueRing ==
  ASSUME RingTypes, RingHoldsBacklog, NEW t \in Threads, Enqueue(t), arg[t] \in Tasks
  PROVE  RingTypes' /\ RingHoldsBacklog'
<1>1. /\ QueueSize \in Int /\ QueueSize > 0
      /\ head \in Int /\ 0 <= head /\ head < QueueSize
      /\ tail \in Int /\ count \in Int /\ 0 <= count /\ count <= QueueSize
  BY RingNumbers
<1>2. /\ count # QueueSize /\ count' = count + 1 /\ head' = head
      /\ taken' = taken /\ tail' = Wrap(tail)
      /\ queue' = [queue EXCEPT ![tail] = arg[t]]
      /\ accepted' = Append(accepted, arg[t])
  BY DEF Enqueue, AddRejected
<1>3. /\ accepted' \in Seq(Tasks) /\ Len(accepted') = Len(accepted) + 1
      /\ \A i \in 1..Len(accepted) : accepted'[i] = accepted[i]
      /\ accepted'[Len(accepted) + 1] = arg[t]
  BY <1>2, AppendProperties DEF RingTypes
<1>4. /\ tail = Slot(count)
      /\ \A i \in 0..(count - 1) : Slot(i) \in 0..(QueueSize - 1) /\ Slot(i) # tail
  <2>1. tail = Slot(count)
    BY DEF RingHoldsBacklog
  <2>2. ASSUME NEW i \in 0..(count - 1)
        PROVE  Slot(i) \in 0..(QueueSize - 1) /\ Slot(i) # Slot(count)
    BY <1>1, <1>2 DEF Slot
  <2> QED BY <2>1, <2>2
<1>5. RingTypes'
  <2>1. tail' \in 0..(QueueSize - 1) /\ count' \in 0..QueueSize
    BY <1>2, RingNumbers DEF Wrap
  <2> QED BY <1>2, <1>3, <2>1 DEF RingTypes
<1>6. \A i \in 1..Len(taken') : taken'[i] = accepted'[i]
  BY <1>2, <1>3, RingNumbers DEF RingHoldsBacklog
<1>7. ASSUME NEW i \in 0..(count' - 1)
      PROVE  queue'[Slot(i)'] = accepted'[Len(taken') + 1 + i]
  <2>1. Slot(i)' = Slot(i)
    BY <1>2 DEF Slot
  <2>2. CASE i = count
    <3>1. queue'[tail] = arg[t]
      BY <1>2, RingNumbers DEF RingTypes
    <3>2. Len(taken') + 1 + i = Len(accepted) + 1
      BY <1>2, <2>2, RingNumbers
    <3> QED BY <1>3, <1>4, <2>1, <2>2, <3>1, <3>2
  <2>3. CASE i \in 0..(count - 1)
    <3>1. queue'[Slot(i)] = queue[Slot(i)]
      BY <1>2, <1>4, <2>3 DEF RingTypes
    <3>2. queue[Slot(i)] = accepted[Len(taken) + 1 + i]
      BY <2>3 DEF RingHoldsBacklog
    <3>3. Len(taken) + 1 + i \in 1..Len(accepted)
      BY <2>3, RingNumbers
    <3> QED BY <1>2, <1>3, <2>1, <3>1, <3>2, <3>3
  <2>4. i = count \/ i \in 0..(count - 1)
    BY <1>2, RingNumbers
  <2> QED BY <2>2, <2>3, <2>4
<1>8. tail' = Slot(count)'
  <2>1. /\ tail = (head + count) % QueueSize /\ count < QueueSize
        /\ tail' = IF tail + 1 = QueueSize THEN 0 ELSE tail + 1
        /\ Slot(count)' = (head + (count + 1)) % QueueSize
    BY <1>1, <1>2, <1>4 DEF Slot, Wrap
  <2>2. CASE head + count + 1 < QueueSize
    BY <1>1, <2>1, <2>2
  <2>3. CASE head + count + 1 = QueueSize
    BY <1>1, <2>1, <2>3
  <2>4. CASE head + count + 1 > QueueSize
    <3>1. tail = head + count - QueueSize /\ tail + 1 < QueueSize
      BY <1>1, <2>1, <2>4
    <3> QED BY <1>1, <2>1, <2>4, <3>1
  <2> QED BY <1>1, <2>2, <2>3, <2>4
<1>9. Len(accepted') = Len(taken') + count'
  BY <1>2, <1>3, RingNumbers
<1> QED BY <1>5, <1>6, <1>7, <1>8, <1>9 DEF RingHoldsBacklog

(* A worker takes the oldest task. *)
LEMMA TakeRing ==
  ASSUME RingTypes, RingHoldsBacklog, NEW w \in Workers, WorkerTake(w), count > 0
  PROVE  RingTypes' /\ RingHoldsBacklog'
<1>1. /\ QueueSize \in Int /\ QueueSize > 0
      /\ head \in Int /\ 0 <= head /\ head < QueueSize
      /\ tail \in Int /\ count \in Int /\ 0 <= count /\ count <= QueueSize
  BY RingNumbers
<1>2. /\ count' = count - 1 /\ head' = Wrap(head) /\ tail' = tail
      /\ queue' = queue /\ accepted' = accepted
      /\ taken' = Append(taken, queue[head])
  BY DEF WorkerTake
<1>3. queue[head] = accepted[Len(taken) + 1] /\ queue[head] \in Tasks
  BY HeadIsOldest
<1>4. /\ taken' \in Seq(Tasks) /\ Len(taken') = Len(taken) + 1
      /\ \A i \in 1..Len(taken) : taken'[i] = taken[i]
      /\ taken'[Len(taken) + 1] = queue[head]
  BY <1>2, <1>3, AppendProperties DEF RingTypes
<1>5. RingTypes'
  <2>1. head' \in 0..(QueueSize - 1) /\ count' \in 0..QueueSize
    BY <1>2, RingNumbers DEF Wrap
  <2> QED BY <1>2, <1>4, <2>1 DEF RingTypes
<1>6. \A i \in 1..Len(taken') : taken'[i] = accepted'[i]
  <2>1. \A i \in 1..Len(taken) : taken[i] = accepted[i]
    BY DEF RingHoldsBacklog
  <2> QED BY <1>2, <1>3, <1>4, <2>1, RingNumbers
<1>8. ASSUME NEW i \in 0..(count' - 1)
      PROVE  queue'[Slot(i)'] = accepted'[Len(taken') + 1 + i]
  <2>1. i + 1 \in 0..(count - 1)
    BY <1>1, <1>2
  <2>4. Slot(i)' = Slot(i + 1)
    BY <1>1, <1>2, <2>1 DEF Slot, Wrap
  <2>2. queue[Slot(i + 1)] = accepted[Len(taken) + 1 + (i + 1)]
    BY <2>1 DEF RingHoldsBacklog
  <2>3. Len(taken) + 1 + (i + 1) = Len(taken') + 1 + i
    BY <1>4, <2>1, RingNumbers
  <2> QED BY <1>2, <2>2, <2>3, <2>4
<1>9. tail' = Slot(count)'
  <2>1. tail = Slot(count)
    BY DEF RingHoldsBacklog
  <2> QED BY <1>1, <1>2, <2>1 DEF Slot, Wrap
<1>10. Len(accepted') = Len(taken') + count'
  BY <1>2, <1>4, RingNumbers
<1> QED BY <1>5, <1>6, <1>8, <1>9, <1>10 DEF RingHoldsBacklog

-----------------------------------------------------------------------------
(* What a worker took it runs, and what it runs it took. *)
TaskTypes == /\ task \in [Workers -> Tasks \cup {NoTask}]
             /\ arg \in [Threads -> Tasks \cup {NoTask}]

(* WorkerTake is possible only when the backlog is not empty. *)
LEMMA TakeNonEmpty ==
  ASSUME TypeOK, NEW w \in Workers, WorkerTake(w)
  PROVE  count > 0
BY DEF TypeOK, WorkerTake, MustWait, MustExit, Open, Immediate, Graceful

(* A task is with one thread at a time. *)
LEMMA TasksStep ==
  ASSUME TypeOK, Lifecycle, RingHoldsBacklog, TaskOfWorker, TakenRuns, ArgIsTask,
         [Next]_vars
  PROVE  TaskOfWorker' /\ TakenRuns' /\ ArgIsTask' /\ TaskTypes'
<1>p. PcFun /\ TaskTypes /\ taken \in Seq(Tasks)
  BY PcFacts DEF TypeOK, TaskTypes
<1> USE ThreadFacts, <1>p DEF PcFun, TaskTypes, Goto
<1>1. CASE Create
  <2>1. CASE CreateThread
    <3>1. threadCount + 1 \in Workers /\ pc[threadCount + 1] = "unborn"
      BY <2>1, ThreadCountAssumption DEF TypeOK, CreateThread, Lifecycle, BornInOrder, Workers
    <3> QED BY <2>1, <3>1 DEF CreateThread, hist, TaskOfWorker, TakenRuns, ArgIsTask
  <2>2. CASE CreateAlloc \/ CreateAllocFails \/ CreateThreadFails \/ CreateReturns
    BY <2>2 DEF CreateAlloc, CreateAllocFails, CreateThreadFails, CreateReturns, hist,
       TaskOfWorker, TakenRuns, ArgIsTask
  <2> QED BY <1>1, <2>1, <2>2 DEF Create
<1>2. ASSUME NEW t \in Threads, AddCall(t)
      PROVE  TaskOfWorker' /\ TakenRuns' /\ ArgIsTask' /\ TaskTypes'
  BY <1>2 DEF AddCall, Fresh, hist, TaskOfWorker, TakenRuns, ArgIsTask
<1>3. ASSUME NEW t \in Threads, AddLock(t) \/ AddStep(t)
      PROVE  TaskOfWorker' /\ TakenRuns' /\ ArgIsTask' /\ TaskTypes'
  BY <1>3 DEF AddLock, AddStep, Enqueue, Reject, ReturnFromAdd, hist,
     TaskOfWorker, TakenRuns, ArgIsTask
<1>4. ASSUME NEW c \in Callers,
             DestroyCall(c) \/ DestroyLock(c) \/ FreePool(c) \/ CallerStep(c)
      PROVE  TaskOfWorker' /\ TakenRuns' /\ ArgIsTask' /\ TaskTypes'
  BY <1>4 DEF DestroyCall, DestroyLock, FreePool, CallerStep, BeginShutdown,
     AlreadyShutdown, JoinThread, JoinDone, FreeArrays, TouchFreed, hist,
     TaskOfWorker, TakenRuns, ArgIsTask
<1>5. ASSUME NEW w \in Workers, WorkerTake(w)
      PROVE  TaskOfWorker' /\ TakenRuns' /\ ArgIsTask' /\ TaskTypes'
  <2>1. queue[head] \in Tasks
    BY <1>5, TakeNonEmpty, HeadIsOldest DEF TypeOK, RingTypes
  <2>2. /\ task' = [task EXCEPT ![w] = queue[head]] /\ pc' = [pc EXCEPT ![w] = "run"]
        /\ pc[w] = "test" /\ arg' = arg /\ done' = done
        /\ taken' = Append(taken, queue[head])
    BY <1>5 DEF WorkerTake
  <2>3. /\ Len(taken) \in Nat /\ Len(taken') = Len(taken) + 1
        /\ \A i \in 1..Len(taken) : taken'[i] = taken[i]
        /\ taken'[Len(taken) + 1] = queue[head]
    BY <2>1, <2>2, AppendProperties, LenProperties
  <2>4. TaskOfWorker' /\ ArgIsTask' /\ TaskTypes'
    BY <2>1, <2>2, TasksAssumption DEF TaskOfWorker, ArgIsTask
  <2>5. task[w] = NoTask
    BY <2>2 DEF TaskOfWorker
  <2>6. ASSUME NEW i \in 1..Len(taken')
        PROVE  taken'[i] \in done' \/ \E v \in Workers : task'[v] = taken'[i]
    <3>1. CASE i = Len(taken) + 1
      BY <2>2, <2>3, <3>1
    <3>2. CASE i \in 1..Len(taken)
      <4>1. taken[i] \in Tasks
        BY <3>2, ElementOfSeq
      <4>2. taken[i] \in done \/ \E v \in Workers : task[v] = taken[i] /\ v # w
        BY <2>5, <3>2, <4>1, TasksAssumption DEF TakenRuns
      <4> QED BY <2>2, <2>3, <3>2, <4>2
    <3> QED BY <2>3, <3>1, <3>2
  <2> QED BY <2>4, <2>6 DEF TakenRuns
<1>6. ASSUME NEW w \in Workers, WorkerRun(w)
      PROVE  TaskOfWorker' /\ TakenRuns' /\ ArgIsTask' /\ TaskTypes'
  BY <1>6 DEF WorkerRun, TaskOfWorker, TakenRuns, ArgIsTask
<1>7. ASSUME NEW w \in Workers,
             \/ SpuriousWakeup(w) \/ WorkerLock(w) \/ WorkerWake(w)
             \/ WorkerWait(w) \/ WorkerExit(w)
      PROVE  TaskOfWorker' /\ TakenRuns' /\ ArgIsTask' /\ TaskTypes'
  BY <1>7 DEF SpuriousWakeup, WorkerLock, WorkerWake, WorkerWait, WorkerExit, hist,
     TaskOfWorker, TakenRuns, ArgIsTask
<1>8. CASE UNCHANGED vars
  BY <1>8 DEF vars, hist, TaskOfWorker, TakenRuns, ArgIsTask
<1> QED
  BY <1>1, <1>2, <1>3, <1>4, <1>5, <1>6, <1>7, <1>8
     DEF Next, Terminated, CallerAcquire, WorkerAcquire, WorkerStep

-----------------------------------------------------------------------------
(* Once a worker has left a pool that shuts down gracefully, the backlog is
   empty and stays so. *)
LEMMA DrainedStep ==
  ASSUME TypeOK, Lifecycle, Drained, [Next]_vars
  PROVE  Drained'
<1>p. PcFun /\ count \in Nat /\ shutdown \in {Open, Immediate, Graceful}
  BY PcFacts, QueueSizeAssumption DEF TypeOK
<1> USE ThreadFacts, <1>p DEF PcFun, Goto, Drained, Open, Immediate, Graceful
<1>1. CASE Create
  BY <1>1 DEF Create, CreateAlloc, CreateAllocFails, CreateThread, CreateThreadFails,
     CreateReturns, Lifecycle, AliveUntilFreed, ring, flags
<1>2. ASSUME NEW t \in Threads, AddCall(t) \/ AddLock(t) \/ AddStep(t)
      PROVE  Drained'
  BY <1>2 DEF AddCall, AddLock, AddStep, Enqueue, Reject, ReturnFromAdd, AddRejected,
     ring, flags
<1>3. ASSUME NEW c \in Callers, DestroyCall(c) \/ DestroyLock(c) \/ FreePool(c) \/ CallerStep(c)
      PROVE  Drained'
  BY <1>3 DEF DestroyCall, DestroyLock, FreePool, CallerStep, BeginShutdown, AlreadyShutdown,
     JoinThread, JoinDone, FreeArrays, TouchFreed, Lifecycle, AliveUntilFreed, ring, flags
<1>4. ASSUME NEW w \in Workers, WorkerTake(w)
      PROVE  Drained'
  <2>1. count > 0
    BY <1>4, TakeNonEmpty
  <2> QED BY <1>4, <2>1 DEF WorkerTake, flags
<1>5. ASSUME NEW w \in Workers, WorkerExit(w)
      PROVE  Drained'
  BY <1>5 DEF WorkerExit, MustExit, ring
<1>6. ASSUME NEW w \in Workers,
             \/ SpuriousWakeup(w) \/ WorkerLock(w) \/ WorkerWake(w)
             \/ WorkerWait(w) \/ WorkerRun(w)
      PROVE  Drained'
  BY <1>6 DEF SpuriousWakeup, WorkerLock, WorkerWake, WorkerWait, WorkerRun, ring, flags
<1>7. CASE UNCHANGED vars
  BY <1>7 DEF vars, ring, flags
<1> QED
  BY <1>1, <1>2, <1>3, <1>4, <1>5, <1>6, <1>7
     DEF Next, Terminated, CallerAcquire, WorkerAcquire, WorkerStep

-----------------------------------------------------------------------------
(* The type invariant.  The counters stay in range because of StartedCounts
   and of the ring. *)
LEMMA PcFunStep ==
  ASSUME PcFun, Lifecycle, threadCount \in 0..ThreadCount, [Next]_vars
  PROVE  PcFun'
<1> USE ThreadFacts DEF PcFun, Goto, WorkerPC, CallerPC
<1>1. CASE Create
  <2>1. CASE CreateThread
    <3>1. threadCount + 1 \in Workers
      BY <2>1, ThreadCountAssumption DEF CreateThread, Workers
    <3> QED BY <2>1, <3>1 DEF CreateThread
  <2>2. CASE CreateAlloc \/ CreateAllocFails \/ CreateThreadFails \/ CreateReturns
    BY <2>2 DEF CreateAlloc, CreateAllocFails, CreateThreadFails, CreateReturns
  <2> QED BY <1>1, <2>1, <2>2 DEF Create
<1>2. ASSUME NEW t \in Threads, AddCall(t) \/ AddLock(t) \/ AddStep(t)
      PROVE  PcFun'
  BY <1>2 DEF AddCall, AddLock, AddStep, Enqueue, Reject, ReturnFromAdd, Threads
<1>3. ASSUME NEW c \in Callers, DestroyCall(c) \/ DestroyLock(c) \/ FreePool(c) \/ CallerStep(c)
      PROVE  PcFun'
  BY <1>3 DEF DestroyCall, DestroyLock, FreePool, CallerStep, BeginShutdown, AlreadyShutdown,
     JoinThread, JoinDone, FreeArrays, TouchFreed
<1>4. ASSUME NEW w \in Workers, \/ SpuriousWakeup(w) \/ WorkerStep(w)
                                \/ WorkerLock(w) \/ WorkerWake(w)
      PROVE  PcFun'
  BY <1>4 DEF SpuriousWakeup, WorkerStep, WorkerLock, WorkerWake, WorkerWait,
     WorkerTake, WorkerRun, WorkerExit
<1>5. CASE UNCHANGED vars
  BY <1>5 DEF vars
<1> QED
  BY <1>1, <1>2, <1>3, <1>4, <1>5 DEF Next, Terminated, CallerAcquire, WorkerAcquire

(* The ring holds the backlog. *)
LEMMA RingStep ==
  ASSUME TypeOK, ArgIsTask, RingHoldsBacklog, [Next]_vars
  PROVE  RingTypes' /\ RingHoldsBacklog'
<1>r. RingTypes
  BY DEF TypeOK, RingTypes
<1>1. ASSUME NEW t \in Threads, Enqueue(t)
      PROVE  RingTypes' /\ RingHoldsBacklog'
  <2>1. arg[t] \in Tasks
    BY <1>1 DEF Enqueue, ArgIsTask
  <2> QED BY <1>r, <1>1, <2>1, EnqueueRing
<1>2. ASSUME NEW w \in Workers, WorkerTake(w)
      PROVE  RingTypes' /\ RingHoldsBacklog'
  BY <1>r, <1>2, TakeNonEmpty, TakeRing
<1>3. CASE UNCHANGED <<ring, accepted, taken>>
  BY <1>r, <1>3 DEF ring, RingTypes, RingHoldsBacklog, Slot
<1>4. \/ UNCHANGED <<ring, accepted, taken>>
      \/ \E t \in Threads : Enqueue(t)
      \/ \E w \in Workers : WorkerTake(w)
  BY ThreadFacts DEF Next, vars, hist, Terminated, Create, CreateAlloc, CreateAllocFails,
     CreateThread, CreateThreadFails, CreateReturns, AddCall, AddStep, AddLock, Reject,
     DestroyCall, CallerStep, CallerAcquire, DestroyLock, FreePool, BeginShutdown,
     AlreadyShutdown, JoinThread, JoinDone, FreeArrays, TouchFreed, SpuriousWakeup,
     WorkerStep, WorkerAcquire, WorkerLock, WorkerWake, WorkerWait, WorkerRun, WorkerExit
<1> QED BY <1>1, <1>2, <1>3, <1>4

(* The remaining variables. *)
OtherTypes == /\ lock \in Threads \cup {NoThread}
              /\ notify \subseteq Workers
              /\ shutdown \in {Open, Immediate, Graceful}
              /\ threadCount \in 0..ThreadCount
              /\ memory \in {"none", "live", "arraysFreed", "freed"}
              /\ joined \in [Callers -> 0..ThreadCount]
              /\ done \subseteq Tasks

(* The remaining variables. *)
LEMMA OtherTypesStep ==
  ASSUME TypeOK, TaskOfWorker, [Next]_vars
  PROVE  OtherTypes'
<1>p. PcFun /\ OtherTypes /\ TaskTypes
  BY PcFacts DEF TypeOK, OtherTypes, TaskTypes
<1> USE ThreadFacts, <1>p, ThreadCountAssumption DEF OtherTypes
<1>1. CASE Create
  BY <1>1 DEF Create, CreateAlloc, CreateAllocFails, CreateThread, CreateThreadFails,
     CreateReturns, flags, hist
<1>2. ASSUME NEW t \in Threads, AddCall(t) \/ AddLock(t) \/ AddStep(t)
      PROVE  OtherTypes'
  BY <1>2 DEF AddCall, AddLock, AddStep, Enqueue, Reject, Signal, flags, hist
<1>3. ASSUME NEW c \in Callers, DestroyCall(c) \/ DestroyLock(c) \/ FreePool(c) \/ CallerStep(c)
      PROVE  OtherTypes'
  BY <1>3 DEF DestroyCall, DestroyLock, FreePool, CallerStep, BeginShutdown, AlreadyShutdown,
     JoinThread, JoinDone, FreeArrays, TouchFreed, ShutdownKinds, flags, hist
<1>4. ASSUME NEW w \in Workers, WorkerRun(w)
      PROVE  OtherTypes'
  <2>1. task[w] \in Tasks
    BY <1>4 DEF TaskTypes, TaskOfWorker, WorkerRun
  <2> QED BY <1>4, <2>1 DEF WorkerRun, flags
<1>5. ASSUME NEW w \in Workers,
             \/ SpuriousWakeup(w) \/ WorkerLock(w) \/ WorkerWake(w)
             \/ WorkerWait(w) \/ WorkerTake(w) \/ WorkerExit(w)
      PROVE  OtherTypes'
  BY <1>5 DEF SpuriousWakeup, WorkerLock, WorkerWake, WorkerWait, WorkerTake, WorkerExit,
     flags, hist
<1>6. CASE UNCHANGED vars
  BY <1>6 DEF vars, flags, hist
<1> QED
  BY <1>1, <1>2, <1>3, <1>4, <1>5, <1>6
     DEF Next, Terminated, CallerAcquire, WorkerAcquire, WorkerStep

-----------------------------------------------------------------------------
(* The inductive invariant and what follows from it. *)
LEMMA InitIInv == Init => IInv
<1> SUFFICES ASSUME Init PROVE IInv
    OBVIOUS
<1> USE ThreadFacts, ThreadCountAssumption, QueueSizeAssumption DEF Init
<1>1. TypeOK
  <2>1. accepted \in Seq(Tasks) /\ taken \in Seq(Tasks)
    BY EmptySeq
  <2> QED BY <2>1 DEF TypeOK, WorkerPC, CallerPC, Open, Threads
<1>2. LockHeld /\ ArgIsTask
  BY DEF LockHeld, ArgIsTask, Threads
<1>3. Lifecycle
  BY DEF Lifecycle, BornInOrder, CreationFirst, AliveUntilFreed, GracefulIsComplete,
         Open, Graceful, Workers
<1>4. JoinedExited /\ FreedAfterWorkers
  BY DEF JoinedExited, FreedAfterWorkers
<1>5. StartedCounts
  <2>1. Running = {}
    BY DEF Running
  <2> QED BY <2>1, FS_EmptySet DEF StartedCounts
<1>6. RingHoldsBacklog
  <2>1. Len(accepted) = 0 /\ Len(taken) = 0
    BY EmptySeq
  <2> QED BY <2>1 DEF RingHoldsBacklog, Slot
<1>7. TaskOfWorker /\ TakenRuns /\ Drained
  <2>1. Len(taken) = 0
    BY EmptySeq
  <2> QED BY <2>1 DEF TaskOfWorker, TakenRuns, Drained
<1> QED BY <1>1, <1>2, <1>3, <1>4, <1>5, <1>6, <1>7 DEF IInv

(* Every step keeps IInv. *)
LEMMA StepIInv == IInv /\ [Next]_vars => IInv'
<1> SUFFICES ASSUME IInv, [Next]_vars PROVE IInv'
    OBVIOUS
<1>0. PcFun /\ threadCount \in 0..ThreadCount /\ joined \in [Callers -> 0..ThreadCount]
  BY PcFacts DEF IInv, TypeOK
<1>1. LockHeld' /\ Lifecycle' /\ PcFun'
  BY <1>0, LockHeldStep, LifecycleStep, PcFunStep DEF IInv
<1>2. JoinedExited'
  BY <1>0, JoinedExitedStep DEF IInv
<1>3. StartedCounts' /\ FreedAfterWorkers'
  BY <1>0, StartedCountsStep, FreedAfterWorkersStep DEF IInv
<1>4. RingTypes' /\ RingHoldsBacklog'
  BY RingStep DEF IInv
<1>5. TaskOfWorker' /\ TakenRuns' /\ ArgIsTask' /\ TaskTypes'
  BY TasksStep DEF IInv
<1>6. Drained' /\ OtherTypes'
  BY DrainedStep, OtherTypesStep DEF IInv
<1>7. started' \in 0..ThreadCount
  <2>1. Running' \subseteq 1..threadCount' /\ threadCount' \in Nat
    BY <1>1, <1>6, ThreadCountAssumption DEF OtherTypes, Lifecycle, Running, BornInOrder, Workers
  <2>2. Cardinality(Running') \in Nat /\ Cardinality(Running') <= threadCount'
    BY <2>1, Interval1
  <2> QED BY <1>3, <1>6, <2>2, ThreadCountAssumption DEF StartedCounts, OtherTypes
<1>8. TypeOK'
  BY <1>1, <1>4, <1>5, <1>6, <1>7 DEF TypeOK, PcFun, RingTypes, TaskTypes, OtherTypes
<1> QED BY <1>1, <1>2, <1>3, <1>4, <1>5, <1>6, <1>8 DEF IInv

(* IInv holds throughout. *)
THEOREM Invariance == Spec => []IInv
BY InitIInv, StepIInv, PTL DEF Spec

(* The type invariant holds of every reachable state: no index, counter or
   task of the pool ever leaves its range. *)
THEOREM TypeCorrect == Spec => []TypeOK
<1>1. IInv => TypeOK
  BY DEF IInv
<1> QED BY <1>1, Invariance, PTL

(* threadpool_add and the workers keep the queue a FIFO: nothing accepted is
   lost, duplicated, overwritten or taken out of order. *)
THEOREM PoolIsFIFO == Spec => []RingHoldsBacklog
<1>1. IInv => RingHoldsBacklog
  BY DEF IInv
<1> QED BY <1>1, Invariance, PTL

(* threadpool_free runs only after every worker left its loop. *)
THEOREM NoWorkerAfterFree == Spec => []FreedAfterWorkers
<1>1. IInv => FreedAfterWorkers
  BY DEF IInv
<1> QED BY <1>1, Invariance, PTL

(* When a graceful destroy has freed the pool, every accepted task has run. *)
LEMMA InvGraceful == IInv => GracefulRunsEverything
<1> SUFFICES ASSUME IInv, memory = "freed", shutdown = Graceful,
                    NEW x \in Range(accepted)
             PROVE  x \in done
    BY DEF GracefulRunsEverything
<1>1. \A w \in Workers : pc[w] = "exited"
  <2>1. threadCount = ThreadCount
    BY DEF IInv, Lifecycle, GracefulIsComplete
  <2> QED BY <2>1, ThreadCountAssumption
          DEF IInv, Lifecycle, BornInOrder, FreedAfterWorkers, Workers
<1>2. count = 0
  <2>1. 1 \in Workers
    BY ThreadCountAssumption DEF Workers
  <2> QED BY <1>1, <2>1 DEF IInv, Drained
<1>3. Len(accepted) = Len(taken) /\ accepted \in Seq(Tasks) /\ taken \in Seq(Tasks)
  BY <1>2, LenProperties DEF IInv, RingHoldsBacklog, TypeOK
<1>4. PICK i \in 1..Len(accepted) : x = accepted[i]
  BY <1>3, RangeEquality
<1>5. x = taken[i] /\ x \in Tasks
  BY <1>3, <1>4, ElementOfSeq DEF IInv, RingHoldsBacklog
<1>6. x \in done \/ \E w \in Workers : task[w] = x
  BY <1>3, <1>4, <1>5 DEF IInv, TakenRuns
<1> QED BY <1>1, <1>5, <1>6, TasksAssumption DEF IInv, TaskOfWorker

(* When threadpool_free has run after a graceful destroy (threadpool.c:208-247),
   no accepted task is left undone. *)
THEOREM GracefulDrains == Spec => []GracefulRunsEverything
BY InvGraceful, Invariance, PTL
=============================================================================
