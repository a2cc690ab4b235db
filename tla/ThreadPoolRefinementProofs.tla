---------------------- MODULE ThreadPoolRefinementProofs ----------------------
(***************************************************************************)
(* Two more facts about ThreadPool, for every value of the constants: one  *)
(* signal for each task suffices, and the pool implements TaskPool.  Both  *)
(* rest on IInv; the parts defined here are inductive relative to it.      *)
(***************************************************************************)
EXTENDS ThreadPoolProofs

-----------------------------------------------------------------------------
(* Signals: notify holds sleeping workers only, and nobody sleeps on a pool
   that shuts down, because BeginShutdown broadcasts. *)
SleepersWait == /\ \A w \in notify : pc[w] = "wait"
                /\ shutdown # Open => notify = {}
Sleepers == SleepersWait /\ NoSleeperWhilePending

(* Workers on their way to the queue, and what one more or one fewer changes. *)
LEMMA OnTheWayFinite == IsFiniteSet(OnTheWay) /\ Cardinality(OnTheWay) \in Nat
<1>1. OnTheWay \in SUBSET (1..ThreadCount) /\ ThreadCount \in Nat
  BY ThreadCountAssumption DEF OnTheWay, Workers
<1> QED BY <1>1, Interval1

(* One worker more on the way counts one more. *)
LEMMA OneMoreOnTheWay ==
  ASSUME NEW S, NEW T, IsFiniteSet(S), NEW x, x \notin S, T = S \cup {x}
  PROVE  Cardinality(T) = Cardinality(S) + 1
BY FS_AddElement

(* The steps that leave the backlog alone and take nobody off the way. *)
LEMMA WayGrows ==
  ASSUME NoSleeperWhilePending, IsFiniteSet(OnTheWay'), OnTheWay \subseteq OnTheWay',
         notify' \subseteq notify, count' = count, count \in Nat
  PROVE  NoSleeperWhilePending'
<1>1. /\ Cardinality(OnTheWay) <= Cardinality(OnTheWay')
      /\ Cardinality(OnTheWay) \in Nat /\ Cardinality(OnTheWay') \in Nat
  BY FS_Subset, FS_CardinalityType
<1> QED BY <1>1 DEF NoSleeperWhilePending

(* Every step keeps a worker on its way for each pending task. *)
LEMMA SleepersStep ==
  ASSUME IInv, Sleepers, [Next]_vars
  PROVE  Sleepers'
<1>p. PcFun /\ count \in Nat /\ notify \subseteq Workers
  BY PcFacts, QueueSizeAssumption DEF IInv, TypeOK
<1>f. /\ IsFiniteSet(OnTheWay) /\ Cardinality(OnTheWay) \in Nat
      /\ IsFiniteSet(OnTheWay') /\ Cardinality(OnTheWay') \in Nat
  <2>1. ThreadCount \in Nat /\ OnTheWay' \in SUBSET (1..ThreadCount)
    BY ThreadCountAssumption DEF OnTheWay, Workers
  <2> QED BY <2>1, OnTheWayFinite, Interval1
<1> USE ThreadFacts, <1>p DEF Sleepers, SleepersWait, PcFun, Goto
<1>1. CASE Create
  <2>1. CASE CreateThread
    <3>1. /\ threadCount + 1 \in Workers /\ pc[threadCount + 1] = "unborn"
          /\ pc' = [pc EXCEPT ![threadCount + 1] = "lock"]
          /\ notify' = notify /\ count' = count /\ shutdown' = shutdown
      BY <2>1, ThreadCountAssumption
         DEF IInv, TypeOK, CreateThread, Lifecycle, BornInOrder, Workers, ring
    <3>2. OnTheWay \subseteq OnTheWay'
      BY <3>1 DEF OnTheWay
    <3> QED BY <1>f, <3>1, <3>2, WayGrows
  <2>2. CASE CreateAlloc \/ CreateAllocFails \/ CreateThreadFails \/ CreateReturns
    <3>1. /\ \A w \in Workers : pc'[w] = pc[w]
          /\ notify' = notify /\ count' = count /\ shutdown' = shutdown
      BY <2>2 DEF CreateAlloc, CreateAllocFails, CreateThreadFails, CreateReturns, ring, flags
    <3>2. OnTheWay \subseteq OnTheWay'
      BY <3>1 DEF OnTheWay
    <3> QED BY <1>f, <3>1, <3>2, WayGrows
  <2> QED BY <1>1, <2>1, <2>2 DEF Create
<1>2. ASSUME NEW t \in Threads, AddCall(t) \/ AddLock(t) \/ Reject(t)
      PROVE  Sleepers'
  <2>1. /\ notify' = notify /\ count' = count /\ shutdown' = shutdown
        /\ \A w \in Workers : pc'[w] # pc[w] => pc[w] \in {"run", "add", "adding"}
                                            /\ pc'[w] # "wait"
    BY <1>2 DEF AddCall, AddLock, Reject, ReturnFromAdd, ring, flags
  <2>2. OnTheWay \subseteq OnTheWay'
    BY <2>1 DEF OnTheWay
  <2> QED BY <1>f, <2>1, <2>2, WayGrows
<1>3. ASSUME NEW t \in Threads, Enqueue(t)
      PROVE  Sleepers'
  <2>1. /\ count' = count + 1 /\ shutdown' = shutdown /\ shutdown = Open
        /\ pc[t] = "adding" /\ pc' = [pc EXCEPT ![t] = IF t \in Workers THEN "run" ELSE "idle"]
    BY <1>3 DEF Enqueue, AddRejected, ReturnFromAdd, flags
  <2>2. CASE notify = {}
    <3>1. notify' = {}
      BY <1>3, <2>2 DEF Enqueue, Signal
    <3> QED BY <2>1, <3>1 DEF NoSleeperWhilePending
  <2>3. ASSUME NEW v \in notify, notify' = notify \ {v}
        PROVE  Sleepers'
    <3>1. OnTheWay' = OnTheWay \cup {v} /\ v \notin OnTheWay
      BY <2>1, <2>3 DEF OnTheWay
    <3>2. Cardinality(OnTheWay') = Cardinality(OnTheWay) + 1
      BY <1>f, <3>1, OneMoreOnTheWay
    <3>3. SleepersWait'
      BY <2>1, <2>3
    <3> QED BY <1>f, <2>1, <2>3, <3>2, <3>3 DEF NoSleeperWhilePending
  <2> QED BY <1>3, <2>2, <2>3 DEF Enqueue, Signal
<1>4. ASSUME NEW c \in Callers, DestroyCall(c) \/ DestroyLock(c) \/ FreePool(c) \/ CallerStep(c)
      PROVE  Sleepers'
  <2>1. CASE BeginShutdown(c)
    BY <2>1 DEF BeginShutdown, NoSleeperWhilePending
  <2>2. CASE \/ DestroyCall(c) \/ DestroyLock(c) \/ FreePool(c) \/ AlreadyShutdown(c)
             \/ JoinThread(c) \/ JoinDone(c) \/ FreeArrays(c) \/ TouchFreed(c)
    <3>1. /\ notify' = notify /\ count' = count /\ shutdown' = shutdown
          /\ \A w \in Workers : pc'[w] = pc[w]
      BY <2>2 DEF DestroyCall, DestroyLock, FreePool, AlreadyShutdown, JoinThread, JoinDone,
         FreeArrays, TouchFreed, ring, flags
    <3>2. OnTheWay \subseteq OnTheWay'
      BY <3>1 DEF OnTheWay
    <3> QED BY <1>f, <3>1, <3>2, WayGrows
  <2> QED BY <1>4, <2>1, <2>2 DEF CallerStep
<1>5. ASSUME NEW w \in Workers, WorkerWait(w)
      PROVE  Sleepers'
  <2>1. /\ count' = 0 /\ shutdown' = Open /\ notify' = notify \cup {w}
        /\ pc[w] = "test" /\ pc' = [pc EXCEPT ![w] = "wait"]
    BY <1>5 DEF WorkerWait, MustWait, ring, flags
  <2> QED BY <1>f, <2>1 DEF NoSleeperWhilePending
<1>6. ASSUME NEW w \in Workers, WorkerTake(w)
      PROVE  Sleepers'
  <2>1. /\ count' = count - 1 /\ shutdown' = shutdown /\ notify' = notify
        /\ pc[w] = "test" /\ pc' = [pc EXCEPT ![w] = "run"]
    BY <1>6 DEF WorkerTake, flags
  <2>2. OnTheWay = OnTheWay' \cup {w} /\ w \notin OnTheWay'
    BY <2>1 DEF OnTheWay
  <2>3. Cardinality(OnTheWay) = Cardinality(OnTheWay') + 1
    BY <1>f, <2>2, OneMoreOnTheWay
  <2> QED BY <1>f, <2>1, <2>3 DEF NoSleeperWhilePending
<1>7. ASSUME NEW w \in Workers, WorkerExit(w)
      PROVE  Sleepers'
  <2>1. shutdown # Open /\ notify' = notify /\ shutdown' = shutdown
    BY <1>7 DEF WorkerExit, MustExit, Open, Immediate, Graceful
  <2> QED BY <2>1 DEF NoSleeperWhilePending
<1>8. ASSUME NEW w \in Workers,
             SpuriousWakeup(w) \/ WorkerLock(w) \/ WorkerWake(w) \/ WorkerRun(w)
      PROVE  Sleepers'
  <2>1. /\ notify' \subseteq notify /\ count' = count /\ shutdown' = shutdown
        /\ \A v \in notify' : pc'[v] = pc[v]
    BY <1>8 DEF SpuriousWakeup, WorkerLock, WorkerWake, WorkerRun, ring, flags
  <2>2. OnTheWay \subseteq OnTheWay'
    BY <1>8 DEF SpuriousWakeup, WorkerLock, WorkerWake, WorkerRun, OnTheWay
  <2> QED BY <1>f, <2>1, <2>2, WayGrows
<1>9. CASE UNCHANGED vars
  BY <1>9 DEF vars, ring, flags, OnTheWay, NoSleeperWhilePending
<1> QED
  BY <1>1, <1>2, <1>3, <1>4, <1>5, <1>6, <1>7, <1>8, <1>9
     DEF Next, Terminated, AddStep, CallerAcquire, WorkerAcquire, WorkerStep

(* One signal for each task suffices: as long as a worker sleeps, there are as
   many awake workers on their way to the queue as there are pending tasks. *)
THEOREM SignalsSuffice == Spec => []NoSleeperWhilePending
<1>1. Init => Sleepers
  BY DEF Init, Sleepers, SleepersWait, NoSleeperWhilePending
<1>2. IInv /\ Sleepers /\ [Next]_vars => Sleepers'
  BY SleepersStep
<1>3. Sleepers => NoSleeperWhilePending
  BY DEF Sleepers
<1> QED BY <1>1, <1>2, <1>3, Invariance, PTL DEF Spec

-----------------------------------------------------------------------------
(* The refinement.  What it needs beyond IInv: *)

(* Nobody holds the lock of a pool that was freed, or never made. *)
NobodyInside == memory = "freed" => \A t \in Threads : pc[t] \notin {"test", "adding", "destroying"}

(* One caller frees the pool, once. *)
Destroying(c) == pc[c] \in {"join", "free", "freeLock"}
OneDestroyer ==
  /\ \A c, d \in Callers : Destroying(c) /\ Destroying(d) => c = d
  /\ \A c \in Callers : /\ pc[c] \in {"join", "free"} => memory # "freed"
                        /\ pc[c] = "freeLock" => memory = "arraysFreed"

NothingYet == pc[Owner] = "alloc" => count = 0 /\ done = {}

(* A task is added once: accepted holds no task twice, and a task on its way in
   is not in accepted and is on its way once. *)
TasksDiffer ==
  /\ \A i, j \in 1..Len(accepted) : accepted[i] = accepted[j] => i = j
  /\ \A t \in Threads : Adding(t) => \A i \in 1..Len(accepted) : accepted[i] # arg[t]
  /\ \A t, u \in Threads : Adding(t) /\ Adding(u) /\ arg[t] = arg[u] => t = u

(* What runs or has run was dequeued, and is run by one worker. *)
StartedWereTaken ==
  /\ \A w \in Workers : task[w] # NoTask => \E i \in 1..Len(taken) : taken[i] = task[w]
  /\ \A x \in done : \E i \in 1..Len(taken) : taken[i] = x
  /\ \A v, w \in Workers : task[v] = task[w] /\ task[w] # NoTask => v = w
  /\ \A w \in Workers : task[w] \notin done

RefInv == NobodyInside /\ OneDestroyer /\ NothingYet /\ TasksDiffer /\ StartedWereTaken

-----------------------------------------------------------------------------
(* The lock and the memory. *)
LEMMA NobodyInsideStep ==
  ASSUME IInv, NobodyInside, [Next]_vars
  PROVE  NobodyInside'
<1>p. PcFun /\ LockHeld /\ Lifecycle /\ FreedAfterWorkers
  BY PcFacts DEF IInv
<1> USE ThreadFacts, <1>p DEF NobodyInside, PcFun, Goto
<1>1. CASE Create
  <2> USE DEF Lifecycle, CreationFirst, AliveUntilFreed
  <2>1. CASE CreateAllocFails
    <3>1. \A w \in Workers : pc[w] = "unborn"
      BY <2>1 DEF CreateAllocFails, BornInOrder, Workers
    <3> QED BY <2>1, <3>1 DEF CreateAllocFails, Threads
  <2>2. CASE CreateAlloc \/ CreateThread \/ CreateThreadFails \/ CreateReturns
    BY <2>2 DEF CreateAlloc, CreateThread, CreateThreadFails, CreateReturns, flags
  <2> QED BY <1>1, <2>1, <2>2 DEF Create
<1>2. ASSUME NEW t \in Threads, AddCall(t) \/ AddLock(t) \/ AddStep(t)
      PROVE  NobodyInside'
  BY <1>2 DEF AddCall, AddLock, AddStep, Enqueue, Reject, ReturnFromAdd, flags
<1>3. ASSUME NEW c \in Callers, DestroyCall(c) \/ DestroyLock(c) \/ CallerStep(c)
      PROVE  NobodyInside'
  BY <1>3 DEF DestroyCall, DestroyLock, CallerStep, BeginShutdown, AlreadyShutdown,
     JoinThread, JoinDone, FreeArrays, TouchFreed, flags
<1>4. ASSUME NEW c \in Callers, FreePool(c)
      PROVE  NobodyInside'
  BY <1>4 DEF FreePool, LockHeld
<1>5. ASSUME NEW w \in Workers, \/ SpuriousWakeup(w) \/ WorkerStep(w)
                                \/ WorkerLock(w) \/ WorkerWake(w)
      PROVE  NobodyInside'
  BY <1>5 DEF SpuriousWakeup, WorkerStep, WorkerLock, WorkerWake, WorkerWait,
     WorkerTake, WorkerRun, WorkerExit, FreedAfterWorkers, flags
<1>6. CASE UNCHANGED vars
  BY <1>6 DEF vars, flags
<1> QED
  BY <1>1, <1>2, <1>3, <1>4, <1>5, <1>6
     DEF Next, Terminated, CallerAcquire, WorkerAcquire

(* A second destroyer finds shutdown set. *)
LEMMA OneDestroyerStep ==
  ASSUME IInv, NobodyInside, OneDestroyer, [Next]_vars
  PROVE  OneDestroyer'
<1>p. PcFun /\ Lifecycle
  BY PcFacts DEF IInv
<1> USE ThreadFacts, <1>p DEF OneDestroyer, Destroying, PcFun, Goto
<1>1. CASE Create
  BY <1>1 DEF Create, CreateAlloc, CreateAllocFails, CreateThread, CreateThreadFails,
     CreateReturns, Lifecycle, CreationFirst, Workers, flags
<1>2. ASSUME NEW t \in Threads, AddCall(t) \/ AddLock(t) \/ AddStep(t)
      PROVE  OneDestroyer'
  BY <1>2 DEF AddCall, AddLock, AddStep, Enqueue, Reject, ReturnFromAdd, flags
<1>3. ASSUME NEW c \in Callers, DestroyCall(c) \/ DestroyLock(c) \/ FreePool(c) \/ CallerStep(c)
      PROVE  OneDestroyer'
  <2>1. CASE BeginShutdown(c)
    <3>1. /\ memory # "freed" /\ memory' = memory /\ pc' = [pc EXCEPT ![c] = "join"]
          /\ \A d \in Callers : pc[d] \notin {"join", "free", "freeLock"}
      BY <2>1 DEF BeginShutdown, Lifecycle, AliveUntilFreed, NobodyInside
    <3> QED BY <3>1
  <2>2. CASE JoinDone(c) \/ FreeArrays(c) \/ FreePool(c)
    <3>1. \A d \in Callers : pc[d] \in {"join", "free", "freeLock"} => d = c
      BY <2>2 DEF JoinDone, FreeArrays, FreePool
    <3>2. CASE JoinDone(c)
      BY <3>1, <3>2 DEF JoinDone, flags
    <3>3. CASE FreeArrays(c)
      <4>1. /\ pc[c] = "free" /\ memory # "freed"
            /\ \/ memory' = memory /\ pc' = [pc EXCEPT ![c] = "destroyed"]
               \/ memory' = "arraysFreed" /\ pc' = [pc EXCEPT ![c] = "freeLock"]
        BY <3>3 DEF FreeArrays
      <4> QED BY <3>1, <4>1
    <3>4. CASE FreePool(c)
      BY <3>1, <3>4 DEF FreePool
    <3> QED BY <2>2, <3>2, <3>3, <3>4
  <2>3. CASE \/ DestroyCall(c) \/ DestroyLock(c) \/ AlreadyShutdown(c) \/ JoinThread(c)
             \/ TouchFreed(c)
    BY <2>3 DEF DestroyCall, DestroyLock, AlreadyShutdown, JoinThread, TouchFreed, flags
  <2> QED BY <1>3, <2>1, <2>2, <2>3 DEF CallerStep
<1>4. ASSUME NEW w \in Workers, \/ SpuriousWakeup(w) \/ WorkerStep(w)
                                \/ WorkerLock(w) \/ WorkerWake(w)
      PROVE  OneDestroyer'
  BY <1>4 DEF SpuriousWakeup, WorkerStep, WorkerLock, WorkerWake, WorkerWait,
     WorkerTake, WorkerRun, WorkerExit, flags
<1>5. CASE UNCHANGED vars
  BY <1>5 DEF vars, flags
<1> QED
  BY <1>1, <1>2, <1>3, <1>4, <1>5 DEF Next, Terminated, CallerAcquire, WorkerAcquire

(* Before the pool exists nothing has happened. *)
LEMMA NothingYetStep ==
  ASSUME IInv, NothingYet, [Next]_vars
  PROVE  NothingYet'
<1>p. PcFun /\ Lifecycle
  BY PcFacts DEF IInv
<1> USE ThreadFacts, <1>p DEF NothingYet, PcFun, Goto, Lifecycle, CreationFirst
<1> SUFFICES ASSUME pc'[Owner] = "alloc" PROVE count' = 0 /\ done' = {}
    OBVIOUS
<1>1. CASE Create
  BY <1>1 DEF Create, CreateAlloc, CreateAllocFails, CreateThread, CreateThreadFails,
     CreateReturns, Workers
<1>2. ASSUME NEW t \in Threads, AddCall(t) \/ AddLock(t) \/ AddStep(t)
      PROVE  count' = 0 /\ done' = {}
  <2>1. pc[Owner] = "alloc"
    BY <1>2 DEF AddCall, AddLock, AddStep, Enqueue, Reject, ReturnFromAdd
  <2>2. \A w \in Workers : pc[w] = "unborn"
    BY <2>1 DEF BornInOrder, Workers
  <2>3. pc[t] \notin {"adding", "add", "idle", "run"}
    BY <2>1, <2>2 DEF Threads
  <2> QED BY <1>2, <2>3 DEF AddCall, AddLock, AddStep, Enqueue, Reject
<1>3. ASSUME NEW c \in Callers, DestroyCall(c) \/ DestroyLock(c) \/ FreePool(c) \/ CallerStep(c)
      PROVE  count' = 0 /\ done' = {}
  BY <1>3 DEF DestroyCall, DestroyLock, FreePool, CallerStep, BeginShutdown, AlreadyShutdown,
     JoinThread, JoinDone, FreeArrays, TouchFreed, ring, hist
<1>4. ASSUME NEW w \in Workers, \/ SpuriousWakeup(w) \/ WorkerStep(w)
                                \/ WorkerLock(w) \/ WorkerWake(w)
      PROVE  count' = 0 /\ done' = {}
  <2>1. pc[Owner] = "alloc"
    BY <1>4 DEF SpuriousWakeup, WorkerStep, WorkerLock, WorkerWake, WorkerWait,
       WorkerTake, WorkerRun, WorkerExit
  <2>2. pc[w] = "unborn"
    BY <2>1 DEF BornInOrder, Workers
  <2> QED BY <1>4, <2>1, <2>2 DEF SpuriousWakeup, WorkerStep, WorkerLock, WorkerWake, WorkerWait,
     WorkerTake, WorkerRun, WorkerExit, ring, hist
<1>5. CASE UNCHANGED vars
  BY <1>5 DEF vars, ring, hist
<1> QED
  BY <1>1, <1>2, <1>3, <1>4, <1>5 DEF Next, Terminated, CallerAcquire, WorkerAcquire

-----------------------------------------------------------------------------
(* Every task goes through the pool once. *)
LEMMA EnqueueAppends ==
  ASSUME IInv, NEW t \in Threads, Enqueue(t)
  PROVE  /\ Len(accepted) \in Nat /\ Len(accepted') = Len(accepted) + 1
         /\ \A i \in 1..Len(accepted) : accepted'[i] = accepted[i]
         /\ accepted'[Len(accepted) + 1] = arg[t]
<1>1. arg[t] \in Tasks /\ accepted \in Seq(Tasks) /\ accepted' = Append(accepted, arg[t])
  BY DEF IInv, ArgIsTask, TypeOK, Enqueue
<1> QED BY <1>1, AppendProperties, LenProperties

(* Tasks stay different. *)
LEMMA TasksDifferStep ==
  ASSUME IInv, TasksDiffer, [Next]_vars
  PROVE  TasksDiffer'
<1>p. /\ PcFun /\ arg \in [Threads -> Tasks \cup {NoTask}]
      /\ accepted \in Seq(Tasks) /\ Len(accepted) \in Nat
  BY PcFacts, LenProperties DEF IInv, TypeOK
<1>u. ASSUME accepted' = accepted, arg' = arg,
             \A t \in Threads : pc'[t] \in {"add", "adding"} => pc[t] \in {"add", "adding"}
      PROVE  TasksDiffer'
  BY <1>u DEF TasksDiffer, Adding
<1> USE ThreadFacts, <1>p DEF PcFun, Goto
<1>1. CASE Create
  <2>1. CASE CreateThread
    <3>1. threadCount + 1 \in Workers
      BY <2>1, ThreadCountAssumption DEF CreateThread, Workers, IInv, TypeOK
    <3> QED BY <1>u, <2>1, <3>1 DEF CreateThread, hist
  <2>2. CASE CreateAlloc \/ CreateAllocFails \/ CreateThreadFails \/ CreateReturns
    BY <1>u, <2>2 DEF CreateAlloc, CreateAllocFails, CreateThreadFails, CreateReturns, hist
  <2> QED BY <1>1, <2>1, <2>2 DEF Create
<1>2. ASSUME NEW t \in Threads, AddCall(t)
      PROVE  TasksDiffer'
  <2>1. PICK x \in Fresh : arg' = [arg EXCEPT ![t] = x]
    BY <1>2 DEF AddCall
  <2>2. /\ \A i \in 1..Len(accepted) : accepted[i] # x
        /\ \A u \in Threads : Adding(u) => arg[u] # x
    BY <2>1, RangeEquality DEF Fresh
  <2>3. pc' = [pc EXCEPT ![t] = "add"] /\ accepted' = accepted
    BY <1>2 DEF AddCall, hist
  <2> QED BY <2>1, <2>2, <2>3 DEF TasksDiffer, Adding
<1>3. ASSUME NEW t \in Threads, AddLock(t) \/ Reject(t)
      PROVE  TasksDiffer'
  BY <1>u, <1>3 DEF AddLock, Reject, ReturnFromAdd, hist
<1>4. ASSUME NEW t \in Threads, Enqueue(t)
      PROVE  TasksDiffer'
  <2>1. /\ arg' = arg /\ pc[t] = "adding"
        /\ pc' = [pc EXCEPT ![t] = IF t \in Workers THEN "run" ELSE "idle"]
    BY <1>4 DEF Enqueue, ReturnFromAdd
  <2>2. /\ Len(accepted') = Len(accepted) + 1
        /\ \A i \in 1..Len(accepted) : accepted'[i] = accepted[i]
        /\ accepted'[Len(accepted) + 1] = arg[t]
    BY <1>4, EnqueueAppends
  <2>3. \A i \in 1..Len(accepted) : accepted[i] # arg[t]
    BY <2>1 DEF TasksDiffer, Adding
  <2>4. \A i, j \in 1..Len(accepted') : accepted'[i] = accepted'[j] => i = j
    <3>1. \A i \in 1..Len(accepted') : i = Len(accepted) + 1 \/ i \in 1..Len(accepted)
      BY <2>2
    <3> QED BY <2>2, <2>3, <3>1 DEF TasksDiffer
  <2>5. ASSUME NEW u \in Threads, Adding(u)', NEW i \in 1..Len(accepted')
        PROVE  accepted'[i] # arg'[u]
    <3>1. u # t /\ Adding(u) /\ Adding(t)
      BY <2>1, <2>5 DEF Adding
    <3>2. i = Len(accepted) + 1 \/ i \in 1..Len(accepted)
      BY <2>2
    <3> QED BY <2>1, <2>2, <3>1, <3>2 DEF TasksDiffer
  <2>6. \A u, v \in Threads : Adding(u)' /\ Adding(v)' /\ arg'[u] = arg'[v] => u = v
    BY <2>1 DEF TasksDiffer, Adding
  <2> QED BY <2>4, <2>5, <2>6 DEF TasksDiffer
<1>5. ASSUME NEW c \in Callers, DestroyCall(c) \/ DestroyLock(c) \/ FreePool(c) \/ CallerStep(c)
      PROVE  TasksDiffer'
  BY <1>u, <1>5 DEF DestroyCall, DestroyLock, FreePool, CallerStep, BeginShutdown,
     AlreadyShutdown, JoinThread, JoinDone, FreeArrays, TouchFreed, hist
<1>6. ASSUME NEW w \in Workers, \/ SpuriousWakeup(w) \/ WorkerStep(w)
                                \/ WorkerLock(w) \/ WorkerWake(w)
      PROVE  TasksDiffer'
  BY <1>u, <1>6 DEF SpuriousWakeup, WorkerStep, WorkerLock, WorkerWake, WorkerWait,
     WorkerTake, WorkerRun, WorkerExit, hist
<1>7. CASE UNCHANGED vars
  BY <1>u, <1>7 DEF vars, hist
<1> QED
  BY <1>1, <1>2, <1>3, <1>4, <1>5, <1>6, <1>7
     DEF Next, Terminated, AddStep, CallerAcquire, WorkerAcquire

(* What a worker dequeues: the oldest task, which nobody has started. *)
LEMMA TakeIsNew ==
  ASSUME IInv, TasksDiffer, StartedWereTaken, NEW w \in Workers, WorkerTake(w)
  PROVE  /\ queue[head] \in Tasks /\ task[w] = NoTask
         /\ Len(taken) \in Nat /\ Len(taken') = Len(taken) + 1
         /\ \A i \in 1..Len(taken) : taken'[i] = taken[i] /\ taken[i] # queue[head]
         /\ taken'[Len(taken) + 1] = queue[head]
<1>1. count > 0 /\ RingTypes
  BY TakeNonEmpty DEF IInv, TypeOK, RingTypes
<1>2. queue[head] = accepted[Len(taken) + 1] /\ queue[head] \in Tasks
  BY <1>1, HeadIsOldest DEF IInv
<1>3. taken' = Append(taken, queue[head]) /\ taken \in Seq(Tasks)
  BY DEF WorkerTake, IInv, TypeOK
<1>4. /\ Len(taken) \in Nat /\ Len(taken') = Len(taken) + 1
      /\ \A i \in 1..Len(taken) : taken'[i] = taken[i]
      /\ taken'[Len(taken) + 1] = queue[head]
  BY <1>2, <1>3, AppendProperties, LenProperties
<1>5. ASSUME NEW i \in 1..Len(taken)
      PROVE  taken[i] # queue[head]
  <2>1. taken[i] = accepted[i]
    BY DEF IInv, RingHoldsBacklog
  <2>2. i \in 1..Len(accepted) /\ Len(taken) + 1 \in 1..Len(accepted) /\ i # Len(taken) + 1
    BY <1>1, <1>4, RingNumbers DEF IInv
  <2> QED BY <1>2, <2>1, <2>2 DEF TasksDiffer
<1>6. task[w] = NoTask
  BY DEF WorkerTake, IInv, TaskOfWorker
<1> QED BY <1>2, <1>4, <1>5, <1>6

(* Tasks start by being dequeued. *)
LEMMA StartedWereTakenStep ==
  ASSUME IInv, TasksDiffer, StartedWereTaken, [Next]_vars
  PROVE  StartedWereTaken'
<1>p. /\ task \in [Workers -> Tasks \cup {NoTask}] /\ taken \in Seq(Tasks)
      /\ Len(taken) \in Nat /\ done \subseteq Tasks
  BY LenProperties DEF IInv, TypeOK
<1>1. ASSUME NEW w \in Workers, WorkerTake(w)
      PROVE  StartedWereTaken'
  <2>1. /\ task' = [task EXCEPT ![w] = queue[head]] /\ done' = done
    BY <1>1 DEF WorkerTake
  <2>2. /\ queue[head] \in Tasks /\ task[w] = NoTask
        /\ Len(taken') = Len(taken) + 1
        /\ \A i \in 1..Len(taken) : taken'[i] = taken[i] /\ taken[i] # queue[head]
        /\ taken'[Len(taken) + 1] = queue[head]
    BY <1>1, TakeIsNew
  <2>3. \A v \in Workers : task[v] # queue[head]
    BY <2>2, TasksAssumption DEF StartedWereTaken
  <2>4. queue[head] \notin done
    BY <2>2 DEF StartedWereTaken
  <2>5. /\ \A i \in 1..Len(taken) : i \in 1..Len(taken')
        /\ Len(taken) + 1 \in 1..Len(taken')
    BY <1>p, <2>2
  <2>6. \A v \in Workers : task'[v] # NoTask => \E i \in 1..Len(taken') : taken'[i] = task'[v]
    BY <1>p, <2>1, <2>2, <2>5 DEF StartedWereTaken
  <2>7. \A x \in done' : \E i \in 1..Len(taken') : taken'[i] = x
    BY <2>1, <2>2, <2>5 DEF StartedWereTaken
  <2>8. \A v, u \in Workers : task'[v] = task'[u] /\ task'[u] # NoTask => v = u
    BY <1>p, <2>1, <2>3 DEF StartedWereTaken
  <2>9. \A v \in Workers : task'[v] \notin done'
    BY <1>p, <2>1, <2>4 DEF StartedWereTaken
  <2> QED BY <2>6, <2>7, <2>8, <2>9 DEF StartedWereTaken
<1>2. ASSUME NEW w \in Workers, WorkerRun(w)
      PROVE  StartedWereTaken'
  <2>1. /\ task' = [task EXCEPT ![w] = NoTask] /\ done' = done \cup {task[w]}
        /\ taken' = taken /\ task[w] # NoTask
    BY <1>2 DEF WorkerRun, IInv, TaskOfWorker
  <2> QED BY <1>p, <2>1, TasksAssumption DEF StartedWereTaken
<1>3. CASE UNCHANGED <<task, taken, done>>
  BY <1>3 DEF StartedWereTaken
<1>4. \/ UNCHANGED <<task, taken, done>>
      \/ \E w \in Workers : WorkerTake(w) \/ WorkerRun(w)
  BY DEF Next, vars, hist, Terminated, Create, CreateAlloc, CreateAllocFails, CreateThread,
     CreateThreadFails, CreateReturns, AddCall, AddStep, AddLock, Enqueue, Reject, DestroyCall,
     CallerStep, CallerAcquire, DestroyLock, FreePool, BeginShutdown, AlreadyShutdown,
     JoinThread, JoinDone, FreeArrays, TouchFreed, SpuriousWakeup, WorkerStep, WorkerAcquire,
     WorkerLock, WorkerWake, WorkerWait, WorkerExit
<1> QED BY <1>1, <1>2, <1>3, <1>4

-----------------------------------------------------------------------------
(* The backlog of TaskPool is the ring read from its head. *)
LEMMA BacklogIsSeq ==
  ASSUME RingTypes, RingHoldsBacklog
  PROVE  /\ Backlog \in Seq(Tasks) /\ Len(Backlog) = count
         /\ \A i \in 1..count : Backlog[i] = accepted[Len(taken) + i]
<1>1. /\ QueueSize \in Int /\ count \in Nat /\ Len(taken) \in Nat /\ Len(accepted) \in Nat
      /\ Len(accepted) = Len(taken) + count
  BY RingNumbers
<1>2. ASSUME NEW i \in 1..count
      PROVE  /\ queue[Slot(i - 1)] = accepted[Len(taken) + i]
             /\ queue[Slot(i - 1)] \in Tasks
  <2>1. i - 1 \in 0..(count - 1) /\ Len(taken) + 1 + (i - 1) = Len(taken) + i
    BY <1>1
  <2>2. queue[Slot(i - 1)] = accepted[Len(taken) + 1 + (i - 1)]
    BY <2>1 DEF RingHoldsBacklog
  <2>3. Len(taken) + i \in 1..Len(accepted)
    BY <1>1
  <2>4. accepted[Len(taken) + i] \in Tasks
    BY <2>3, ElementOfSeq DEF RingTypes
  <2> QED BY <2>1, <2>2, <2>4
<1>3. Backlog \in [1..count -> Tasks]
  BY <1>2 DEF Backlog
<1>4. Backlog \in Seq(Tasks) /\ Len(Backlog) = count
  BY <1>1, <1>3
<1> QED BY <1>2, <1>4 DEF Backlog

(* An empty ring is an empty backlog. *)
LEMMA BacklogEmpty ==
  ASSUME RingTypes, RingHoldsBacklog
  PROVE  Backlog = <<>> <=> count = 0
BY BacklogIsSeq, EmptySeq, RingNumbers

(* The same after a step. *)
LEMMA NextBacklogIsSeq ==
  ASSUME RingTypes', RingHoldsBacklog'
  PROVE  /\ Backlog' \in Seq(Tasks) /\ Len(Backlog') = count'
         /\ \A i \in 1..count' : Backlog'[i] = accepted'[Len(taken') + i]
<1>1. (RingTypes /\ RingHoldsBacklog =>
         /\ Backlog \in Seq(Tasks) /\ Len(Backlog) = count
         /\ \A i \in 1..count : Backlog[i] = accepted[Len(taken) + i])'
  BY BacklogIsSeq, PTL
<1> QED BY <1>1

(* threadpool_add submits. *)
LEMMA EnqueueSubmits ==
  ASSUME IInv, IInv', RefInv, NEW t \in Threads, Enqueue(t)
  PROVE  Pool!Submit(arg[t]) /\ arg[t] \in Tasks
<1>r. RingTypes /\ RingHoldsBacklog /\ RingTypes' /\ RingHoldsBacklog'
  BY DEF IInv, TypeOK, RingTypes
<1>n. /\ count \in Nat /\ QueueSize \in Nat /\ count <= QueueSize /\ Len(taken) \in Nat
      /\ Len(accepted) = Len(taken) + count
  BY <1>r, RingNumbers
<1>1. /\ pc[t] = "adding" /\ shutdown = Open /\ count # QueueSize
      /\ count' = count + 1 /\ taken' = taken
      /\ UNCHANGED <<task, done, shutdown, memory>>
  BY DEF Enqueue, AddRejected, flags
<1>2. Phase = "open" /\ Phase' = Phase
  BY <1>1 DEF RefInv, NobodyInside, Phase
<1>3. RunningTasks' = RunningTasks
  BY <1>1 DEF RunningTasks
<1>4. arg[t] \notin RunningTasks \cup done /\ arg[t] \in Tasks
  <2>1. \A i \in 1..Len(taken) : taken[i] # arg[t]
    <3>1. \A i \in 1..Len(accepted) : accepted[i] # arg[t]
      BY <1>1 DEF RefInv, TasksDiffer, Adding
    <3> QED BY <1>n, <3>1, <1>r DEF RingHoldsBacklog
  <2>2. arg[t] \in Tasks
    BY <1>1 DEF IInv, ArgIsTask
  <2> QED BY <2>1, <2>2 DEF RefInv, StartedWereTaken, RunningTasks
<1>5. /\ Backlog \in Seq(Tasks) /\ Len(Backlog) = count
      /\ \A i \in 1..count : Backlog[i] = accepted[Len(taken) + i]
  BY <1>r, BacklogIsSeq
<1>6. /\ Backlog' \in Seq(Tasks) /\ Len(Backlog') = count'
      /\ \A i \in 1..count' : Backlog'[i] = accepted'[Len(taken') + i]
  BY <1>r, NextBacklogIsSeq
<1>7. Backlog' = Append(Backlog, arg[t])
  <2> DEFINE b == Append(Backlog, arg[t])
  <2>1. /\ b \in Seq(Tasks) /\ Len(b) = count + 1
        /\ \A i \in 1..count : b[i] = Backlog[i]
        /\ b[count + 1] = arg[t]
    BY <1>4, <1>5, AppendProperties
  <2>2. /\ \A i \in 1..Len(accepted) : accepted'[i] = accepted[i]
        /\ accepted'[Len(accepted) + 1] = arg[t]
    BY EnqueueAppends
  <2> HIDE DEF b
  <2>3. ASSUME NEW i \in 1..(count + 1)
        PROVE  Backlog'[i] = b[i]
    <3>1. Backlog'[i] = accepted'[Len(taken) + i]
      BY <1>1, <1>6, <2>3
    <3>2. CASE i = count + 1
      <4>1. Len(taken) + i = Len(accepted) + 1
        BY <1>n, <3>2
      <4> QED BY <2>1, <2>2, <3>1, <3>2, <4>1
    <3>3. CASE i \in 1..count
      <4>1. Len(taken) + i \in 1..Len(accepted)
        BY <1>n, <3>3
      <4> QED BY <1>5, <2>1, <2>2, <3>1, <3>3, <4>1
    <3> QED BY <1>n, <3>2, <3>3
  <2>4. Backlog' = b
    BY <1>1, <1>6, <2>1, <2>3, SeqEqual
  <2> QED BY <2>4 DEF b
<1>8. Len(Backlog) < QueueSize
  BY <1>1, <1>5, <1>n
<1> QED BY <1>1, <1>2, <1>3, <1>4, <1>7, <1>8 DEF Pool!Submit

(* A worker starts the oldest task. *)
LEMMA TakeStarts ==
  ASSUME IInv, IInv', RefInv, NEW w \in Workers, WorkerTake(w)
  PROVE  Pool!Start
<1>r. RingTypes /\ RingHoldsBacklog /\ RingTypes' /\ RingHoldsBacklog'
  BY DEF IInv, TypeOK, RingTypes
<1>n. count \in Nat /\ Len(taken) \in Nat /\ count > 0
  BY <1>r, RingNumbers, TakeNonEmpty DEF IInv
<1>1. /\ pc[w] = "test" /\ shutdown # Immediate /\ count' = count - 1
      /\ task' = [task EXCEPT ![w] = queue[head]] /\ accepted' = accepted
      /\ UNCHANGED <<done, shutdown, memory>>
  BY DEF WorkerTake, MustExit, flags
<1>2. Phase \in {"open", "draining"} /\ Phase' = Phase
  BY <1>1, ThreadFacts DEF RefInv, NobodyInside, Phase, IInv, TypeOK, Open, Immediate, Graceful
<1>3. /\ queue[head] \in Tasks /\ task[w] = NoTask /\ Len(taken') = Len(taken) + 1
  BY TakeIsNew DEF RefInv
<1>4. /\ Backlog \in Seq(Tasks) /\ Len(Backlog) = count
      /\ \A i \in 1..count : Backlog[i] = accepted[Len(taken) + i]
      /\ Backlog' \in Seq(Tasks) /\ Len(Backlog') = count'
      /\ \A i \in 1..count' : Backlog'[i] = accepted'[Len(taken') + i]
  BY <1>r, BacklogIsSeq, NextBacklogIsSeq
<1>5. Backlog # <<>>
  BY <1>r, <1>n, BacklogEmpty
<1>6. Head(Backlog) = queue[head]
  <2>1. queue[head] = accepted[Len(taken) + 1]
    BY <1>r, <1>n, HeadIsOldest
  <2>2. Head(Backlog) = Backlog[1]
    BY <1>4, <1>5
  <2> QED BY <1>n, <1>4, <2>1, <2>2
<1>7. Backlog' = Tail(Backlog)
  <2>1. /\ Tail(Backlog) \in Seq(Tasks) /\ Len(Tail(Backlog)) = count - 1
        /\ \A i \in 1..(count - 1) : Tail(Backlog)[i] = Backlog[i + 1]
    BY <1>4, <1>5, HeadTailProperties
  <2>2. ASSUME NEW i \in 1..(count - 1)
        PROVE  Backlog'[i] = Backlog[i + 1]
    <3>1. i + 1 \in 1..count /\ Len(taken') + i = Len(taken) + (i + 1)
      BY <1>n, <1>3
    <3> QED BY <1>1, <1>4, <2>2, <3>1
  <2> QED BY <1>1, <1>4, <2>1, <2>2, SeqEqual
<1>8. RunningTasks' = RunningTasks \cup {queue[head]}
  <2>1. /\ \A v \in Workers : task'[v] = IF v = w THEN queue[head] ELSE task[v]
        /\ queue[head] # NoTask
    BY <1>1, <1>3, TasksAssumption DEF IInv, TypeOK
  <2> QED BY <1>3, <2>1 DEF RunningTasks
<1> QED BY <1>1, <1>2, <1>5, <1>6, <1>7, <1>8 DEF Pool!Start

(* The steps that do not touch the ring. *)
LEMMA SameBacklog ==
  ASSUME UNCHANGED ring
  PROVE  Backlog' = Backlog /\ count' = count
BY DEF ring, Backlog, Slot

(* A task that returns finishes. *)
LEMMA RunFinishes ==
  ASSUME IInv, RefInv, NEW w \in Workers, WorkerRun(w)
  PROVE  Pool!Finish(task[w]) /\ task[w] \in Tasks
<1>1. /\ task' = [task EXCEPT ![w] = NoTask] /\ done' = done \cup {task[w]}
      /\ UNCHANGED <<ring, shutdown, memory>>
      /\ task \in [Workers -> Tasks \cup {NoTask}] /\ task[w] # NoTask
  BY DEF WorkerRun, IInv, TypeOK, TaskOfWorker, flags
<1>2. RunningTasks' = RunningTasks \ {task[w]}
  <2>1. \A v \in Workers : task[v] = task[w] => v = w
    BY <1>1 DEF RefInv, StartedWereTaken
  <2> QED BY <1>1, <2>1 DEF RunningTasks
<1>3. task[w] \in RunningTasks
  BY <1>1 DEF RunningTasks
<1>4. Backlog' = Backlog /\ Phase' = Phase
  BY <1>1, SameBacklog DEF Phase
<1> QED BY <1>1, <1>2, <1>3, <1>4 DEF Pool!Finish

(* The first destroy shuts the pool down. *)
LEMMA DestroyShutsDown ==
  ASSUME IInv, RefInv, NEW c \in Callers, BeginShutdown(c)
  PROVE  Pool!Shutdown
<1>1. /\ pc[c] = "destroying" /\ shutdown = Open /\ shutdown' \in {Immediate, Graceful}
      /\ UNCHANGED <<ring, task, done, memory>>
  BY DEF BeginShutdown, ShutdownKinds, hist
<1>2. memory # "freed"
  BY <1>1, ThreadFacts DEF RefInv, NobodyInside
<1>3. Phase = "open" /\ Phase' \in {"draining", "dropping"}
  BY <1>1, <1>2 DEF Phase, Open, Immediate, Graceful
<1>4. Backlog' = Backlog /\ RunningTasks' = RunningTasks
  BY <1>1, SameBacklog DEF RunningTasks
<1> QED BY <1>1, <1>3, <1>4 DEF Pool!Shutdown

(* free(pool) closes it: nothing runs, and after a graceful shutdown nothing is
   pending. *)
LEMMA FreeCloses ==
  ASSUME IInv, RefInv, NEW c \in Callers, FreePool(c)
  PROVE  Pool!Close
<1>1. /\ pc[c] = "freeLock" /\ memory' = "freed"
      /\ UNCHANGED <<ring, task, done, shutdown>>
  BY DEF FreePool, hist
<1>2. memory = "arraysFreed" /\ shutdown # Open
  BY <1>1 DEF RefInv, OneDestroyer, IInv, Lifecycle, AliveUntilFreed
<1>3. Phase \in {"draining", "dropping"} /\ Phase' = "closed"
  BY <1>1, <1>2 DEF Phase
<1>4. \A w \in Workers : pc[w] \in {"unborn", "exited"}
  BY <1>2 DEF IInv, FreedAfterWorkers
<1>5. RunningTasks = {}
  BY <1>4 DEF RunningTasks, IInv, TaskOfWorker
<1>6. Phase = "draining" => Backlog = <<>>
  <2> SUFFICES ASSUME Phase = "draining" PROVE Backlog = <<>>
      OBVIOUS
  <2>1. shutdown = Graceful
    BY <1>2 DEF Phase
  <2>2. 1 \in Workers /\ pc[1] = "exited"
    BY <1>4, <2>1, ThreadCountAssumption
       DEF IInv, Lifecycle, GracefulIsComplete, BornInOrder, Workers
  <2>3. count = 0
    BY <2>1, <2>2 DEF IInv, Drained
  <2>4. RingTypes /\ RingHoldsBacklog
    BY DEF IInv, TypeOK, RingTypes
  <2> QED BY <2>3, <2>4, BacklogEmpty
<1>7. Backlog' = Backlog /\ RunningTasks' = RunningTasks
  BY <1>1, SameBacklog DEF RunningTasks
<1> QED BY <1>1, <1>3, <1>5, <1>6, <1>7 DEF Pool!Close

(* Without memory the pool never opens. *)
LEMMA AllocFailureNeverOpens ==
  ASSUME IInv, RefInv, CreateAllocFails
  PROVE  Pool!NeverOpens
<1>1. /\ pc[Owner] = "alloc" /\ memory' = "freed"
      /\ UNCHANGED <<ring, task, done, shutdown>>
  BY DEF CreateAllocFails, hist
<1>2. /\ memory # "freed" /\ shutdown = Open /\ \A w \in Workers : pc[w] = "unborn"
  BY <1>1 DEF IInv, Lifecycle, AliveUntilFreed, CreationFirst, BornInOrder, Workers
<1>3. Phase = "open" /\ Phase' = "closed"
  BY <1>1, <1>2 DEF Phase
<1>4. count = 0 /\ done = {}
  BY <1>1 DEF RefInv, NothingYet
<1>5. Backlog = <<>>
  <2>1. RingTypes /\ RingHoldsBacklog
    BY DEF IInv, TypeOK, RingTypes
  <2> QED BY <1>4, <2>1, BacklogEmpty
<1>6. RunningTasks = {}
  BY <1>2 DEF RunningTasks, IInv, TaskOfWorker
<1>7. Backlog' = Backlog /\ RunningTasks' = RunningTasks
  BY <1>1, SameBacklog DEF RunningTasks
<1> QED BY <1>1, <1>3, <1>4, <1>5, <1>6, <1>7 DEF Pool!NeverOpens

(* What changes neither the ring, the tasks nor the phase is a stutter. *)
LEMMA Stutters ==
  ASSUME UNCHANGED <<ring, task, done>>, Phase' = Phase
  PROVE  UNCHANGED Pool!vars
BY SameBacklog DEF Pool!vars, RunningTasks

(* Steps that are none of these change nothing that TaskPool sees. *)
LEMMA OtherStepsStutter ==
  ASSUME IInv, RefInv, [Next]_vars,
         ~ \E t \in Threads : Enqueue(t),
         ~ \E w \in Workers : WorkerTake(w) \/ WorkerRun(w),
         ~ \E c \in Callers : BeginShutdown(c) \/ FreePool(c),
         ~CreateAllocFails
  PROVE  UNCHANGED Pool!vars
<1>1. UNCHANGED <<ring, task, done>>
  BY ThreadFacts
     DEF Next, vars, hist, Terminated, Create, CreateAlloc, CreateThread, CreateThreadFails,
     CreateReturns, AddCall, AddStep, AddLock, Reject, DestroyCall, CallerStep, CallerAcquire,
     DestroyLock, AlreadyShutdown, JoinThread, JoinDone, FreeArrays, TouchFreed,
     SpuriousWakeup, WorkerStep, WorkerAcquire, WorkerLock, WorkerWake, WorkerWait, WorkerExit
<1>2. \/ UNCHANGED <<shutdown, memory>>
      \/ CreateAlloc \/ \E c \in Callers : FreeArrays(c)
  BY ThreadFacts
     DEF Next, vars, flags, Terminated, Create, CreateThread, CreateThreadFails,
     CreateReturns, AddCall, AddStep, AddLock, Reject, DestroyCall, CallerStep, CallerAcquire,
     DestroyLock, AlreadyShutdown, JoinThread, JoinDone, TouchFreed,
     SpuriousWakeup, WorkerStep, WorkerAcquire, WorkerLock, WorkerWake, WorkerWait, WorkerExit
<1>3. CASE UNCHANGED <<shutdown, memory>>
  BY <1>1, <1>3, Stutters DEF Phase
<1>4. CASE CreateAlloc
  <2>1. memory # "freed" /\ memory' # "freed" /\ shutdown' = shutdown
    BY <1>4 DEF CreateAlloc, IInv, Lifecycle, AliveUntilFreed
  <2> QED BY <1>1, <2>1, Stutters DEF Phase
<1>5. ASSUME NEW c \in Callers, FreeArrays(c)
      PROVE  UNCHANGED Pool!vars
  <2>1. memory # "freed" /\ memory' # "freed" /\ shutdown' = shutdown
    BY <1>5 DEF FreeArrays, RefInv, OneDestroyer
  <2> QED BY <1>1, <2>1, Stutters DEF Phase
<1> QED BY <1>2, <1>3, <1>4, <1>5

(* Each step is one of TaskPool or a stutter. *)
LEMMA StepRefines ==
  ASSUME IInv, IInv', RefInv, [Next]_vars
  PROVE  [Pool!Next]_(Pool!vars)
<1>1. ASSUME NEW t \in Threads, Enqueue(t) PROVE Pool!Next
  BY <1>1, EnqueueSubmits DEF Pool!Next
<1>2. ASSUME NEW w \in Workers, WorkerTake(w) PROVE Pool!Next
  BY <1>2, TakeStarts DEF Pool!Next
<1>3. ASSUME NEW w \in Workers, WorkerRun(w) PROVE Pool!Next
  BY <1>3, RunFinishes DEF Pool!Next
<1>4. ASSUME NEW c \in Callers, BeginShutdown(c) PROVE Pool!Next
  BY <1>4, DestroyShutsDown DEF Pool!Next
<1>5. ASSUME NEW c \in Callers, FreePool(c) PROVE Pool!Next
  BY <1>5, FreeCloses DEF Pool!Next
<1>6. CASE CreateAllocFails
  BY <1>6, AllocFailureNeverOpens DEF Pool!Next
<1> QED BY <1>1, <1>2, <1>3, <1>4, <1>5, <1>6, OtherStepsStutter

(* A pool that does not exist yet is one of TaskPool. *)
LEMMA InitRefines ==
  ASSUME Init
  PROVE  Pool!Init /\ RefInv
<1>1. IInv
  BY InitIInv
<1>2. RingTypes /\ RingHoldsBacklog /\ count = 0
  BY <1>1 DEF IInv, TypeOK, RingTypes, Init
<1>3. Backlog = <<>>
  BY <1>2, BacklogEmpty
<1>4. RunningTasks = {} /\ done = {} /\ Phase = "open"
  BY DEF Init, RunningTasks, Phase
<1>5. RefInv
  <2>1. Len(accepted) = 0 /\ Len(taken) = 0
    BY EmptySeq DEF Init
  <2> QED BY <2>1, ThreadFacts DEF Init, RefInv, NobodyInside, OneDestroyer, Destroying,
          NothingYet, TasksDiffer, Adding, StartedWereTaken, Threads
<1> QED BY <1>3, <1>4, <1>5 DEF Pool!Init

(* RefInv is kept. *)
LEMMA RefInvStep ==
  ASSUME IInv, RefInv, [Next]_vars
  PROVE  RefInv'
BY NobodyInsideStep, OneDestroyerStep, NothingYetStep, TasksDifferStep, StartedWereTakenStep
   DEF RefInv

(* The pool, with its threads, lock, condition variable and ring, implements
   TaskPool: tasks start in the order they were submitted and run once, a
   graceful shutdown drains the backlog, an immediate one drops it, and the
   pool closes only when no task runs. *)
THEOREM PoolImplementsTaskPool == Spec => ImplementsTaskPool
<1>1. Init => Pool!Init /\ RefInv
  BY InitRefines
<1>2. IInv /\ RefInv /\ [Next]_vars => RefInv'
  BY RefInvStep
<1>3. IInv /\ IInv' /\ RefInv /\ [Next]_vars => [Pool!Next]_(Pool!vars)
  BY StepRefines
<1> QED BY <1>1, <1>2, <1>3, Invariance, PTL DEF Spec, ImplementsTaskPool, Pool!Spec
=============================================================================
