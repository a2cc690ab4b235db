--------------------------- MODULE AppRuntimeProofs ---------------------------
(***************************************************************************)
(* Proofs about AppRuntime for every set of signals and every mode of the  *)
(* program.  IInv is the inductive invariant.                              *)
(***************************************************************************)
EXTENDS AppRuntime, SequenceTheorems, FiniteSetTheorems, TLAPS

Steps  == Ids \ {EXIT}
Labels == UsesQueue \cup
  {"run", "waitLoop", "process", "sleep", "quit", "destroy", "free", "unlocked",
   "exitLooper", "closeNet", "returned", "unborn", "setup", "enter", "test",
   "handle", "pending", "done", "wild"}

(* In the foreground main is the looper, and there is no thread loop. *)
Foreground == ~mode.thread => /\ pc[main] \notin {"waitLoop", "process", "sleep"}
                              /\ pc[loop] = "unborn"

(* What the looper sends on is the message of a step that it has handled. *)
LooperHolds == /\ pc[Looper] \in {"send", "push"} => inHand \in Steps
               /\ pc[Looper] = "handle" => inHand \in Ids

(* The chain: its message is in the queue once, or in the looper's hand, or
   the trigger has yet to post the first one. *)
TriggerWaits == pc[main] = "run" => pc[trigger] = "unborn"
AllExit == \A i \in 1..Len(queue) : queue[i] = EXIT
Chain ==
  /\ \A i, j \in 1..Len(queue) : queue[i] # EXIT /\ queue[j] # EXIT => i = j
  /\ inHand \in Steps => AllExit
  /\ pc[trigger] \in {"unborn", "setup", "send", "push"} => inHand \notin Steps /\ AllExit

IInv == /\ TypeOK /\ Foreground /\ LooperHolds /\ TriggerWaits /\ Chain

-----------------------------------------------------------------------------

(* The three threads of the program are distinct, and no signal is one. *)
LEMMA ThreadFacts ==
  /\ main \in Threads /\ trigger \in Threads /\ loop \in Threads
  /\ Signals \subseteq Threads /\ Nobody \notin Threads
  /\ main \notin Signals /\ trigger \notin Signals /\ loop \notin Signals
  /\ main # trigger /\ main # loop /\ trigger # loop
  /\ Looper \in {main, loop}
  /\ mode.thread => Looper = loop
  /\ ~mode.thread => Looper = main
BY SignalsAssumption DEF Threads, main, trigger, loop, Looper

(* What a thread posts is a message, and a step only if the trigger or the
   looper posts it. *)
LEMMA OutgoingFacts ==
  ASSUME NEW t \in Threads, LooperHolds, pc[t] = "push"
  PROVE  /\ Outgoing(t) \in Ids
         /\ t # trigger /\ t # Looper => Outgoing(t) = EXIT
<1>1. CASE t = trigger
  BY <1>1, ThreadFacts DEF Outgoing, Ids, START
<1>2. CASE t = Looper
  <2>1. inHand \in Steps
    BY <1>2 DEF LooperHolds
  <2>2. FollowUp[inHand] \in Ids
    BY <2>1 DEF FollowUp, Steps, Ids, START, STEP1, STEP2, EXIT
  <2> QED BY <1>2, <2>2, ThreadFacts DEF Outgoing
<1>3. CASE t # trigger /\ t # Looper
  BY <1>3 DEF Outgoing, Ids, EXIT
<1> QED BY <1>1, <1>2, <1>3

-----------------------------------------------------------------------------
(* Every step keeps the variables in their types. *)
LEMMA TypeStep ==
  ASSUME TypeOK, LooperHolds, [Next]_vars
  PROVE  TypeOK'
<1> USE ThreadFacts DEF TypeOK, Goto, UsesQueue
<1>1. CASE MainStep \/ ProcessEnds \/ DestroyLock
  <2>1. CASE Run \/ LoopStarted \/ SleepEnds \/ TasksDone
    BY <2>1 DEF Run, LoopStarted, SleepEnds, TasksDone, sync, flags
  <2>2. CASE DestroyQueue \/ LooperExit \/ Return
    BY <2>2 DEF DestroyQueue, LooperExit, Return, sync, flags
  <2>3. CASE ProcessEnds \/ DestroyLock
    BY <2>3 DEF ProcessEnds, DestroyLock, sync, flags
  <2>4. CASE FreeList
    BY <2>4, EmptySeq DEF FreeList, flags
  <2> QED BY <1>1, <2>1, <2>2, <2>3, <2>4 DEF MainStep
<1>2. CASE SetHandler \/ EnterLoop
  BY <1>2 DEF SetHandler, EnterLoop, sync, flags
<1>3. CASE TestQuit \/ PopWait \/ PopNoWait \/ Handle
  BY <1>3 DEF TestQuit, PopWait, PopNoWait, Handle, sync, flags
<1>4. CASE Remove
  <2>1. queue # <<>> => Head(queue) \in Ids /\ Tail(queue) \in Seq(Ids)
    BY HeadTailProperties
  <2> QED BY <1>4, <2>1 DEF Remove, flags
<1>5. CASE HandleExit
  BY <1>5 DEF HandleExit, sync
<1>6. CASE Timeout \/ PopLock \/ PopWake
  <2>1. CASE Timeout
    BY <2>1 DEF Timeout, flags
  <2>2. CASE PopLock
    BY <2>2 DEF PopLock, flags
  <2>3. CASE PopWake
    BY <2>3 DEF PopWake, flags
  <2> QED BY <1>6, <2>1, <2>2, <2>3
<1>7. ASSUME NEW t \in Threads, SendNull(t) \/ TouchDestroyed(t) \/ PushLock(t)
      PROVE  TypeOK'
  BY <1>7 DEF SendNull, TouchDestroyed, PushLock, sync, flags
<1>8. ASSUME NEW t \in Threads, Push(t)
      PROVE  TypeOK'
  <2>1. Append(queue, Outgoing(t)) \in Seq(Ids)
    BY <1>8, OutgoingFacts, AppendProperties DEF Push, At
  <2> QED BY <1>8, <2>1 DEF Push, flags
<1>9. ASSUME NEW s \in Signals, Raise(s)
      PROVE  TypeOK'
  BY <1>9 DEF Raise, sync
<1>10. CASE UNCHANGED vars
  BY <1>10 DEF vars, sync, flags
<1> QED
  BY <1>1, <1>2, <1>3, <1>4, <1>5, <1>6, <1>7, <1>8, <1>9, <1>10
     DEF Next, LooperStep, Send, Ended

-----------------------------------------------------------------------------
(* Where the threads of the program may be, and what the looper holds. *)
Control == Foreground /\ LooperHolds /\ TriggerWaits
LEMMA ControlStep ==
  ASSUME TypeOK, Control, [Next]_vars
  PROVE  Control'
<1> USE ThreadFacts DEF Control, Foreground, LooperHolds, TriggerWaits, TypeOK, Goto,
                        Looper, At, Steps, Ids, EXIT, NoMsg
<1>1. CASE MainStep \/ ProcessEnds \/ DestroyLock
  <2>1. CASE Run \/ LoopStarted \/ SleepEnds \/ TasksDone
    BY <2>1 DEF Run, LoopStarted, SleepEnds, TasksDone
  <2>2. CASE FreeList \/ DestroyQueue \/ LooperExit \/ Return
    BY <2>2 DEF FreeList, DestroyQueue, LooperExit, Return
  <2>3. CASE ProcessEnds \/ DestroyLock
    BY <2>3 DEF ProcessEnds, DestroyLock
  <2> QED BY <1>1, <2>1, <2>2, <2>3 DEF MainStep
<1>2. CASE SetHandler \/ EnterLoop
  BY <1>2 DEF SetHandler, EnterLoop
<1>3. CASE TestQuit \/ PopWait \/ PopNoWait \/ Handle
  BY <1>3 DEF TestQuit, PopWait, PopNoWait, Handle
<1>4. CASE Remove
  <2>1. queue # <<>> => Head(queue) \in Ids
    BY HeadTailProperties
  <2> QED BY <1>4, <2>1 DEF Remove
<1>5. CASE HandleExit
  BY <1>5 DEF HandleExit
<1>6. CASE Timeout \/ PopLock \/ PopWake
  BY <1>6 DEF Timeout, PopLock, PopWake
<1>7. ASSUME NEW t \in Threads, SendNull(t) \/ TouchDestroyed(t) \/ PushLock(t)
      PROVE  Control'
  BY <1>7 DEF SendNull, TouchDestroyed, PushLock, UsesQueue
<1>8. ASSUME NEW t \in Threads, Push(t)
      PROVE  Control'
  BY <1>8 DEF Push
<1>9. ASSUME NEW s \in Signals, Raise(s)
      PROVE  Control'
  BY <1>9 DEF Raise
<1>10. CASE UNCHANGED vars
  BY <1>10 DEF vars
<1> QED
  BY <1>1, <1>2, <1>3, <1>4, <1>5, <1>6, <1>7, <1>8, <1>9, <1>10
     DEF Next, LooperStep, Send, Ended

-----------------------------------------------------------------------------
(* The chain stays single: a step is appended only by the trigger's first
   post and by the looper, who then holds the only one. *)
LEMMA ChainStep ==
  ASSUME TypeOK, Control, Chain, [Next]_vars
  PROVE  Chain'
<1> USE ThreadFacts DEF Chain, AllExit, TypeOK, Goto
<1>1. CASE MainStep \/ ProcessEnds \/ DestroyLock
  <2>1. CASE Run
    <3>1. inHand \notin Steps /\ AllExit
      BY <2>1 DEF Run, Control, TriggerWaits, At
    <3> QED BY <2>1, <3>1 DEF Run
  <2>2. CASE LoopStarted \/ SleepEnds \/ TasksDone \/ DestroyQueue \/ LooperExit \/ Return
    BY <2>2 DEF LoopStarted, SleepEnds, TasksDone, DestroyQueue, LooperExit, Return
  <2>3. CASE FreeList
    BY <2>3 DEF FreeList
  <2>4. CASE ProcessEnds \/ DestroyLock
    BY <2>4 DEF ProcessEnds, DestroyLock
  <2> QED BY <1>1, <2>1, <2>2, <2>3, <2>4 DEF MainStep
<1>2. CASE SetHandler \/ EnterLoop
  BY <1>2 DEF SetHandler, EnterLoop, At
<1>3. CASE TestQuit \/ PopWait \/ PopNoWait \/ Handle
  BY <1>3 DEF TestQuit, PopWait, PopNoWait, Handle
<1>4. CASE Remove
  <2>1. CASE queue = <<>>
    BY <1>4, <2>1 DEF Remove
  <2>2. CASE queue # <<>>
    <3>1. /\ Len(queue) \in Nat /\ Len(queue) >= 1 /\ Head(queue) = queue[1]
          /\ Len(queue') = Len(queue) - 1
          /\ \A i \in 1..Len(queue') : queue'[i] = queue[i + 1]
      <4>1. queue \in Seq(Ids) /\ queue # <<>>
        BY <2>2
      <4>2. queue' = Tail(queue)
        BY <1>4, <2>2 DEF Remove
      <4>3. /\ Len(queue) \in Nat /\ Len(queue) # 0 /\ Head(queue) = queue[1]
            /\ Len(Tail(queue)) = Len(queue) - 1
            /\ \A i \in 1..Len(Tail(queue)) : Tail(queue)[i] = queue[i + 1]
        BY ONLY <4>1, HeadTailProperties, LenProperties, EmptySeq
      <4> QED BY ONLY <4>2, <4>3
    <3>2. /\ \A i \in 1..Len(queue') : i + 1 \in 1..Len(queue) /\ i + 1 # 1
          /\ \A i, j \in 1..Len(queue') : i + 1 = j + 1 => i = j
          /\ 1 \in 1..Len(queue)
      BY <3>1
    <3>4. /\ \A i, j \in 1..Len(queue') : queue'[i] # EXIT /\ queue'[j] # EXIT => i = j
          /\ Head(queue) # EXIT => AllExit'
          /\ AllExit => Head(queue) = EXIT /\ AllExit'
      BY <3>1, <3>2
    <3>3. inHand' = Head(queue) /\ pc'[trigger] = pc[trigger]
      BY <1>4, <2>2 DEF Remove
    <3> QED BY <3>3, <3>4 DEF Steps
  <2> QED BY <2>1, <2>2
<1>5. CASE HandleExit
  BY <1>5 DEF HandleExit, Steps, Ids, NoMsg, START, STEP1, STEP2, EXIT
<1>6. CASE Timeout \/ PopLock \/ PopWake
  BY <1>6 DEF Timeout, PopLock, PopWake
<1>7. ASSUME NEW t \in Threads, SendNull(t) \/ TouchDestroyed(t) \/ PushLock(t)
      PROVE  Chain'
  BY <1>7 DEF SendNull, TouchDestroyed, PushLock, UsesQueue, At
<1>8. ASSUME NEW t \in Threads, Push(t)
      PROVE  Chain'
  <2>1. /\ Len(queue') = Len(queue) + 1 /\ queue'[Len(queue) + 1] = Outgoing(t)
        /\ \A i \in 1..Len(queue) : queue'[i] = queue[i]
    BY <1>8, OutgoingFacts, AppendProperties DEF Push, At, Control
  <2>2. CASE t = trigger
    BY <1>8, <2>1, <2>2 DEF Push, At
  <2>3. CASE t = Looper
    BY <1>8, <2>1, <2>3 DEF Push, At, Control, LooperHolds, Steps, Ids, NoMsg,
       START, STEP1, STEP2, EXIT
  <2>4. CASE t # trigger /\ t # Looper
    <3>1. Outgoing(t) = EXIT
      BY <1>8, <2>4, OutgoingFacts DEF Push, At, Control
    <3>2. inHand' = inHand /\ pc'[trigger] = pc[trigger]
      BY <1>8, <2>4 DEF Push, At
    <3>3. Len(queue) \in Nat /\ AllExit => AllExit'
      BY <2>1, <3>1
    <3>4. \A i, j \in 1..Len(queue') : queue'[i] # EXIT /\ queue'[j] # EXIT => i = j
      BY <2>1, <3>1
    <3> QED BY <3>2, <3>3, <3>4, LenProperties
  <2> QED BY <2>2, <2>3, <2>4
<1>9. ASSUME NEW s \in Signals, Raise(s)
      PROVE  Chain'
  BY <1>9 DEF Raise
<1>10. CASE UNCHANGED vars
  BY <1>10 DEF vars
<1> QED
  BY <1>1, <1>2, <1>3, <1>4, <1>5, <1>6, <1>7, <1>8, <1>9, <1>10
     DEF Next, LooperStep, Send, Ended

-----------------------------------------------------------------------------

(* The initial states satisfy the inductive invariant. *)
LEMMA InitIInv == Init => IInv
<1> SUFFICES ASSUME Init PROVE IInv
  OBVIOUS
<1> USE ThreadFacts DEF Init
<1>1. TypeOK
  BY EmptySeq DEF TypeOK, UsesQueue
<1>2. Control
  BY DEF Control, Foreground, LooperHolds, TriggerWaits, Looper
<1>3. Chain
  BY DEF Chain, AllExit, Steps, Ids, NoMsg, START, STEP1, STEP2, EXIT
<1> QED BY <1>1, <1>2, <1>3 DEF IInv, Control

(* Every step preserves it. *)
LEMMA StepIInv == IInv /\ [Next]_vars => IInv'
BY TypeStep, ControlStep, ChainStep DEF IInv, Control

(* IInv holds throughout. *)
LEMMA Invariance == Spec => []IInv
BY InitIInv, StepIInv, PTL DEF Spec

(* Every variable keeps its type. *)
THEOREM TypeInvariant == Spec => []TypeOK
<1>1. IInv => TypeOK
  BY DEF IInv
<1> QED BY <1>1, Invariance, PTL

(* A set of positions in which any two are equal has at most one. *)
LEMMA AtMostOne ==
  ASSUME NEW n \in Nat, NEW S, S \subseteq 1..n, \A i, j \in S : i = j
  PROVE  Cardinality(S) \in 0..1 /\ (S = {} => Cardinality(S) = 0)
<1>1. CASE S = {}
  BY <1>1, FS_EmptySet
<1>2. CASE S # {}
  <2>1. PICK x \in S : TRUE
    BY <1>2
  <2>2. S = {x}
    BY <2>1
  <2> QED BY <1>2, <2>2, FS_Singleton
<1> QED BY <1>1, <1>2

(* The invariant admits one message of the chain at most. *)
LEMMA ChainIsOne == TypeOK /\ Chain => OneChain
<1> SUFFICES ASSUME TypeOK, Chain PROVE OneChain
  OBVIOUS
<1> DEFINE P == {i \in 1..Len(queue) : queue[i] # EXIT}
<1>1. Len(queue) \in Nat
  BY LenProperties DEF TypeOK
<1>2. /\ Cardinality(P) \in 0..1
      /\ AllExit => Cardinality(P) = 0
  <2>1. P \subseteq 1..Len(queue) /\ \A i, j \in P : i = j
    BY DEF Chain
  <2>2. AllExit => P = {}
    BY DEF AllExit
  <2> QED BY <1>1, <2>1, <2>2, AtMostOne
<1> QED BY <1>2 DEF OneChain, Chain, Steps

(* The chain of runtime.c stays single, however pushes, pops and signals
   interleave. *)
THEOREM ChainIsSingle == Spec => []OneChain
<1>1. IInv => OneChain
  BY ChainIsOne DEF IInv
<1> QED BY <1>1, Invariance, PTL
=============================================================================
