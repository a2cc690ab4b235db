----------------------------- MODULE AppRuntime -----------------------------
(***************************************************************************)
(* The life of an app_engine program: main() runs the App, a detached      *)
(* trigger thread posts MSG_ON_START, a looper (a detached thread, or main  *)
(* itself) pops messages and hands them to the handler of runtime.c, whose *)
(* three steps post each other for ever, and the signal handler            *)
(* except_quit posts MSG_ON_EXIT from whatever thread it interrupts.       *)
(*                                                                         *)
(* A signal handler is a thread of its own that suspends its victim.       *)
(* A thread that uses the queue's mutex, condition or list after they were *)
(* destroyed goes "wild": undefined from there.                            *)
(***************************************************************************)
EXTENDS Integers, Sequences, FiniteSets, Functions

CONSTANTS Signals,   \* those with except_quit installed, each raised once:
                     \* it puts SIG_DFL back, a second one kills the process
          Nobody     \* owner of a free mutex, victim of a signal not raised

main    == "main"
trigger == "trigger"
loop    == "loop"
Threads == {main, trigger, loop} \cup Signals

ASSUME SignalsAssumption ==
  Signals \cap {main, trigger, loop} = {} /\ Nobody \notin Threads

VARIABLES mode,        \* how the program is set up
          pc, victim,
          mutex, live, waiting, queue,   \* the message queue
          inHand,                        \* the looper's msg
          handlerSet,                    \* s_message_handler is filled in
          loopRunning, looperQuit, quitApp, crashed

sync    == <<mutex, live, waiting>>
flags   == <<handlerSet, loopRunning, looperQuit, quitApp, crashed>>
vars    == <<mode, pc, victim, sync, queue, inHand, flags>>

START == "MSG_ON_START"
EXIT  == "MSG_ON_EXIT"
STEP1 == "MSG_SEP_1"
STEP2 == "MSG_SEP_2"
Ids   == {START, STEP1, STEP2, EXIT}
NoMsg == "NULL"

(* thread: RUNTIME_LOOP_THREAD; process: app->onProcess is set. *)
Modes == [thread : BOOLEAN, process : BOOLEAN]

Looper == IF mode.thread THEN loop ELSE main

Init ==
  /\ mode \in Modes
  /\ pc = [t \in Threads |-> IF t = main THEN "run"
                             ELSE IF t \in Signals THEN "pending" ELSE "unborn"]
  /\ victim = [s \in Signals |-> Nobody]
  /\ mutex = Nobody /\ live = TRUE /\ waiting = FALSE
  /\ queue = <<>> /\ inHand = NoMsg
  /\ handlerSet = FALSE /\ loopRunning = FALSE /\ looperQuit = FALSE
  /\ quitApp = FALSE /\ crashed = FALSE

Over         == pc[main] = "returned" \/ crashed
Suspended(t) == t \in Range(victim)
At(t, label) == pc[t] = label /\ ~Suspended(t) /\ ~Over
Goto(t, label) == pc' = [pc EXCEPT ![t] = label]

-----------------------------------------------------------------------------
(* main: run() and quit() *)

(* trigger_message, then start_background_loop or start_foreground_loop. *)
Run ==
  /\ At(main, "run")
  /\ pc' = [pc EXCEPT ![trigger] = "setup",
                      ![main] = IF mode.thread THEN "waitLoop" ELSE "test",
                      ![loop] = IF mode.thread THEN "enter" ELSE "unborn"]
  /\ UNCHANGED <<mode, victim, sync, queue, inHand, flags>>

(* Polls s_loop_thread_running; the usleep(200000) after it waits for nobody. *)
LoopStarted ==
  /\ At(main, "waitLoop")
  /\ loopRunning
  /\ Goto(main, IF mode.process THEN "process" ELSE "quit")
  /\ UNCHANGED <<mode, victim, sync, queue, inHand, flags>>

(* onProcess returned non-zero, or it returned and g_quit_app is set. *)
ProcessEnds ==
  /\ At(main, "process")
  /\ Goto(main, "send")
  /\ UNCHANGED <<mode, victim, sync, queue, inHand, flags>>

(* usleep(1000) after MSG_ON_EXIT is posted: it ends, or a signal cuts it
   short, wherever the looper is. *)
SleepEnds ==
  /\ At(main, "sleep")
  /\ Goto(main, "quit")
  /\ UNCHANGED <<mode, victim, sync, queue, inHand, flags>>

(* onDestory, and the task manager's graceful threadpool_destroy. *)
TasksDone ==
  /\ At(main, "quit")
  /\ Goto(main, "destroy")
  /\ UNCHANGED <<mode, victim, sync, queue, inHand, flags>>

DestroyLock ==
  /\ At(main, "destroy")
  /\ mutex = Nobody
  /\ mutex' = main
  /\ Goto(main, "free")
  /\ UNCHANGED <<mode, victim, live, waiting, queue, inHand, flags>>

FreeList ==
  /\ At(main, "free")
  /\ queue' = <<>>
  /\ waiting' = FALSE
  /\ mutex' = Nobody
  /\ Goto(main, "unlocked")
  /\ UNCHANGED <<mode, victim, live, inHand, flags>>

DestroyQueue ==
  /\ At(main, "unlocked")
  /\ live' = FALSE
  /\ Goto(main, "exitLooper")
  /\ UNCHANGED <<mode, victim, mutex, waiting, queue, inHand, flags>>

LooperExit ==
  /\ At(main, "exitLooper")
  /\ looperQuit' = TRUE
  /\ Goto(main, "closeNet")
  /\ UNCHANGED <<mode, victim, sync, queue, inHand, handlerSet, loopRunning,
                 quitApp, crashed>>

(* The tcp groups and the logger go; main returns, every thread ends. *)
Return ==
  /\ At(main, "closeNet")
  /\ Goto(main, "returned")
  /\ UNCHANGED <<mode, victim, sync, queue, inHand, flags>>

-----------------------------------------------------------------------------
(* thread_runtime, and the start of thread_loop *)

SetHandler ==
  /\ At(trigger, "setup")
  /\ handlerSet' = TRUE
  /\ Goto(trigger, "send")
  /\ UNCHANGED <<mode, victim, sync, queue, inHand, loopRunning, looperQuit,
                 quitApp, crashed>>

EnterLoop ==
  /\ At(loop, "enter")
  /\ loopRunning' = TRUE
  /\ Goto(loop, "test")
  /\ UNCHANGED <<mode, victim, sync, queue, inHand, handlerSet, looperQuit,
                 quitApp, crashed>>

(* except_quit interrupts t, or the handler of another signal that runs on
   it.  The app exists. *)
Raise(s) ==
  /\ pc[s] = "pending" /\ ~Over
  /\ \E t \in Threads \ {s} :
       /\ pc[t] \notin {"unborn", "pending", "done", "wild"} /\ ~Suspended(t)
       /\ victim' = [victim EXCEPT ![s] = t]
  /\ quitApp' = TRUE
  /\ Goto(s, "send")
  /\ UNCHANGED <<mode, sync, queue, inHand, handlerSet, loopRunning, looperQuit,
                 crashed>>

-----------------------------------------------------------------------------
(* appe_trans_message and appe_message_queue_push *)

FollowUp_Unknown == [m \in {START, STEP1, STEP2} |->
                       CASE m = START -> STEP1 [] m = STEP1 -> STEP2
                         [] m = STEP2 -> "MSG_SEP_3"]
FollowUp == [m \in {START, STEP1, STEP2} |->
               CASE m = START -> STEP1 [] m = STEP1 -> STEP2 [] m = STEP2 -> START]

Outgoing(t) == CASE t = trigger -> START
                 [] t = Looper  -> FollowUp[inHand]
                 [] OTHER       -> EXIT

(* send_message is NULL until thread_runtime has filled it in. *)
SendNull(t) ==
  /\ At(t, "send") /\ ~handlerSet
  /\ crashed' = TRUE
  /\ UNCHANGED <<mode, pc, victim, sync, queue, inHand, handlerSet, loopRunning,
                 looperQuit, quitApp>>

PushLock(t) ==
  /\ At(t, "send") /\ handlerSet /\ live
  /\ mutex = Nobody
  /\ mutex' = t
  /\ Goto(t, "push")
  /\ UNCHANGED <<mode, victim, live, waiting, queue, inHand, flags>>

(* Append, signal, unlock; the looper frees the message it handled, a signal
   handler returns to its victim. *)
Push(t) ==
  /\ At(t, "push") /\ live
  /\ queue' = Append(queue, Outgoing(t))
  /\ waiting' = FALSE
  /\ mutex' = Nobody
  /\ inHand' = IF t = Looper THEN NoMsg ELSE inHand
  /\ victim' = IF t \in Signals THEN [victim EXCEPT ![t] = Nobody] ELSE victim
  /\ Goto(t, IF t = Looper THEN "test" ELSE IF t = main THEN "sleep" ELSE "done")
  /\ UNCHANGED <<mode, live, flags>>

-----------------------------------------------------------------------------
(* appe_looper_run and appe_message_queue_pop *)

TestQuit ==
  /\ At(Looper, "test")
  /\ Goto(Looper, IF ~looperQuit THEN "popLock"
                  ELSE IF mode.thread THEN "done" ELSE "quit")
  /\ UNCHANGED <<mode, victim, sync, queue, inHand, flags>>

PopLock ==
  /\ At(Looper, "popLock") /\ live
  /\ mutex = Nobody
  /\ mutex' = Looper
  /\ Goto(Looper, "popWait")
  /\ UNCHANGED <<mode, victim, live, waiting, queue, inHand, flags>>

(* pthread_cond_timedwait, whether or not the list is empty. *)
PopWait ==
  /\ At(Looper, "popWait") /\ live
  /\ waiting' = TRUE
  /\ mutex' = Nobody
  /\ Goto(Looper, "waiting")
  /\ UNCHANGED <<mode, victim, live, queue, inHand, flags>>

(* tv_nsec + COND_TIMEOUT may reach a second: EINVAL, without a wait. *)
PopNoWait ==
  /\ At(Looper, "popWait") /\ live
  /\ Goto(Looper, "remove")
  /\ UNCHANGED <<mode, victim, sync, queue, inHand, flags>>

Timeout_Never == FALSE /\ UNCHANGED vars

(* COND_TIMEOUT passes. *)
Timeout ==
  /\ pc[Looper] = "waiting" /\ waiting /\ ~Over
  /\ waiting' = FALSE
  /\ UNCHANGED <<mode, pc, victim, mutex, live, queue, inHand, flags>>

PopWake ==
  /\ At(Looper, "waiting") /\ live
  /\ ~waiting /\ mutex = Nobody
  /\ mutex' = Looper
  /\ Goto(Looper, "remove")
  /\ UNCHANGED <<mode, victim, live, waiting, queue, inHand, flags>>

Remove_KeepsLock ==
  /\ At(Looper, "remove") /\ live
  /\ IF queue = <<>>
     THEN Goto(Looper, "test") /\ UNCHANGED <<mutex, queue, inHand>>
     ELSE /\ mutex' = Nobody
          /\ inHand' = Head(queue) /\ queue' = Tail(queue)
          /\ Goto(Looper, "handle")
  /\ UNCHANGED <<mode, victim, live, waiting, flags>>

Remove_KeepsHead ==
  /\ At(Looper, "remove") /\ live
  /\ mutex' = Nobody
  /\ IF queue = <<>>
     THEN Goto(Looper, "test") /\ UNCHANGED inHand
     ELSE inHand' = Head(queue) /\ Goto(Looper, "handle")
  /\ UNCHANGED <<mode, victim, live, waiting, queue, flags>>

Remove ==
  /\ At(Looper, "remove") /\ live
  /\ mutex' = Nobody
  /\ IF queue = <<>>
     THEN Goto(Looper, "test") /\ UNCHANGED <<queue, inHand>>
     ELSE /\ inHand' = Head(queue) /\ queue' = Tail(queue)
          /\ Goto(Looper, "handle")
  /\ UNCHANGED <<mode, victim, live, waiting, flags>>

HandleExit_Ignored ==
  /\ At(Looper, "handle") /\ inHand = EXIT
  /\ inHand' = NoMsg
  /\ Goto(Looper, "test")
  /\ UNCHANGED <<mode, victim, sync, queue, flags>>

HandleExit ==
  /\ At(Looper, "handle") /\ inHand = EXIT
  /\ looperQuit' = TRUE
  /\ inHand' = NoMsg
  /\ Goto(Looper, IF mode.thread THEN "done" ELSE "quit")
  /\ UNCHANGED <<mode, victim, sync, queue, handlerSet, loopRunning, quitApp, crashed>>

(* handler_message: each step ends in posting the next. *)
Handle ==
  /\ At(Looper, "handle") /\ inHand # EXIT
  /\ Goto(Looper, "send")
  /\ UNCHANGED <<mode, victim, sync, queue, inHand, flags>>

UsesQueue == {"send", "push", "popLock", "popWait", "waiting", "remove"}

TouchDestroyed(t) ==
  /\ pc[t] \in UsesQueue /\ ~Suspended(t) /\ ~Over
  /\ ~live
  /\ pc[t] = "send" => handlerSet
  /\ Goto(t, "wild")
  /\ UNCHANGED <<mode, victim, sync, queue, inHand, flags>>

-----------------------------------------------------------------------------
MainStep == \/ Run \/ LoopStarted \/ SleepEnds \/ TasksDone
            \/ FreeList \/ DestroyQueue \/ LooperExit \/ Return
LooperStep == \/ TestQuit \/ PopWait \/ PopNoWait \/ Remove \/ HandleExit \/ Handle
Send(t) == SendNull(t) \/ Push(t) \/ TouchDestroyed(t)

(* A handler that waits for the mutex its own victim holds. *)
SelfDeadlock == \E s \in Signals : pc[s] = "send" /\ handlerSet /\ victim[s] = mutex
Wild == \E t \in Threads : pc[t] = "wild"

Ended == /\ Over \/ SelfDeadlock \/ Wild
         /\ UNCHANGED vars

Next == \/ MainStep \/ ProcessEnds \/ DestroyLock
        \/ SetHandler \/ EnterLoop
        \/ LooperStep \/ Timeout \/ PopLock \/ PopWake
        \/ \E t \in Threads : Send(t) \/ PushLock(t)
        \/ \E s \in Signals : Raise(s)
        \/ Ended

(* Every thread runs, timed waits expire, a mutex is granted in the end; a
   call of onProcess returns, but only g_quit_app forces it to be the last. *)
Fairness ==
  /\ WF_vars(MainStep) /\ WF_vars(quitApp /\ ProcessEnds) /\ SF_vars(DestroyLock)
  /\ WF_vars(SetHandler) /\ WF_vars(EnterLoop)
  /\ WF_vars(LooperStep) /\ WF_vars(Timeout) /\ SF_vars(PopLock) /\ SF_vars(PopWake)
  /\ \A t \in Threads : WF_vars(Send(t)) /\ SF_vars(PushLock(t))

Spec == Init /\ [][Next]_vars
FairSpec == Spec /\ Fairness

-----------------------------------------------------------------------------
(* Properties *)

TypeOK ==
  /\ mode \in Modes
  /\ pc \in [Threads -> UsesQueue \cup
               {"run", "waitLoop", "process", "sleep", "quit", "destroy", "free",
                "unlocked", "exitLooper", "closeNet", "returned", "unborn", "setup",
                "enter", "test", "handle", "pending", "done", "wild"}]
  /\ victim \in [Signals -> Threads \cup {Nobody}]
  /\ mutex \in Threads \cup {Nobody}
  /\ queue \in Seq(Ids) /\ inHand \in Ids \cup {NoMsg}
  /\ {live, waiting, handlerSet, loopRunning, looperQuit, quitApp, crashed}
       \subseteq BOOLEAN

(* The chain of runtime.c:887-921 stays a single chain: START, SEP_1 and
   SEP_2 together exist at most once, posted, popped or being sent, however
   pushes, pops and signals interleave. *)
OneChain ==
  LET unsent == IF pc[trigger] \in {"setup", "send", "push"} THEN 1 ELSE 0
      held   == IF inHand \in Ids \ {EXIT} THEN 1 ELSE 0
      posted == Cardinality({i \in 1..Len(queue) : queue[i] # EXIT})
  IN unsent + held + posted <= 1

(* A posted message is popped although its signal may find nobody waiting
   (pop waits without testing the list first), unless the looper was told to
   quit or the program is beyond saving. *)
PostedIsPopped ==
  \A m \in Ids : m \in Range(queue) ~>
                   m \notin Range(queue) \/ looperQuit \/ Over \/ SelfDeadlock \/ Wild

(* After a signal the program ends, whichever thread took the signal and in
   whatever phase, except when the handler waits for a mutex its own thread
   holds (main.c:61-62) or a thread met the destroyed queue. *)
SignalEndsApp == quitApp ~> Over \/ SelfDeadlock \/ Wild

(* Whoever takes the queue's mutex gives it back (appe_message_queue.c:37-143),
   also a thread that a signal suspends in its critical section and one whose
   wait times out or fails; the one exception is the handler that waits for
   the mutex of its own victim (main.c:61-62). *)
MutexIsReleased ==
  mutex # Nobody ~> mutex = Nobody \/ Over \/ SelfDeadlock \/ Wild

(* Not checked by a run that passes, AppRuntimeQuit.cfg refutes it: the thread
   loop never meets the queue that quit destroyed.  The usleep(1000) of
   appe_app.c:145 is no guarantee of it. *)
QueueOutlivesLooper == mode.thread => pc[loop] # "wild"
=============================================================================
