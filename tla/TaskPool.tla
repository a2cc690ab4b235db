------------------------------ MODULE TaskPool ------------------------------
(***************************************************************************)
(* What a task pool promises its users, without threads, locks or a ring:  *)
(* a bounded FIFO backlog; tasks leave it in order and run once; a         *)
(* graceful shutdown drains the backlog, an immediate one drops it; the    *)
(* pool closes only when no task is running.                               *)
(***************************************************************************)
EXTENDS Naturals, Sequences

CONSTANTS Tasks,     \* what can be submitted
          Capacity   \* tasks the backlog holds

VARIABLES backlog,   \* accepted and not started, oldest first
          running,   \* started and not finished
          finished,  \* whose function returned
          phase      \* "open", "draining", "dropping" or "closed"

vars == <<backlog, running, finished, phase>>

Init == backlog = <<>> /\ running = {} /\ finished = {} /\ phase = "open"

Submit(x) ==
  /\ phase = "open"
  /\ Len(backlog) < Capacity
  /\ x \notin running \cup finished
  /\ backlog' = Append(backlog, x)
  /\ UNCHANGED <<running, finished, phase>>

Start ==
  /\ phase \in {"open", "draining"}
  /\ backlog # <<>>
  /\ backlog' = Tail(backlog)
  /\ running' = running \cup {Head(backlog)}
  /\ UNCHANGED <<finished, phase>>

Finish(x) ==
  /\ x \in running
  /\ running' = running \ {x}
  /\ finished' = finished \cup {x}
  /\ UNCHANGED <<backlog, phase>>

Shutdown ==
  /\ phase = "open"
  /\ phase' \in {"draining", "dropping"}
  /\ UNCHANGED <<backlog, running, finished>>

Close ==
  /\ running = {}
  /\ \/ phase = "draining" /\ backlog = <<>>
     \/ phase = "dropping"
  /\ phase' = "closed"
  /\ UNCHANGED <<backlog, running, finished>>

(* The pool never came to be: its memory could not be had. *)
NeverOpens ==
  /\ phase = "open" /\ backlog = <<>> /\ running = {} /\ finished = {}
  /\ phase' = "closed"
  /\ UNCHANGED <<backlog, running, finished>>

Next == \/ \E x \in Tasks : Submit(x) \/ Finish(x)
        \/ Start \/ Shutdown \/ Close \/ NeverOpens

Spec == Init /\ [][Next]_vars
=============================================================================
