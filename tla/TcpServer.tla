------------------------------ MODULE TcpServer ------------------------------
(***************************************************************************)
(* The TCP servers of app_engine: a thread per server (core/net/           *)
(* appe_socket_in.c) that accepts, keeps its clients in a table of fixed   *)
(* size and calls the handler of a client's type; appe_socket_handler.c,   *)
(* which finds packets in what recv returns, in one static buffer that all *)
(* the threads use without a lock; and free_socket, which other threads    *)
(* call.                                                                   *)
(*                                                                         *)
(* Descriptors are those of the process: a closed number is handed out     *)
(* again, to any server.  s_mutex is not modelled: only the server's own   *)
(* thread ever takes it.  free_socket takes nothing: a thread that is      *)
(* inside its loop's body meanwhile, or enters it later, goes "wild",      *)
(* undefined from there (freed names and handlers, FD_ISSET(-1), a         *)
(* descriptor closed twice).                                               *)
(***************************************************************************)
EXTENDS Integers, Sequences, FiniteSets, FiniteSetsExt, Functions

CONSTANTS Servers, Clients,
          SlotCount,   \* CONNECT_MAX_REMOTE_NUM
          Types,       \* handler types registered with every server, in order
          Sends,       \* segments the clients use
          MaxSent,     \* bound: segments a client sends
          None

Slots == 1..SlotCount
(* Each client connects once: these many descriptors are enough. *)
Fds   == 1..Cardinality(Clients)

DEFAULT == "type_default"     \* HANDLER_TYPE_DEFAULT
UNKNOWN == "unknown"          \* a name no handler has
Names   == Range(Types) \cup {UNKNOWN}

(* A segment is a registration packet (id 0) with a name, any other packet,
   or the two halves of one. *)
Halves   == {"half", "rest"}
Segments == Names \cup {"data"} \cup Halves

ASSUME TypesAssumption ==
  /\ Types \in Seq(STRING) /\ Types # <<>>
  /\ Range(Types) \cap ({"data", DEFAULT, UNKNOWN} \cup Halves) = {}
ASSUME NamesAssumption ==
  /\ IsFiniteSet(Clients)
  /\ None \notin Clients \cup Servers /\ None \notin Fds /\ None \notin Names
ASSUME BoundsAssumption ==
  SlotCount \in Nat \ {0} /\ MaxSent \in Nat /\ Sends \subseteq Segments

VARIABLES server_quit,                 \* one flag for all servers
          pc, slot, ready,             \* per thread: place, i, read_fds
          got, mixed,                  \* what a thread put into the static
                                       \* buffer, and whose is no longer whole
          handlers, remote_fd, remote_name,
          quit,                        \* per server: progress of free_socket
          owner,                       \* the client behind a descriptor
          peer, conn, inbox, hungUp,   \* per client: server, stream
          sent, owed,                  \* segments sent; a half was the last
          registered,                  \* the last name a client has given
          muddled                      \* it was heard through a mixed buffer

buffer  == <<got, mixed>>
thread  == <<pc, slot, ready, buffer>>
sock    == <<handlers, remote_fd, remote_name, owner>>
stream  == <<conn, inbox, hungUp, sent, owed, registered, muddled>>
vars    == <<server_quit, thread, sock, quit, peer, stream>>

Init ==
  /\ server_quit = FALSE
  /\ pc = [s \in Servers |-> "unborn"] /\ slot = [s \in Servers |-> 1]
  /\ ready = [s \in Servers |-> {}]
  /\ got = [s \in Servers |-> <<>>] /\ mixed = {}
  /\ handlers = [s \in Servers |-> <<>>]
  /\ remote_fd = [s \in Servers |-> [i \in Slots |-> None]]
  /\ remote_name = [s \in Servers |-> [i \in Slots |-> DEFAULT]]
  /\ quit = [s \in Servers |-> "no"]
  /\ owner = [f \in Fds |-> None]
  /\ peer = [c \in Clients |-> None] /\ conn = [c \in Clients |-> "away"]
  /\ inbox = [c \in Clients |-> <<>>] /\ sent = [c \in Clients |-> 0]
  /\ owed = [c \in Clients |-> FALSE]
  /\ hungUp = [c \in Clients |-> FALSE]
  /\ registered = [c \in Clients |-> DEFAULT]
  /\ muddled = [c \in Clients |-> FALSE]

Goto(s, label) == pc' = [pc EXCEPT ![s] = label]
Wild           == \E s \in Servers : pc[s] = "wild"
Cleared(s)     == quit[s] \in {"join", "done"}

Pending(s) == {c \in Clients : conn[c] = "pending" /\ peer[c] = s}
InTable(s) == Range(remote_fd[s]) \ {None}

(* The connections of the clients in cs are closed, and with them what was on
   the way. *)
Closed(cs) ==
  /\ conn' = [c \in Clients |-> IF c \in cs THEN "closed" ELSE conn[c]]
  /\ inbox' = [c \in Clients |-> IF c \in cs THEN <<>> ELSE inbox[c]]
  /\ hungUp' = [c \in Clients |-> c \notin cs /\ hungUp[c]]
  /\ sent' = [c \in Clients |-> IF c \in cs THEN 0 ELSE sent[c]]
  /\ owed' = [c \in Clients |-> c \notin cs /\ owed[c]]
  /\ registered' = [c \in Clients |-> IF c \in cs THEN DEFAULT ELSE registered[c]]
  /\ muddled' = [c \in Clients |-> c \notin cs /\ muddled[c]]

-----------------------------------------------------------------------------
(* The application: init, register the handlers, run; quit *)

(* appe_registerHandler refuses once any server has quit. *)
InitAndRun(s) ==
  /\ pc[s] = "unborn" /\ quit[s] = "no"
  /\ handlers' = [handlers EXCEPT ![s] = IF server_quit THEN <<>> ELSE Types]
  /\ Goto(s, "start")
  /\ UNCHANGED <<server_quit, slot, ready, buffer, remote_fd, remote_name, owner, quit,
                 peer, stream>>

(* socket, setsockopt, bind or listen fails: free_socket, without a thread. *)
InitFails(s) ==
  /\ pc[s] = "unborn" /\ quit[s] = "no"
  /\ server_quit' = TRUE
  /\ quit' = [quit EXCEPT ![s] = "done"]
  /\ UNCHANGED <<thread, sock, peer, stream>>

Quit(s) ==
  /\ pc[s] # "unborn" /\ quit[s] = "no"
  /\ server_quit' = TRUE
  /\ quit' = [quit EXCEPT ![s] = "sleep"]
  /\ UNCHANGED <<thread, sock, peer, stream>>

Body == {"accept", "handle", "scan"}

(* After usleep(300000): close and free everything. *)
QuitClear(s) ==
  LET closed == InTable(s) IN
  /\ quit[s] = "sleep"
  /\ owner' = [f \in Fds |-> IF f \in closed THEN None ELSE owner[f]]
  /\ Closed(Pending(s) \cup {owner[f] : f \in closed})
  /\ remote_fd' = [remote_fd EXCEPT ![s] = [i \in Slots |-> None]]
  /\ remote_name' = [remote_name EXCEPT ![s] = [i \in Slots |-> DEFAULT]]
  /\ handlers' = [handlers EXCEPT ![s] = <<>>]
  /\ quit' = [quit EXCEPT ![s] = "join"]
  /\ IF pc[s] \in Body THEN Goto(s, "wild") ELSE UNCHANGED pc
  /\ UNCHANGED <<server_quit, slot, ready, buffer, peer>>

(* pthread_join of a thread that has detached itself returns at once; before
   that it waits, or pthread is -1 already. *)
QuitJoin(s) ==
  /\ quit[s] = "join" /\ pc[s] # "start"
  /\ quit' = [quit EXCEPT ![s] = "done"]
  /\ UNCHANGED <<server_quit, thread, sock, peer, stream>>

-----------------------------------------------------------------------------
(* The clients *)

Connect(c) ==
  /\ conn[c] = "away"
  /\ \E s \in Servers : /\ pc[s] # "unborn" /\ ~Cleared(s)
                        /\ peer' = [peer EXCEPT ![c] = s]
  /\ conn' = [conn EXCEPT ![c] = "pending"]
  /\ UNCHANGED <<server_quit, thread, sock, quit, inbox, sent, owed, hungUp, registered, muddled>>

Send(c) ==
  /\ conn[c] \in {"pending", "accepted"} /\ ~hungUp[c]
  /\ sent[c] < MaxSent
  /\ \E m \in Sends : /\ (m = "rest") <=> owed[c]
                      /\ inbox' = [inbox EXCEPT ![c] = Append(@, m)]
                      /\ owed' = [owed EXCEPT ![c] = m = "half"]
  /\ sent' = [sent EXCEPT ![c] = @ + 1]
  /\ UNCHANGED <<server_quit, thread, sock, quit, peer, conn, hungUp, registered, muddled>>

HangUp(c) ==
  /\ conn[c] \in {"pending", "accepted"} /\ ~hungUp[c]
  /\ hungUp' = [hungUp EXCEPT ![c] = TRUE]
  /\ UNCHANGED <<server_quit, thread, sock, quit, peer, conn, inbox, sent, owed, registered, muddled>>

-----------------------------------------------------------------------------
(* thread_tcp_server *)

Start(s) ==
  /\ pc[s] = "start"
  /\ server_quit' = FALSE
  /\ Goto(s, "loop")
  /\ UNCHANGED <<slot, ready, buffer, sock, quit, peer, stream>>

(* The test of the flag, then FD_ZERO and FD_SET: of -1 once cleared. *)
Loop(s) ==
  /\ pc[s] = "loop"
  /\ Goto(s, IF server_quit THEN "done" ELSE IF Cleared(s) THEN "wild" ELSE "select")
  /\ ready' = [ready EXCEPT ![s] = {}]
  /\ UNCHANGED <<server_quit, slot, buffer, sock, quit, peer, stream>>

Watched_ButLast(s) == {remote_fd[s][i] : i \in Slots \ {SlotCount}} \ {None}
Watched(s)         == InTable(s)
Readable(s)        == {f \in Watched(s) : inbox[owner[f]] # <<>> \/ hungUp[owner[f]]}

SelectReturns(s) ==
  /\ pc[s] = "select" /\ ~Cleared(s)
  /\ Pending(s) # {} \/ Readable(s) # {}
  /\ ready' = [ready EXCEPT ![s] = Readable(s)]
  /\ Goto(s, IF Pending(s) # {} THEN "accept" ELSE "handle")
  /\ UNCHANGED <<server_quit, slot, buffer, sock, quit, peer, stream>>

(* select was interrupted, or accept found the connection aborted. *)
SelectFails(s) ==
  /\ pc[s] = "select"
  /\ Goto(s, "loop")
  /\ UNCHANGED <<server_quit, slot, ready, buffer, sock, quit, peer, stream>>

(* The kernel still watches what free_socket has closed; who wakes up then
   uses it. *)
SelectCleared(s) ==
  /\ pc[s] = "select" /\ Cleared(s)
  /\ Goto(s, "wild")
  /\ UNCHANGED <<server_quit, slot, ready, buffer, sock, quit, peer, stream>>

(* accept and add_client: the first free slot; without one the descriptor
   stays open and in no table. *)
Accept(s) ==
  LET fd   == Min({f \in Fds : owner[f] = None})
      free == {i \in Slots : remote_fd[s][i] = None}
  IN
  /\ pc[s] = "accept"
  /\ \E c \in Pending(s) : /\ owner' = [owner EXCEPT ![fd] = c]
                           /\ conn' = [conn EXCEPT ![c] = "accepted"]
  /\ remote_fd' = IF free = {} THEN remote_fd
                  ELSE [remote_fd EXCEPT ![s][Min(free)] = fd]
  /\ Goto(s, "loop")
  /\ UNCHANGED <<server_quit, slot, ready, buffer, handlers, remote_name, quit, peer,
                 inbox, sent, owed, hungUp, registered, muddled>>

findHandlerByName_First(s, name) ==
  IF handlers[s] # <<>> /\ name \in {DEFAULT, handlers[s][1]} THEN handlers[s][1] ELSE None

(* The default name is every handler's: the first one gets it. *)
findHandlerByName(s, name) ==
  CASE handlers[s] # <<>> /\ name = DEFAULT -> handlers[s][1]
    [] name \in Range(handlers[s])          -> name
    [] OTHER                                -> None

(* for (i = 0; i < CONNECT_MAX_REMOTE_NUM; i++) *)
NextSlot_OneMore(s) ==
  IF slot[s] <= SlotCount
  THEN slot' = [slot EXCEPT ![s] = @ + 1] /\ Goto(s, "handle")
  ELSE slot' = [slot EXCEPT ![s] = 1] /\ Goto(s, "loop")
NextSlot(s) ==
  IF slot[s] < SlotCount
  THEN slot' = [slot EXCEPT ![s] = @ + 1] /\ Goto(s, "handle")
  ELSE slot' = [slot EXCEPT ![s] = 1] /\ Goto(s, "loop")

restore_remote_KeepsFd(s, i) ==
  /\ owner' = [owner EXCEPT ![remote_fd[s][i]] = None]
  /\ Closed({owner[remote_fd[s][i]]})
  /\ remote_name' = [remote_name EXCEPT ![s][i] = DEFAULT]
  /\ UNCHANGED remote_fd
restore_remote_KeepsName(s, i) ==
  /\ owner' = [owner EXCEPT ![remote_fd[s][i]] = None]
  /\ Closed({owner[remote_fd[s][i]]})
  /\ remote_fd' = [remote_fd EXCEPT ![s][i] = None]
  /\ UNCHANGED remote_name
restore_remote(s, i) ==
  /\ owner' = [owner EXCEPT ![remote_fd[s][i]] = None]
  /\ Closed({owner[remote_fd[s][i]]})
  /\ remote_fd' = [remote_fd EXCEPT ![s][i] = None]
  /\ remote_name' = [remote_name EXCEPT ![s][i] = DEFAULT]

AtSlot(s)  == pc[s] = "handle" /\ remote_fd[s][slot[s]] \in ready[s]
Current(s) == owner[remote_fd[s][slot[s]]]
Heard(s)   == findHandlerByName(s, remote_name[s][slot[s]]) # None

SkipSlot(s) ==
  /\ pc[s] = "handle" /\ ~AtSlot(s)
  /\ NextSlot(s)
  /\ UNCHANGED <<server_quit, ready, buffer, sock, quit, peer, stream>>

NoHandler(s) ==
  /\ AtSlot(s) /\ ~Heard(s)
  /\ restore_remote(s, slot[s])
  /\ NextSlot(s)
  /\ UNCHANGED <<server_quit, ready, buffer, handlers, quit, peer>>

(* appe_handler_proc_stub: recv takes some of what has arrived.  Who is between
   its own recv and the end of its scan finds other bytes from now on; so may
   this thread, when the two calls overlap. *)
Scanning == {t \in Servers : pc[t] = "scan"}
Recv(s) ==
  LET c == Current(s) IN
  /\ AtSlot(s) /\ Heard(s)
  /\ \E n \in 1..Len(inbox[c]) :
       /\ got' = [got EXCEPT ![s] = SubSeq(inbox[c], 1, n)]
       /\ inbox' = [inbox EXCEPT ![c] = SubSeq(@, n + 1, Len(@))]
  /\ \E overlap \in IF Scanning = {} THEN {{}} ELSE SUBSET {s} :
       mixed' = Scanning \cup overlap
  /\ Goto(s, "scan")
  /\ UNCHANGED <<server_quit, slot, ready, sock, quit, peer, conn, sent, owed, hungUp,
                 registered, muddled>>

(* Where complete packets end in what was received. *)
Ends(segments) ==
  {j \in DOMAIN segments : \/ segments[j] \notin Halves
                           \/ segments[j] = "rest" /\ j > 1 /\ segments[j - 1] = "half"}
Last(segments) == segments[Max(Ends(segments))]

Scan(s) == /\ pc[s] = "scan"
           /\ got' = [got EXCEPT ![s] = <<>>]
           /\ NextSlot(s)
           /\ UNCHANGED <<server_quit, ready, handlers, quit, peer>>

(* appe_default_handler: a registration names the client, known or not. *)
Register(s, name) == remote_name' = [remote_name EXCEPT ![s][slot[s]] = name]

(* Every packet found is copied over the one before it: the last one is handed
   to its proc, with the tail of a longer one if there is any.  Bytes after the
   last packet are dropped: start is local.  The proc's result is ignored. *)
ScanFinds(s) ==
  LET last == Last(got[s]) IN
  /\ Scan(s) /\ s \notin mixed
  /\ Ends(got[s]) # {}
  /\ \E name \in IF Cardinality(Ends(got[s])) > 1 THEN {last, UNKNOWN} ELSE {last} :
       IF last \in Names
       THEN /\ Register(s, name)
            /\ registered' = [registered EXCEPT ![Current(s)] = name]
            /\ muddled' = [muddled EXCEPT ![Current(s)] = FALSE]
       ELSE UNCHANGED <<remote_name, registered, muddled>>
  /\ UNCHANGED <<mixed, remote_fd, owner, conn, inbox, sent, owed, hungUp>>

(* No packet is complete: start becomes the size of the whole buffer, the next
   recv asks for nothing and returns 0, or times out and an empty registration
   is refused.  Either way the connection is closed. *)
ScanFindsNone(s) ==
  /\ Scan(s) /\ s \notin mixed
  /\ Ends(got[s]) = {}
  /\ restore_remote(s, slot[s])
  /\ UNCHANGED mixed

(* The bytes are partly another server's: any packet may come of them, or none.
   The memmove of what is left disturbs whoever scans. *)
ScanMixed(s) ==
  /\ Scan(s) /\ s \in mixed
  /\ \/ restore_remote(s, slot[s])
     \/ /\ \/ \E name \in (Names \cap Sends) \cup {UNKNOWN} : Register(s, name)
           \/ UNCHANGED remote_name
        /\ registered' = IF Ends(got[s]) # {} /\ Last(got[s]) \in Names
                         THEN [registered EXCEPT ![Current(s)] = Last(got[s])]
                         ELSE registered
        /\ muddled' = [muddled EXCEPT ![Current(s)] = TRUE]
        /\ UNCHANGED <<remote_fd, owner, conn, inbox, sent, owed, hungUp>>
  /\ mixed' \in {mixed \ {s}, Scanning \ {s}}

RecvEnd_Ignored(s) ==
  /\ AtSlot(s) /\ Heard(s)
  /\ inbox[Current(s)] = <<>>
  /\ NextSlot(s)
  /\ UNCHANGED <<server_quit, ready, buffer, sock, quit, peer, stream>>

(* recv returns 0: the remote quit. *)
RecvEnd(s) ==
  /\ AtSlot(s) /\ Heard(s)
  /\ inbox[Current(s)] = <<>>
  /\ restore_remote(s, slot[s])
  /\ NextSlot(s)
  /\ UNCHANGED <<server_quit, ready, buffer, handlers, quit, peer>>

-----------------------------------------------------------------------------
Application(s) == InitAndRun(s) \/ InitFails(s) \/ Quit(s) \/ QuitClear(s) \/ QuitJoin(s)
ThreadStep(s)  == \/ Start(s) \/ Loop(s) \/ Accept(s) \/ SkipSlot(s) \/ NoHandler(s)
                  \/ Recv(s) \/ RecvEnd(s)
                  \/ ScanFinds(s) \/ ScanFindsNone(s) \/ ScanMixed(s)

Ended == (Wild \/ \A s \in Servers : pc[s] \in {"unborn", "done", "select"}) /\ UNCHANGED vars

Next == \/ /\ ~Wild
           /\ \/ \E s \in Servers : \/ Application(s) \/ ThreadStep(s)
                                    \/ SelectReturns(s) \/ SelectFails(s) \/ SelectCleared(s)
              \/ \E c \in Clients : Connect(c) \/ Send(c) \/ HangUp(c)
        \/ Ended

(* A thread runs; a select that has something to report is not interrupted
   for ever; nobody has to connect, send or quit. *)
Fairness == \A s \in Servers : /\ WF_vars(~Wild /\ ThreadStep(s))
                               /\ SF_vars(~Wild /\ SelectReturns(s))

Spec == Init /\ [][Next]_vars
FairSpec == Spec /\ Fairness

-----------------------------------------------------------------------------
(* Properties *)

TypeOK ==
  /\ server_quit \in BOOLEAN
  /\ pc \in [Servers -> {"unborn", "start", "loop", "select", "accept", "handle",
                         "scan", "done", "wild"}]
  /\ slot \in [Servers -> Slots] /\ ready \in [Servers -> SUBSET Fds]
  /\ got \in [Servers -> Seq(Segments)] /\ mixed \subseteq Servers
  /\ handlers \in [Servers -> {<<>>, Types}]
  /\ remote_fd \in [Servers -> [Slots -> Fds \cup {None}]]
  /\ remote_name \in [Servers -> [Slots -> Names \cup {DEFAULT}]]
  /\ quit \in [Servers -> {"no", "sleep", "join", "done"}]
  /\ owner \in [Fds -> Clients \cup {None}]
  /\ peer \in [Clients -> Servers \cup {None}]
  /\ conn \in [Clients -> {"away", "pending", "accepted", "closed"}]
  /\ inbox \in [Clients -> Seq(Segments)] /\ sent \in [Clients -> 0..MaxSent]
  /\ owed \in [Clients -> BOOLEAN] /\ hungUp \in [Clients -> BOOLEAN]
  /\ registered \in [Clients -> Names \cup {DEFAULT}]
  /\ muddled \in [Clients -> BOOLEAN]

Places == Servers \X Slots
Fd(p)  == remote_fd[p[1]][p[2]]

(* A descriptor in a table is open and is that of a client of the same server,
   and it is in no other table, although numbers are reused by all servers as
   connections come and go and servers quit. *)
TablesHoldOwnClients ==
  ~Wild =>
    \A p \in Places : Fd(p) # None =>
      /\ owner[Fd(p)] # None /\ peer[owner[Fd(p)]] = p[1]
      /\ \A q \in Places \ {p} : Fd(q) # Fd(p)

(* A client is known by the name it gave on its own connection, not by that of
   the one whose slot it got (include/core/net/appe_socket_in.h:85-90), unless
   another server received while what it sent was scanned. *)
NameIsClients ==
  ~Wild => \A p \in Places : Fd(p) # None =>
             \/ muddled[owner[Fd(p)]]
             \/ remote_name[p[1]][p[2]] = registered[owner[Fd(p)]]

(* The same without the exception: "remote_name is the key that the client
   passed" (appe_socket_in.h:85).  With two servers the static buffer of
   appe_socket_handler.c:152 refutes it. *)
KeyIsFromClient ==
  ~Wild => \A p \in Places : Fd(p) # None =>
             remote_name[p[1]][p[2]] = registered[owner[Fd(p)]]

(* "close the socket, because remote has shutdown" (appe_socket_in.c:281): a
   client whose name has a handler is closed only after it hung up, or when
   its server quits, unless another server received while what it sent was
   scanned. *)
ClosedOnlyIfRemoteQuit ==
  [][\A c \in Clients :
       /\ conn[c] = "accepted" /\ conn'[c] = "closed"
       /\ quit[peer[c]] = quit'[peer[c]]
       /\ handlers[peer[c]] # <<>> /\ registered[c] # UNKNOWN
       /\ ~muddled[c] /\ peer[c] \notin mixed
       => hungUp[c]]_vars

Stopped(s) == Wild \/ pc[s] = "done" \/ quit[s] # "no"

(* The slot of a client that hung up is given back, although accepts are always
   served first, unless the server stops. *)
HungUpIsFreed ==
  \A s \in Servers, i \in Slots, c \in Clients :
    remote_fd[s][i] # None /\ owner[remote_fd[s][i]] = c /\ hungUp[c]
      ~> conn[c] = "closed" \/ Stopped(s)

(* What a client in the table has sent is received, or it is closed, unless
   its server stops. *)
UnreadIsRead ==
  \A s \in Servers, f \in Fds, c \in Clients :
    f \in InTable(s) /\ owner[f] = c /\ inbox[c] # <<>>
      ~> inbox[c] = <<>> \/ conn[c] = "closed" \/ Stopped(s)
=============================================================================
