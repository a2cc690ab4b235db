--------------------------- MODULE TcpServerProofs ---------------------------
(***************************************************************************)
(* Proofs about TcpServer for every number of servers, clients, slots and  *)
(* handler types.  While no thread is wild, IInv is inductive; a step from *)
(* a wild state changes nothing.                                           *)
(***************************************************************************)
EXTENDS TcpServer, SequenceTheorems, FiniteSetTheorems, TLAPS

(* Two descriptors are never of one connection. *)
OwnersDiffer ==
  \A f, g \in Fds : owner[f] = owner[g] /\ owner[f] # None => f = g
OwnersAccepted ==
  \A f \in Fds : owner[f] # None => conn[owner[f]] = "accepted"
(* Who has not been accepted has given no name, and a free slot keeps none. *)
FreshAreNameless ==
  \A c \in Clients : conn[c] \in {"away", "pending"} => registered[c] = DEFAULT
FreeSlotsAreNameless ==
  \A s \in Servers, i \in Slots : remote_fd[s][i] = None => remote_name[s][i] = DEFAULT
(* A descriptor in a slot is open, of a client of the server, by whose name the
   slot goes if that was heard undisturbed, and in no other slot of any server. *)
SlotsHoldOwnClients ==
  \A s \in Servers, i \in Slots : remote_fd[s][i] # None =>
    /\ owner[remote_fd[s][i]] # None /\ peer[owner[remote_fd[s][i]]] = s
    /\ \/ muddled[owner[remote_fd[s][i]]]
       \/ remote_name[s][i] = registered[owner[remote_fd[s][i]]]
    /\ \A t \in Servers, j \in Slots : remote_fd[t][j] = remote_fd[s][i] => t = s /\ j = i

Tables == /\ OwnersDiffer /\ OwnersAccepted /\ FreshAreNameless
          /\ FreeSlotsAreNameless /\ SlotsHoldOwnClients
(* Who scans does so for an open descriptor. *)
ScansItsSlot == \A s \in Servers : pc[s] = "scan" => remote_fd[s][slot[s]] # None
IInv == TypeOK /\ (~Wild => Tables /\ ScansItsSlot)

(* What a server has yet to handle of what select reported can be read. *)
Ahead(s, i) == \/ pc[s] = "handle" /\ i >= slot[s]
               \/ pc[s] = "scan" /\ i > slot[s]
ReadyIsReadable ==
  \A s \in Servers, i \in Slots :
    Ahead(s, i) /\ remote_fd[s][i] \in ready[s] =>
      inbox[owner[remote_fd[s][i]]] # <<>> \/ hungUp[owner[remote_fd[s][i]]]
InboxesAreSent == inbox \in [Clients -> Seq(Sends)]
GotIsSent == \A s \in Servers : pc[s] = "scan" => got[s] \in Seq(Sends) /\ got[s] # <<>>

-----------------------------------------------------------------------------
(* A set of natural numbers has a least one: the least of the intervals that
   end in it. *)
LEMMA MinIsMember ==
  ASSUME NEW S \in SUBSET Nat, S # {}
  PROVE  Min(S) \in S
<1> DEFINE upTo == {1..n : n \in S}
<1>1. upTo \subseteq FiniteSubsetsOf(Nat) /\ upTo # {}
  <2>1. \A n \in S : IsFiniteSet(1..n) /\ 1..n \in SUBSET Nat
    BY FS_Interval
  <2> QED BY <2>1 DEF FiniteSubsetsOf
<1>2. PICK I \in upTo : \A J \in upTo : <<J, I>> \notin StrictSubsetOrdering(Nat)
  <2> HIDE DEF upTo
  <2> QED BY <1>1, FS_StrictSubsetOrderingWellFounded, WFMin
<1>3. PICK m \in S : I = 1..m
  OBVIOUS
<1>4. ASSUME NEW n \in S, n < m
      PROVE  FALSE
  <2>1. 1..n \in SUBSET Nat /\ 1..m \in SUBSET Nat /\ 1..n \subseteq 1..m
    BY <1>4
  <2>2. m \in 1..m /\ m \notin 1..n
    BY <1>4
  <2>3. <<1..n, 1..m>> \in StrictSubsetOrdering(Nat)
    BY <2>1, <2>2 DEF StrictSubsetOrdering
  <2> QED BY <1>2, <1>3, <2>3
<1>5. m \in S /\ \A n \in S : m <= n
  BY <1>4
<1> QED BY <1>5 DEF Min

(* The descriptors are numbered, and there are as many as clients. *)
LEMMA FdFacts ==
  /\ Fds \subseteq Nat /\ Cardinality(Clients) \in Nat
  /\ None \notin Fds /\ None \notin Clients /\ None \notin Servers
  /\ IsFiniteSet(Fds) /\ Cardinality(Fds) = Cardinality(Clients)
<1>1. Cardinality(Clients) \in Nat
  BY NamesAssumption, FS_CardinalityType
<1>2. IsFiniteSet(Fds) /\ Cardinality(Fds) = Cardinality(Clients)
  BY <1>1, FS_Interval DEF Fds
<1> QED BY <1>1, <1>2, NamesAssumption DEF Fds

(* While a client waits to be accepted there is a descriptor left for it: the
   open ones belong to other clients, one each. *)
FreeFds == {f \in Fds : owner[f] = None}
LEMMA FdIsLeft ==
  ASSUME TypeOK, OwnersDiffer, OwnersAccepted,
         NEW c \in Clients, conn[c] = "pending"
  PROVE  Min(FreeFds) \in FreeFds
<1>1. ASSUME FreeFds = {} PROVE FALSE
  <2>1. owner \in [Fds -> Clients \ {c}]
    <3>1. \A f \in Fds : owner[f] # None /\ owner[f] \in Clients \cup {None}
      BY <1>1 DEF FreeFds, TypeOK
    <3>2. \A f \in Fds : owner[f] # c
      BY <3>1 DEF OwnersAccepted
    <3> QED BY <3>1, <3>2 DEF TypeOK
  <2>2. IsFiniteSet(Clients \ {c}) /\ Cardinality(Clients \ {c}) < Cardinality(Fds)
    <3>1. Cardinality(Clients \ {c}) = Cardinality(Clients) - 1
      BY NamesAssumption, FS_RemoveElement
    <3> QED BY <3>1, FdFacts, NamesAssumption, FS_RemoveElement
  <2>3. \E f, g \in Fds : f # g /\ owner[f] = owner[g]
    <3>1. IsFiniteSet(Fds)
      BY FdFacts
    <3> QED BY <2>1, <2>2, <3>1, FS_PigeonHole
  <2> QED BY <2>3, <1>1 DEF OwnersDiffer, FreeFds
<1> QED BY <1>1, MinIsMember, FdFacts DEF FreeFds

-----------------------------------------------------------------------------
(* Every step keeps the variables in their types. *)
ClientTypes ==
  /\ peer \in [Clients -> Servers \cup {None}]
  /\ conn \in [Clients -> {"away", "pending", "accepted", "closed"}]
  /\ inbox \in [Clients -> Seq(Segments)] /\ sent \in [Clients -> 0..MaxSent]
  /\ owed \in [Clients -> BOOLEAN] /\ hungUp \in [Clients -> BOOLEAN]
  /\ registered \in [Clients -> Names \cup {DEFAULT}]
  /\ muddled \in [Clients -> BOOLEAN]

(* Closing connections keeps the types, *)
LEMMA ClosedTypes ==
  ASSUME ClientTypes, NEW cs, Closed(cs), UNCHANGED peer
  PROVE  ClientTypes'
<1>1. <<>> \in Seq(Segments) /\ 0 \in 0..MaxSent
  BY EmptySeq, BoundsAssumption
<1> QED BY <1>1 DEF ClientTypes, Closed

ServerTypes ==
  /\ server_quit \in BOOLEAN
  /\ pc \in [Servers -> {"unborn", "start", "loop", "select", "accept", "handle",
                         "scan", "done", "wild"}]
  /\ slot \in [Servers -> Slots] /\ ready \in [Servers -> SUBSET Fds]
  /\ got \in [Servers -> Seq(Segments)] /\ mixed \subseteq Servers
  /\ handlers \in [Servers -> {<<>>, Types}]
  /\ quit \in [Servers -> {"no", "sleep", "join", "done"}]
TableTypes ==
  /\ remote_fd \in [Servers -> [Slots -> Fds \cup {None}]]
  /\ remote_name \in [Servers -> [Slots -> Names \cup {DEFAULT}]]
  /\ owner \in [Fds -> Clients \cup {None}]

(* TypeOK in three parts. *)
LEMMA TypeParts == /\ TypeOK <=> ServerTypes /\ TableTypes /\ ClientTypes
                   /\ TypeOK' <=> ServerTypes' /\ TableTypes' /\ ClientTypes'
BY DEF TypeOK, ServerTypes, TableTypes, ClientTypes

(* The slot at hand is one of the table, with an open descriptor if it is
   ready to be read. *)
LEMMA SlotFacts ==
  ASSUME ServerTypes, TableTypes, NEW s \in Servers
  PROVE  /\ slot[s] \in Slots /\ 1 \in Slots
         /\ slot[s] < SlotCount => slot[s] + 1 \in Slots
         /\ AtSlot(s) => remote_fd[s][slot[s]] \in Fds
BY BoundsAssumption DEF ServerTypes, TableTypes, Slots, AtSlot

(* freeing a slot does, *)
LEMMA RestoreTypes ==
  ASSUME TypeOK, NEW s \in Servers, NEW i \in Slots, restore_remote(s, i), UNCHANGED peer
  PROVE  TableTypes' /\ ClientTypes'
<1>1. TableTypes'
  BY TypeParts DEF TableTypes, restore_remote
<1>2. ClientTypes'
  BY TypeParts, ClosedTypes DEF restore_remote
<1> QED BY <1>1, <1>2

(* and going on to the next slot. *)
LEMMA NextSlotTypes ==
  ASSUME ServerTypes, TableTypes, NEW s \in Servers, NextSlot(s),
         UNCHANGED <<server_quit, ready, handlers, quit>>,
         got' \in [Servers -> Seq(Segments)], mixed' \subseteq Servers
  PROVE  ServerTypes'
BY SlotFacts DEF ServerTypes, NextSlot, Goto

(* A scan that does not end in closing the connection may rename the slot and its
   client: both alike, or the client counts as muddled from then on. *)
Renames(s) ==
  /\ UNCHANGED <<remote_fd, owner, conn, inbox, sent, owed, hungUp>>
  /\ \E name, given \in Names :
       /\ UNCHANGED remote_name \/ Register(s, name)
       /\ \/ UNCHANGED registered
          \/ registered' = [registered EXCEPT ![Current(s)] = given]
       /\ \/ muddled' = [muddled EXCEPT ![Current(s)] = TRUE]
          \/ /\ Register(s, name) /\ registered' = [registered EXCEPT ![Current(s)] = name]
             /\ muddled' = [muddled EXCEPT ![Current(s)] = FALSE]
          \/ UNCHANGED <<remote_name, registered, muddled>>

(* A scan closes the connection, or renames. *)
LEMMA ScanOutcome ==
  ASSUME NEW s \in Servers, ScanFinds(s) \/ ScanFindsNone(s) \/ ScanMixed(s)
  PROVE  restore_remote(s, slot[s]) \/ Renames(s)
<1>1. UNKNOWN \in Names
  BY DEF Names
<1>2. CASE ScanFindsNone(s)
  BY <1>2 DEF ScanFindsNone
<1>3. CASE ScanFinds(s)
  BY <1>1, <1>3 DEF ScanFinds, Renames
<1>4. CASE ScanMixed(s)
  BY <1>1, <1>4 DEF ScanMixed, Renames
<1> QED BY <1>2, <1>3, <1>4

(* What a slot holds is an open descriptor of an accepted client. *)
LEMMA SlotIsOpen ==
  ASSUME TypeOK, Tables, NEW s \in Servers, NEW i \in Slots,
         remote_fd[s][i] # None
  PROVE  /\ remote_fd[s][i] \in Fds
         /\ owner[remote_fd[s][i]] # None /\ owner[remote_fd[s][i]] \in Clients
         /\ conn[owner[remote_fd[s][i]]] = "accepted"
<1>1. remote_fd[s][i] \in Fds
  BY TypeParts DEF TableTypes
<1>2. owner[remote_fd[s][i]] # None
  BY DEF Tables, SlotsHoldOwnClients
<1> QED BY <1>1, <1>2, TypeParts DEF Tables, OwnersAccepted, TableTypes

(* TypeOK is kept; that a descriptor is left for who connects is due to Tables. *)
LEMMA TypeStep ==
  ASSUME TypeOK, ~Wild => Tables, [Next]_vars
  PROVE  TypeOK'
<1> USE TypeParts DEF buffer
<1>1. ASSUME NEW s \in Servers, InitAndRun(s) \/ InitFails(s) \/ Quit(s) \/ QuitJoin(s)
      PROVE  TypeOK'
  BY <1>1 DEF InitAndRun, InitFails, Quit, QuitJoin, Goto, thread, sock, stream,
     ServerTypes, TableTypes, ClientTypes
<1>2. ASSUME NEW s \in Servers, QuitClear(s)
      PROVE  TypeOK'
  <2>1. ServerTypes'
    BY <1>2, EmptySeq DEF QuitClear, Goto, ServerTypes
  <2>2. TableTypes'
    BY <1>2 DEF QuitClear, TableTypes
  <2>3. ClientTypes'
    BY <1>2, ClosedTypes DEF QuitClear
  <2> QED BY <2>1, <2>2, <2>3
<1>3. ASSUME NEW c \in Clients, Connect(c) \/ HangUp(c)
      PROVE  TypeOK'
  <2>1. ServerTypes' /\ TableTypes'
    BY <1>3 DEF Connect, HangUp, thread, sock, ServerTypes, TableTypes
  <2>2. CASE Connect(c)
    BY <2>1, <2>2 DEF Connect, ClientTypes
  <2>3. CASE HangUp(c)
    BY <2>1, <2>3 DEF HangUp, ClientTypes
  <2> QED BY <1>3, <2>2, <2>3
<1>4. ASSUME NEW c \in Clients, Send(c)
      PROVE  TypeOK'
  <2>1. ServerTypes' /\ TableTypes'
    BY <1>4 DEF Send, thread, sock, ServerTypes, TableTypes
  <2>2. PICK m \in Sends : /\ inbox' = [inbox EXCEPT ![c] = Append(@, m)]
                           /\ owed' = [owed EXCEPT ![c] = m = "half"]
    BY <1>4 DEF Send
  <2>3. Append(inbox[c], m) \in Seq(Segments)
    BY BoundsAssumption, AppendProperties DEF ClientTypes
  <2>4. sent[c] + 1 \in 0..MaxSent
    BY <1>4, BoundsAssumption DEF Send, ClientTypes
  <2>5. ClientTypes'
    BY <1>4, <2>2, <2>3, <2>4 DEF Send, ClientTypes
  <2> QED BY <2>1, <2>5
<1>5. ASSUME NEW s \in Servers, Start(s) \/ Loop(s) \/ SelectFails(s) \/ SelectCleared(s)
      PROVE  TypeOK'
  BY <1>5 DEF Start, Loop, SelectFails, SelectCleared, Goto, sock, stream,
     ServerTypes, TableTypes, ClientTypes
<1>6. ASSUME NEW s \in Servers, SelectReturns(s)
      PROVE  TypeOK'
  <2>1. Readable(s) \in SUBSET Fds
    BY DEF Readable, Watched, InTable, Range, TableTypes
  <2> QED BY <1>6, <2>1 DEF SelectReturns, Goto, sock, stream,
             ServerTypes, TableTypes, ClientTypes
<1>7. ASSUME NEW s \in Servers, Accept(s), ~Wild
      PROVE  TypeOK'
  <2> DEFINE fd   == Min(FreeFds)
             free == {i \in Slots : remote_fd[s][i] = None}
  <2>1. PICK c \in Pending(s) : /\ owner' = [owner EXCEPT ![fd] = c]
                                /\ conn' = [conn EXCEPT ![c] = "accepted"]
    BY <1>7 DEF Accept, FreeFds
  <2>2. c \in Clients /\ fd \in Fds
    BY <1>7, FdIsLeft DEF Pending, Tables, FreeFds
  <2>3. free # {} => Min(free) \in Slots
    <3>1. free \in SUBSET Nat
      BY DEF Slots
    <3> QED BY <3>1, MinIsMember
  <2>4. remote_fd' = IF free = {} THEN remote_fd
                     ELSE [remote_fd EXCEPT ![s][Min(free)] = fd]
    BY <1>7 DEF Accept, FreeFds
  <2> HIDE DEF fd, free
  <2>5. TableTypes'
    <3>1. owner' \in [Fds -> Clients \cup {None}]
      BY <2>1, <2>2 DEF TableTypes
    <3>2. remote_fd' \in [Servers -> [Slots -> Fds \cup {None}]]
      <4>1. CASE free = {}
        BY <2>4, <4>1 DEF TableTypes
      <4>2. CASE free # {}
        BY <2>2, <2>3, <2>4, <4>2 DEF TableTypes
      <4> QED BY <4>1, <4>2
    <3> QED BY <1>7, <3>1, <3>2 DEF Accept, TableTypes
  <2>6. ServerTypes' /\ ClientTypes'
    BY <1>7, <2>1, <2>2 DEF Accept, Goto, ServerTypes, ClientTypes
  <2> QED BY <2>5, <2>6
<1>8. ASSUME NEW s \in Servers, SkipSlot(s)
      PROVE  TypeOK'
  <2>1. ServerTypes'
    <3>1. got' \in [Servers -> Seq(Segments)] /\ mixed' \subseteq Servers
      BY <1>8 DEF SkipSlot, ServerTypes
    <3> QED BY <1>8, <3>1, NextSlotTypes DEF SkipSlot, sock
  <2> QED BY <1>8, <2>1 DEF SkipSlot, sock, stream, TableTypes, ClientTypes
<1>9. ASSUME NEW s \in Servers, NoHandler(s) \/ RecvEnd(s)
      PROVE  TypeOK'
  <2>1. ServerTypes'
    <3>1. got' \in [Servers -> Seq(Segments)] /\ mixed' \subseteq Servers
      BY <1>9 DEF NoHandler, RecvEnd, ServerTypes
    <3> QED BY <1>9, <3>1, NextSlotTypes DEF NoHandler, RecvEnd
  <2>2. TableTypes' /\ ClientTypes'
    BY <1>9, SlotFacts, RestoreTypes DEF NoHandler, RecvEnd
  <2> QED BY <2>1, <2>2
<1>10. ASSUME NEW s \in Servers, Recv(s), ~Wild
       PROVE  TypeOK'
  <2>1. PICK n \in 1..Len(inbox[Current(s)]) :
          /\ got' = [got EXCEPT ![s] = SubSeq(inbox[Current(s)], 1, n)]
          /\ inbox' = [inbox EXCEPT ![Current(s)] = SubSeq(@, n + 1, Len(@))]
    BY <1>10 DEF Recv
  <2>2. Current(s) \in Clients
    <3>1. slot[s] \in Slots /\ remote_fd[s][slot[s]] \in Fds
      BY <1>10, SlotFacts DEF Recv
    <3>2. Tables /\ remote_fd[s][slot[s]] # None
      BY <1>10, <3>1, FdFacts
    <3> QED BY <3>1, <3>2, SlotIsOpen DEF Current
  <2>3. /\ SubSeq(inbox[Current(s)], 1, n) \in Seq(Segments)
        /\ SubSeq(inbox[Current(s)], n + 1, Len(inbox[Current(s)])) \in Seq(Segments)
    <3>1. /\ inbox[Current(s)] \in Seq(Segments) /\ Len(inbox[Current(s)]) \in Nat
          /\ \A k \in 1..Len(inbox[Current(s)]) : inbox[Current(s)][k] \in Segments
      BY <2>2, LenProperties, ElementOfSeq DEF ClientTypes
    <3>2. \A k \in 1..n : k \in 1..Len(inbox[Current(s)])
      BY <3>1
    <3> QED BY <3>1, <3>2, SubSeqProperties
  <2>4. mixed' \subseteq Servers
    BY <1>10 DEF Recv, Scanning
  <2>5. ServerTypes'
    <3>1. got' \in [Servers -> Seq(Segments)]
      BY <2>1, <2>3 DEF ServerTypes
    <3>2. UNCHANGED <<server_quit, slot, ready, handlers, quit>>
          /\ pc' = [pc EXCEPT ![s] = "scan"]
      BY <1>10 DEF Recv, Goto, sock
    <3> QED BY <2>4, <3>1, <3>2 DEF ServerTypes
  <2>6. TableTypes' /\ ClientTypes'
    <3>1. inbox' \in [Clients -> Seq(Segments)]
      BY <2>1, <2>2, <2>3 DEF ClientTypes
    <3>2. UNCHANGED <<sock, peer, conn, sent, owed, hungUp, registered, muddled>>
      BY <1>10 DEF Recv
    <3> QED BY <3>1, <3>2 DEF sock, TableTypes, ClientTypes
  <2> QED BY <2>5, <2>6
<1>12. ASSUME NEW s \in Servers, ScanFinds(s) \/ ScanFindsNone(s) \/ ScanMixed(s)
       PROVE  TypeOK'
  <2>1. Scan(s)
    BY <1>12 DEF ScanFinds, ScanFindsNone, ScanMixed
  <2>2. ServerTypes'
    <3>1. mixed' \subseteq Servers
      BY <1>12 DEF ScanFinds, ScanFindsNone, ScanMixed, Scanning, ServerTypes
    <3>2. got' \in [Servers -> Seq(Segments)]
      BY <2>1, EmptySeq DEF Scan, ServerTypes
    <3> QED BY <2>1, <3>1, <3>2, NextSlotTypes DEF Scan
  <2>3. CASE restore_remote(s, slot[s])
    BY <2>1, <2>2, <2>3, SlotFacts, RestoreTypes DEF Scan
  <2>4. CASE Renames(s)
    <3>1. PICK name, given \in Names :
            /\ UNCHANGED remote_name \/ Register(s, name)
            /\ \/ UNCHANGED registered
               \/ registered' = [registered EXCEPT ![Current(s)] = given]
               \/ registered' = [registered EXCEPT ![Current(s)] = name]
            /\ \/ muddled' = [muddled EXCEPT ![Current(s)] = TRUE]
               \/ muddled' = [muddled EXCEPT ![Current(s)] = FALSE]
               \/ UNCHANGED muddled
      BY <2>4 DEF Renames
    <3>2. UNCHANGED <<remote_fd, owner, conn, inbox, sent, owed, hungUp, peer>>
      BY <2>1, <2>4 DEF Renames, Scan
    <3>3. TableTypes'
      <4>1. remote_name' \in [Servers -> [Slots -> Names \cup {DEFAULT}]]
        <5>1. CASE UNCHANGED remote_name
          BY <5>1 DEF TableTypes
        <5>2. CASE Register(s, name)
          <6>1. slot[s] \in Slots
            BY SlotFacts
          <6> QED BY <5>2, <6>1 DEF Register, TableTypes
        <5> QED BY <3>1, <5>1, <5>2
      <4> QED BY <3>2, <4>1 DEF TableTypes
    <3>4. ClientTypes'
      BY <3>1, <3>2 DEF ClientTypes
    <3> QED BY <2>2, <3>3, <3>4
  <2> QED BY <1>12, <2>3, <2>4, ScanOutcome
<1>11. CASE UNCHANGED vars
  BY <1>11 DEF vars, thread, sock, stream, ServerTypes, TableTypes, ClientTypes
<1> QED
  BY <1>1, <1>2, <1>3, <1>4, <1>5, <1>6, <1>7, <1>8, <1>9, <1>10, <1>11, <1>12
     DEF Next, Application, ThreadStep, Ended

-----------------------------------------------------------------------------
(* The tables.  A step that leaves them and the connections alone keeps them. *)
LEMMA SameTables ==
  ASSUME Tables, UNCHANGED <<owner, conn, registered, muddled, remote_fd, remote_name, peer>>
  PROVE  Tables'
BY DEF Tables, OwnersDiffer, OwnersAccepted, FreshAreNameless, FreeSlotsAreNameless,
       SlotsHoldOwnClients

(* A new connection is of a client that no descriptor is of. *)
LEMMA ConnectKeepsTables ==
  ASSUME TypeOK, Tables, NEW c \in Clients, Connect(c)
  PROVE  Tables'
<1>1. PICK s \in Servers : peer' = [peer EXCEPT ![c] = s]
  BY DEF Connect
<1>2. /\ conn[c] = "away" /\ conn' = [conn EXCEPT ![c] = "pending"]
      /\ UNCHANGED <<owner, registered, muddled, remote_fd, remote_name>>
  BY DEF Connect, sock
<1>3. \A f \in Fds : owner[f] # None => owner[f] \in Clients /\ owner[f] # c
  BY <1>2, TypeParts DEF Tables, OwnersAccepted, TableTypes
<1>4. OwnersDiffer' /\ OwnersAccepted' /\ FreshAreNameless' /\ FreeSlotsAreNameless'
  BY <1>2, <1>3, TypeParts DEF Tables, OwnersDiffer, OwnersAccepted, FreshAreNameless,
     FreeSlotsAreNameless, ClientTypes
<1>5. SlotsHoldOwnClients'
  BY <1>1, <1>2, <1>3, TypeParts DEF Tables, SlotsHoldOwnClients, TableTypes, ClientTypes
<1> QED BY <1>4, <1>5 DEF Tables

(* Descriptors of the set gone are closed with their connections, and possibly
   other connections that none is of; the slots in forgotten are emptied. *)
LEMMA CloseKeepsTables ==
  ASSUME TypeOK, Tables, NEW gone \in SUBSET Fds, NEW cs \in SUBSET Clients,
         \A f \in gone : owner[f] # None,
         \A c \in cs : conn[c] = "accepted" => \E f \in gone : owner[f] = c,
         \A f \in gone : owner[f] \in cs,
         owner' = [f \in Fds |-> IF f \in gone THEN None ELSE owner[f]],
         Closed(cs), UNCHANGED peer,
         NEW forgotten,
         \A s \in Servers, i \in Slots :
           /\ remote_fd[s][i] \in gone => i \in forgotten[s]
           /\ i \in forgotten[s] =>
                remote_fd'[s][i] = None /\ remote_name'[s][i] = DEFAULT
           /\ i \notin forgotten[s] =>
                remote_fd'[s][i] = remote_fd[s][i] /\ remote_name'[s][i] = remote_name[s][i]
  PROVE  Tables'
<1>1. \A f \in Fds \ gone : owner[f] \notin cs /\ owner'[f] = owner[f]
  <2> SUFFICES ASSUME NEW f \in Fds \ gone, owner[f] \in cs
               PROVE  FALSE
    OBVIOUS
  <2>1. owner[f] # None /\ conn[owner[f]] = "accepted"
    BY FdFacts DEF Tables, OwnersAccepted
  <2>2. PICK g \in gone : owner[g] = owner[f]
    BY <2>1
  <2> QED BY <2>1, <2>2 DEF Tables, OwnersDiffer
<1>2. \A c \in Clients \ cs : /\ conn'[c] = conn[c] /\ registered'[c] = registered[c]
                              /\ muddled[c] => muddled'[c]
  BY DEF Closed
<1>3. \A c \in cs : conn'[c] = "closed"
  BY DEF Closed
<1>4. \A f \in Fds : owner'[f] # None =>
        /\ f \notin gone /\ owner'[f] = owner[f] /\ owner[f] \in Clients \ cs
  BY <1>1, TypeParts DEF TableTypes
<1>5. OwnersDiffer' /\ OwnersAccepted'
  BY <1>2, <1>4 DEF Tables, OwnersDiffer, OwnersAccepted
<1>6. FreshAreNameless'
  BY <1>2, <1>3 DEF Tables, FreshAreNameless
<1>7. FreeSlotsAreNameless'
  BY DEF Tables, FreeSlotsAreNameless
<1>8. SlotsHoldOwnClients'
  <2> SUFFICES ASSUME NEW s \in Servers, NEW i \in Slots, remote_fd'[s][i] # None
               PROVE  /\ owner'[remote_fd'[s][i]] # None
                      /\ peer'[owner'[remote_fd'[s][i]]] = s
                      /\ \/ muddled'[owner'[remote_fd'[s][i]]]
                         \/ remote_name'[s][i] = registered'[owner'[remote_fd'[s][i]]]
                      /\ \A t \in Servers, j \in Slots :
                           remote_fd'[t][j] = remote_fd'[s][i] => t = s /\ j = i
    BY DEF SlotsHoldOwnClients
  <2>1. /\ remote_fd'[s][i] = remote_fd[s][i] /\ remote_name'[s][i] = remote_name[s][i]
        /\ remote_fd[s][i] \in Fds \ gone
    BY TypeParts DEF TableTypes
  <2>2. /\ owner'[remote_fd[s][i]] = owner[remote_fd[s][i]]
        /\ owner[remote_fd[s][i]] # None /\ owner[remote_fd[s][i]] \in Clients \ cs
    BY <1>1, <1>4, <2>1 DEF Tables, SlotsHoldOwnClients
  <2>3. peer[owner[remote_fd[s][i]]] = s
        /\ \/ muddled[owner[remote_fd[s][i]]]
           \/ remote_name[s][i] = registered[owner[remote_fd[s][i]]]
    BY <2>1, <2>2, FdFacts DEF Tables, SlotsHoldOwnClients
  <2>4. \A t \in Servers, j \in Slots : remote_fd'[t][j] # None =>
           remote_fd'[t][j] = remote_fd[t][j]
    OBVIOUS
  <2>5. \A t \in Servers, j \in Slots :
          remote_fd'[t][j] = remote_fd'[s][i] => t = s /\ j = i
    BY <2>1, <2>4, FdFacts DEF Tables, SlotsHoldOwnClients
  <2> QED BY <1>2, <2>1, <2>2, <2>3, <2>5
<1> QED BY <1>5, <1>6, <1>7, <1>8 DEF Tables

(* restore_remote frees one slot. *)
LEMMA RestoreKeepsTables ==
  ASSUME TypeOK, Tables, NEW s \in Servers, NEW i \in Slots, remote_fd[s][i] \in Fds,
         restore_remote(s, i), UNCHANGED peer
  PROVE  Tables'
<1> DEFINE fd   == remote_fd[s][i]
           gone == {fd}
           cs   == {owner[fd]}
           forgotten == [t \in Servers |-> IF t = s THEN {i} ELSE {}]
<1>1. owner[fd] # None /\ owner[fd] \in Clients
  BY FdFacts, SlotIsOpen
<1>2. owner' = [f \in Fds |-> IF f \in gone THEN None ELSE owner[f]]
  BY TypeParts DEF restore_remote, TableTypes
<1>3. ASSUME NEW t \in Servers, NEW j \in Slots
      PROVE  /\ remote_fd[t][j] \in gone => j \in forgotten[t]
             /\ j \in forgotten[t] =>
                  remote_fd'[t][j] = None /\ remote_name'[t][j] = DEFAULT
             /\ j \notin forgotten[t] =>
                  remote_fd'[t][j] = remote_fd[t][j] /\ remote_name'[t][j] = remote_name[t][j]
  <2>1. remote_fd[t][j] = fd => t = s /\ j = i
    BY FdFacts DEF Tables, SlotsHoldOwnClients
  <2>2. j \in forgotten[t] <=> t = s /\ j = i
    OBVIOUS
  <2>3. /\ remote_fd' = [remote_fd EXCEPT ![s][i] = None]
        /\ remote_name' = [remote_name EXCEPT ![s][i] = DEFAULT]
    BY DEF restore_remote
  <2>4. /\ remote_fd'[t][j] = IF t = s /\ j = i THEN None ELSE remote_fd[t][j]
        /\ remote_name'[t][j] = IF t = s /\ j = i THEN DEFAULT ELSE remote_name[t][j]
    BY <2>3, TypeParts DEF TableTypes
  <2> QED BY <2>1, <2>2, <2>4
<1>4. Closed(cs) /\ gone \in SUBSET Fds /\ cs \in SUBSET Clients
  BY <1>1 DEF restore_remote
<1>5. /\ \A f \in gone : owner[f] # None /\ owner[f] \in cs
      /\ \A c \in cs : conn[c] = "accepted" => \E f \in gone : owner[f] = c
  BY <1>1
<1> HIDE DEF gone, cs, forgotten
<1> QED BY <1>2, <1>3, <1>4, <1>5, CloseKeepsTables

(* A server that quits frees all of its own. *)
LEMMA QuitClearKeepsTables ==
  ASSUME TypeOK, Tables, NEW s \in Servers, QuitClear(s)
  PROVE  Tables'
<1> DEFINE gone == InTable(s)
           cs   == Pending(s) \cup {owner[f] : f \in gone}
           forgotten == [t \in Servers |-> IF t = s THEN Slots ELSE {}]
<1>1. \A f \in gone : f \in Fds /\ \E i \in Slots : remote_fd[s][i] = f
  BY TypeParts DEF InTable, Range, TableTypes
<1>2. \A f \in gone : owner[f] # None /\ owner[f] \in Clients
  <2> HIDE DEF gone
  <2> QED BY <1>1, FdFacts, SlotIsOpen
<1>3. owner' = [f \in Fds |-> IF f \in gone THEN None ELSE owner[f]] /\ Closed(cs)
      /\ UNCHANGED peer
  BY DEF QuitClear
<1>4. gone \in SUBSET Fds /\ cs \in SUBSET Clients
  BY <1>1, <1>2 DEF Pending
<1>5. /\ \A f \in gone : owner[f] # None /\ owner[f] \in cs
      /\ \A c \in cs : conn[c] = "accepted" => \E f \in gone : owner[f] = c
  BY <1>2 DEF Pending
<1>6. ASSUME NEW t \in Servers, NEW j \in Slots
      PROVE  /\ remote_fd[t][j] \in gone => j \in forgotten[t]
             /\ j \in forgotten[t] =>
                  remote_fd'[t][j] = None /\ remote_name'[t][j] = DEFAULT
             /\ j \notin forgotten[t] =>
                  remote_fd'[t][j] = remote_fd[t][j] /\ remote_name'[t][j] = remote_name[t][j]
  <2>1. remote_fd[t][j] \in gone => t = s
    <3> HIDE DEF gone
    <3> SUFFICES ASSUME remote_fd[t][j] \in gone PROVE t = s
      OBVIOUS
    <3>1. PICK i \in Slots : remote_fd[s][i] = remote_fd[t][j]
      BY <1>1
    <3>2. remote_fd[s][i] # None
      BY <1>4, <3>1, FdFacts
    <3> QED BY <3>1, <3>2 DEF Tables, SlotsHoldOwnClients
  <2>2. j \in forgotten[t] <=> t = s
    OBVIOUS
  <2>3. /\ remote_fd' = [remote_fd EXCEPT ![s] = [i \in Slots |-> None]]
        /\ remote_name' = [remote_name EXCEPT ![s] = [i \in Slots |-> DEFAULT]]
    BY DEF QuitClear
  <2>4. /\ remote_fd'[t][j] = IF t = s THEN None ELSE remote_fd[t][j]
        /\ remote_name'[t][j] = IF t = s THEN DEFAULT ELSE remote_name[t][j]
    BY <2>3, TypeParts DEF TableTypes
  <2> QED BY <2>1, <2>2, <2>4
<1> HIDE DEF gone, cs, forgotten
<1> QED BY <1>3, <1>4, <1>5, <1>6, CloseKeepsTables

(* accept takes a closed descriptor, which no slot holds. *)
LEMMA AcceptKeepsTables ==
  ASSUME TypeOK, Tables, NEW s \in Servers, Accept(s)
  PROVE  Tables'
<1> DEFINE fd   == Min(FreeFds)
           free == {i \in Slots : remote_fd[s][i] = None}
<1>1. PICK c \in Pending(s) : /\ owner' = [owner EXCEPT ![fd] = c]
                              /\ conn' = [conn EXCEPT ![c] = "accepted"]
  BY DEF Accept, FreeFds
<1>2. c \in Clients /\ conn[c] = "pending" /\ peer[c] = s
  BY DEF Pending
<1>3. fd \in Fds /\ owner[fd] = None
  BY <1>2, FdIsLeft DEF Tables, FreeFds
<1>4. \A f \in Fds : owner[f] # c
  BY <1>2, FdFacts DEF Tables, OwnersAccepted
<1>5. \A t \in Servers, j \in Slots : remote_fd[t][j] # fd
  BY <1>3, FdFacts DEF Tables, SlotsHoldOwnClients
<1>6. UNCHANGED <<remote_name, registered, muddled, peer>>
  BY DEF Accept
<1>7. remote_fd' = IF free = {} THEN remote_fd
                   ELSE [remote_fd EXCEPT ![s][Min(free)] = fd]
  BY DEF Accept, FreeFds
<1>8. free # {} => Min(free) \in Slots /\ remote_fd[s][Min(free)] = None
  <2>1. free \in SUBSET Nat
    BY DEF Slots
  <2>2. free # {} => Min(free) \in free
    BY <2>1, MinIsMember
  <2> QED BY <2>2
<1>9. \A t \in Servers, j \in Slots :
        IF t = s /\ free # {} /\ j = Min(free)
        THEN remote_fd[t][j] = None /\ remote_fd'[t][j] = fd
        ELSE remote_fd'[t][j] = remote_fd[t][j]
  <2> HIDE DEF fd, free
  <2>1. CASE free = {}
    BY <1>7, <2>1
  <2>2. CASE free # {}
    BY <1>7, <1>8, <2>2, TypeParts DEF TableTypes
  <2> QED BY <2>1, <2>2
<1> HIDE DEF fd, free
<1>10. owner'[fd] = c /\ \A f \in Fds : f # fd => owner'[f] = owner[f]
  BY <1>1, <1>3, TypeParts DEF TableTypes
<1>11. conn'[c] = "accepted" /\ \A d \in Clients : d # c => conn'[d] = conn[d]
  BY <1>1, <1>2, TypeParts DEF ClientTypes
<1>12. OwnersDiffer'
  BY <1>3, <1>4, <1>10 DEF Tables, OwnersDiffer
<1>13. OwnersAccepted'
  BY <1>4, <1>10, <1>11, TypeParts DEF Tables, OwnersAccepted, TableTypes
<1>14. FreshAreNameless' /\ FreeSlotsAreNameless'
  <2>1. FreshAreNameless'
    BY <1>6, <1>11 DEF Tables, FreshAreNameless
  <2>2. FreeSlotsAreNameless'
    BY <1>3, <1>6, <1>9, FdFacts DEF Tables, FreeSlotsAreNameless
  <2> QED BY <2>1, <2>2
<1>15. SlotsHoldOwnClients'
  <2> SUFFICES ASSUME NEW t \in Servers, NEW i \in Slots, remote_fd'[t][i] # None
               PROVE  /\ owner'[remote_fd'[t][i]] # None
                      /\ peer[owner'[remote_fd'[t][i]]] = t
                      /\ \/ muddled[owner'[remote_fd'[t][i]]]
                         \/ remote_name[t][i] = registered[owner'[remote_fd'[t][i]]]
                      /\ \A u \in Servers, j \in Slots :
                           remote_fd'[u][j] = remote_fd'[t][i] => u = t /\ j = i
    BY <1>6 DEF SlotsHoldOwnClients
  <2>1. CASE t = s /\ free # {} /\ i = Min(free)
    <3>1. remote_fd'[t][i] = fd /\ remote_name[t][i] = DEFAULT /\ registered[c] = DEFAULT
      BY <1>2, <1>9, <2>1 DEF Tables, FreeSlotsAreNameless, FreshAreNameless
    <3>2. \A u \in Servers, j \in Slots : remote_fd'[u][j] = fd => u = t /\ j = i
      BY <1>5, <1>9, <2>1
    <3> QED BY <1>2, <1>10, <2>1, <3>1, <3>2, FdFacts
  <2>2. CASE ~(t = s /\ free # {} /\ i = Min(free))
    <3>1. remote_fd'[t][i] = remote_fd[t][i] /\ remote_fd[t][i] \in Fds \ {fd}
      BY <1>5, <1>9, <2>2, TypeParts DEF TableTypes
    <3>2. \A u \in Servers, j \in Slots :
            remote_fd'[u][j] = remote_fd'[t][i] => u = t /\ j = i
      BY <1>9, <3>1, FdFacts DEF Tables, SlotsHoldOwnClients
    <3>3. owner'[remote_fd[t][i]] = owner[remote_fd[t][i]]
      BY <1>10, <3>1
    <3> QED BY <3>1, <3>2, <3>3 DEF Tables, SlotsHoldOwnClients
  <2> QED BY <2>1, <2>2
<1> QED BY <1>12, <1>13, <1>14, <1>15 DEF Tables

(* A registration changes the name of the slot and of its client together, or
   the client counts as muddled. *)
LEMMA RenamesKeepTables ==
  ASSUME TypeOK, Tables, NEW s \in Servers, remote_fd[s][slot[s]] # None, Renames(s),
         UNCHANGED peer
  PROVE  Tables'
<1> DEFINE i  == slot[s]
           fd == remote_fd[s][i]
           c  == owner[fd]
<1>1. i \in Slots /\ fd \in Fds
  BY SlotFacts, TypeParts DEF TableTypes
<1>2. c \in Clients /\ conn[c] = "accepted"
  BY <1>1, FdFacts, SlotIsOpen
<1>3. UNCHANGED <<remote_fd, owner, peer, conn>>
  BY DEF Renames
<1>4. PICK name, given \in Names :
        /\ UNCHANGED remote_name \/ remote_name' = [remote_name EXCEPT ![s][i] = name]
        /\ \/ UNCHANGED registered
           \/ registered' = [registered EXCEPT ![c] = given]
        /\ \/ muddled' = [muddled EXCEPT ![c] = TRUE]
           \/ /\ remote_name' = [remote_name EXCEPT ![s][i] = name]
              /\ registered' = [registered EXCEPT ![c] = name]
              /\ muddled' = [muddled EXCEPT ![c] = FALSE]
           \/ UNCHANGED <<remote_name, registered, muddled>>
  BY DEF Renames, Register, Current
<1> HIDE DEF i, fd, c
<1>5. \A d \in Clients \ {c} : registered'[d] = registered[d] /\ muddled'[d] = muddled[d]
  BY <1>4, TypeParts DEF ClientTypes
<1>6. \A t \in Servers, j \in Slots :
        ~(t = s /\ j = i) => remote_name'[t][j] = remote_name[t][j]
  BY <1>1, <1>4, TypeParts DEF TableTypes
<1>7. \/ muddled'[c] \/ remote_name'[s][i] = registered'[c]
      \/ UNCHANGED <<remote_name, registered, muddled>>
  BY <1>1, <1>2, <1>4, TypeParts DEF TableTypes, ClientTypes
<1>8. OwnersDiffer' /\ OwnersAccepted'
  BY <1>3 DEF Tables, OwnersDiffer, OwnersAccepted
<1>9. FreshAreNameless'
  BY <1>2, <1>3, <1>5 DEF Tables, FreshAreNameless
<1>10. FreeSlotsAreNameless'
  BY <1>1, <1>3, <1>6, FdFacts DEF Tables, FreeSlotsAreNameless, fd
<1>11. ASSUME NEW t \in Servers, NEW j \in Slots, remote_fd[t][j] # None
       PROVE  \/ muddled'[owner[remote_fd[t][j]]]
              \/ remote_name'[t][j] = registered'[owner[remote_fd[t][j]]]
  <2>1. remote_fd[t][j] \in Fds /\ owner[remote_fd[t][j]] \in Clients
    BY <1>11, TypeParts DEF Tables, SlotsHoldOwnClients, TableTypes
  <2>2. \/ muddled[owner[remote_fd[t][j]]]
        \/ remote_name[t][j] = registered[owner[remote_fd[t][j]]]
    BY <1>11 DEF Tables, SlotsHoldOwnClients
  <2>3. CASE t = s /\ j = i
    BY <1>7, <2>2, <2>3 DEF fd, c
  <2>4. CASE ~(t = s /\ j = i)
    <3>1. remote_fd[t][j] # fd
      BY <1>1, <1>11, <2>4 DEF Tables, SlotsHoldOwnClients, fd
    <3>2. owner[remote_fd[t][j]] # c
      BY <1>1, <1>2, <2>1, <3>1, FdFacts DEF Tables, OwnersDiffer, c
    <3> QED BY <1>5, <1>6, <2>1, <2>2, <2>4, <3>2
  <2> QED BY <2>3, <2>4
<1>12. SlotsHoldOwnClients'
  BY <1>3, <1>11 DEF Tables, SlotsHoldOwnClients
<1> QED BY <1>8, <1>9, <1>10, <1>12 DEF Tables

-----------------------------------------------------------------------------

(* No client is accepted and no thread wild at first. *)
LEMMA InitIInv == Init => IInv
<1> SUFFICES ASSUME Init PROVE IInv
  OBVIOUS
<1>1. TypeOK
  <2>1. 1 \in Slots /\ 0 \in 0..MaxSent /\ <<>> \in Seq(Segments)
    BY EmptySeq, BoundsAssumption DEF Slots
  <2>2. ServerTypes
    BY <2>1 DEF Init, ServerTypes
  <2>3. TableTypes
    BY DEF Init, TableTypes
  <2>4. ClientTypes
    BY <2>1 DEF Init, ClientTypes
  <2> QED BY <2>2, <2>3, <2>4, TypeParts
<1>2. Tables
  BY NamesAssumption DEF Init, Tables, OwnersDiffer, OwnersAccepted, FreshAreNameless,
     FreeSlotsAreNameless, SlotsHoldOwnClients
<1>3. ScansItsSlot
  BY DEF Init, ScansItsSlot
<1> QED BY <1>1, <1>2, <1>3 DEF IInv

(* Every step keeps the tables. *)
LEMMA TablesStep ==
  ASSUME TypeOK, Tables, ScansItsSlot, ~Wild, [Next]_vars
  PROVE  Tables'
<1>1. ASSUME NEW s \in Servers, InitAndRun(s) \/ InitFails(s) \/ Quit(s) \/ QuitJoin(s)
      PROVE  Tables'
  BY <1>1, SameTables DEF InitAndRun, InitFails, Quit, QuitJoin, sock, stream
<1>2. ASSUME NEW s \in Servers, \/ Start(s) \/ Loop(s) \/ SkipSlot(s)
                                \/ SelectReturns(s) \/ SelectFails(s) \/ SelectCleared(s)
      PROVE  Tables'
  BY <1>2, SameTables DEF Start, Loop, SkipSlot, SelectReturns, SelectFails, SelectCleared,
     sock, stream
<1>3. ASSUME NEW c \in Clients, Send(c) \/ HangUp(c)
      PROVE  Tables'
  BY <1>3, SameTables DEF Send, HangUp, sock
<1>4. ASSUME NEW s \in Servers, NoHandler(s) \/ RecvEnd(s)
      PROVE  Tables'
  <2>1. /\ slot[s] \in Slots /\ remote_fd[s][slot[s]] \in Fds
        /\ restore_remote(s, slot[s]) /\ UNCHANGED peer
    BY <1>4, SlotFacts, TypeParts DEF NoHandler, RecvEnd
  <2> QED BY <2>1, RestoreKeepsTables
<1>6. ASSUME NEW s \in Servers, Recv(s)
      PROVE  Tables'
  BY <1>6, SameTables DEF Recv, sock
<1>7. ASSUME NEW s \in Servers, ScanFinds(s) \/ ScanFindsNone(s) \/ ScanMixed(s)
      PROVE  Tables'
  <2>1. pc[s] = "scan" /\ UNCHANGED peer
    BY <1>7 DEF ScanFinds, ScanFindsNone, ScanMixed, Scan
  <2>2. /\ slot[s] \in Slots /\ remote_fd[s][slot[s]] \in Fds
        /\ remote_fd[s][slot[s]] # None
    BY <2>1, SlotFacts, TypeParts DEF ScansItsSlot, TableTypes
  <2> QED BY <1>7, <2>1, <2>2, ScanOutcome, RestoreKeepsTables, RenamesKeepTables
<1>5. CASE UNCHANGED vars
  BY <1>5, SameTables DEF vars, sock, stream
<1> QED
  BY <1>1, <1>2, <1>3, <1>4, <1>5, <1>6, <1>7, QuitClearKeepsTables, ConnectKeepsTables,
     AcceptKeepsTables DEF Next, Application, ThreadStep, Ended

(* A server that scans has just received, or it and its slot are as before. *)
LEMMA ScanStays ==
  ASSUME TypeOK, [Next]_vars, NEW s \in Servers, pc'[s] = "scan"
  PROVE  \/ Recv(s)
         \/ /\ pc[s] = "scan" /\ slot'[s] = slot[s] /\ got'[s] = got[s]
            /\ remote_fd'[s] = remote_fd[s]
<1> DEFINE Same == /\ pc[s] = "scan" /\ slot'[s] = slot[s] /\ got'[s] = got[s]
                   /\ remote_fd'[s] = remote_fd[s]
<1> USE TypeParts DEF buffer
<1>1. ASSUME NEW t \in Servers, \/ InitAndRun(t) \/ InitFails(t) \/ Quit(t) \/ QuitJoin(t)
                                \/ Start(t) \/ Loop(t) \/ SelectReturns(t)
                                \/ SelectFails(t) \/ SelectCleared(t)
      PROVE  Same
  BY <1>1 DEF InitAndRun, InitFails, Quit, QuitJoin, Start, Loop, SelectReturns, SelectFails,
     SelectCleared, Goto, thread, sock, ServerTypes
<1>2. ASSUME NEW t \in Servers, QuitClear(t)
      PROVE  Same
  BY <1>2 DEF QuitClear, Body, Goto, ServerTypes, TableTypes
<1>3. ASSUME NEW t \in Servers, Accept(t)
      PROVE  Same
  <2>1. t # s /\ pc[s] = "scan" /\ UNCHANGED <<slot, got>>
    BY <1>3 DEF Accept, Goto, ServerTypes
  <2> QED BY <1>3, <2>1 DEF Accept, TableTypes
<1>4. ASSUME NEW t \in Servers, NextSlot(t)
      PROVE  t # s /\ pc[s] = "scan" /\ slot'[s] = slot[s]
  BY <1>4 DEF NextSlot, Goto, ServerTypes
<1>5. ASSUME NEW t \in Servers, SkipSlot(t)
      PROVE  Same
  BY <1>4, <1>5 DEF SkipSlot, sock
<1>6. ASSUME NEW t \in Servers, NoHandler(t) \/ RecvEnd(t)
      PROVE  Same
  BY <1>4, <1>6 DEF NoHandler, RecvEnd, restore_remote, TableTypes
<1>7. ASSUME NEW t \in Servers, ScanFinds(t) \/ ScanFindsNone(t) \/ ScanMixed(t)
      PROVE  Same
  <2>1. Scan(t)
    BY <1>7 DEF ScanFinds, ScanFindsNone, ScanMixed
  <2>2. t # s /\ pc[s] = "scan" /\ slot'[s] = slot[s] /\ got'[s] = got[s]
    BY <1>4, <2>1 DEF Scan, ServerTypes
  <2>3. remote_fd'[s] = remote_fd[s]
    BY <1>7, <2>2, ScanOutcome DEF restore_remote, Renames, TableTypes
  <2> QED BY <2>2, <2>3
<1>8. ASSUME NEW t \in Servers, Recv(t), t # s
      PROVE  Same
  BY <1>8 DEF Recv, Goto, sock, ServerTypes
<1>9. ASSUME NEW c \in Clients, Connect(c) \/ Send(c) \/ HangUp(c)
      PROVE  Same
  BY <1>9 DEF Connect, Send, HangUp, thread, sock
<1>10. CASE UNCHANGED vars
  BY <1>10 DEF vars, thread, sock
<1> QED
  BY <1>1, <1>2, <1>3, <1>5, <1>6, <1>7, <1>8, <1>9, <1>10
     DEF Next, Application, ThreadStep, Ended

(* So its descriptor is open. *)
LEMMA ScanStep ==
  ASSUME TypeOK, ScansItsSlot, [Next]_vars
  PROVE  ScansItsSlot'
<1> SUFFICES ASSUME NEW s \in Servers, pc'[s] = "scan"
             PROVE  remote_fd'[s][slot'[s]] # None
  BY DEF ScansItsSlot
<1>1. CASE Recv(s)
  BY <1>1, SlotFacts, FdFacts, TypeParts DEF Recv, sock
<1>2. CASE ~Recv(s)
  BY <1>2, ScanStays DEF ScansItsSlot
<1> QED BY <1>1, <1>2

(* From a wild state nothing moves; from any other the tables are kept. *)
LEMMA StepIInv == IInv /\ [Next]_vars => IInv'
<1> SUFFICES ASSUME IInv, [Next]_vars PROVE IInv'
  OBVIOUS
<1>1. TypeOK'
  BY TypeStep DEF IInv
<1>2. CASE Wild
  <2>1. UNCHANGED vars
    BY <1>2 DEF Next, Ended
  <2>2. Wild'
    BY <1>2, <2>1 DEF Wild, vars, thread
  <2> QED BY <1>1, <2>2 DEF IInv
<1>3. CASE ~Wild
  BY <1>1, <1>3, TablesStep, ScanStep DEF IInv
<1> QED BY <1>2, <1>3

(* IInv holds throughout. *)
LEMMA Invariance == Spec => []IInv
BY InitIInv, StepIInv, PTL DEF Spec

(* Every variable keeps its type. *)
THEOREM TypeInvariant == Spec => []TypeOK
<1>1. IInv => TypeOK
  BY DEF IInv
<1> QED BY <1>1, Invariance, PTL

(* A descriptor in a table of appe_socket_in.c is open, of a client of that
   server, and in no other slot, whatever numbers are closed and reused. *)
THEOREM TablesAreOwn == Spec => []TablesHoldOwnClients
<1>1. ASSUME IInv, ~Wild, NEW p \in Places, Fd(p) # None
      PROVE  /\ owner[Fd(p)] # None /\ peer[owner[Fd(p)]] = p[1]
             /\ \A q \in Places \ {p} : Fd(q) # Fd(p)
  <2>1. PICK s \in Servers, i \in Slots : p = <<s, i>>
    BY DEF Places
  <2>2. /\ owner[remote_fd[s][i]] # None /\ peer[owner[remote_fd[s][i]]] = s
        /\ \A t \in Servers, j \in Slots : remote_fd[t][j] = remote_fd[s][i] => t = s /\ j = i
    BY <1>1, <2>1 DEF IInv, Tables, SlotsHoldOwnClients, Fd
  <2> QED BY <2>1, <2>2 DEF Fd, Places
<1>2. IInv => TablesHoldOwnClients
  BY <1>1 DEF TablesHoldOwnClients
<1> QED BY <1>2, Invariance, PTL

(* A client goes by the name it gave on its own connection, not by that of the
   client whose slot it got, unless another server received while what it sent
   was scanned. *)
THEOREM NamesAreOwn == Spec => []NameIsClients
<1>1. ASSUME IInv, ~Wild, NEW p \in Places, Fd(p) # None
      PROVE  \/ muddled[owner[Fd(p)]]
             \/ remote_name[p[1]][p[2]] = registered[owner[Fd(p)]]
  BY <1>1 DEF IInv, Tables, SlotsHoldOwnClients, Fd, Places
<1>2. IInv => NameIsClients
  BY <1>1 DEF NameIsClients
<1> QED BY <1>2, Invariance, PTL

-----------------------------------------------------------------------------
(* What the clients sent is all that is ever received. *)
LEMMA InboxStep ==
  ASSUME TypeOK, InboxesAreSent, [Next]_vars
  PROVE  InboxesAreSent'
<1> USE DEF InboxesAreSent
<1>1. ASSUME NEW cs, Closed(cs) PROVE InboxesAreSent'
  BY <1>1, EmptySeq DEF Closed
<1>2. ASSUME NEW s \in Servers, QuitClear(s) \/ NoHandler(s) \/ RecvEnd(s)
      PROVE  InboxesAreSent'
  BY <1>1, <1>2 DEF QuitClear, NoHandler, RecvEnd, restore_remote
<1>3. ASSUME NEW c \in Clients, Send(c)
      PROVE  InboxesAreSent'
  <2>1. PICK m \in Sends : inbox' = [inbox EXCEPT ![c] = Append(@, m)]
    BY <1>3 DEF Send
  <2>2. Append(inbox[c], m) \in Seq(Sends)
    BY AppendProperties
  <2> QED BY <2>1, <2>2
<1>4. ASSUME NEW s \in Servers, Recv(s)
      PROVE  InboxesAreSent'
  <2> DEFINE c == Current(s)
  <2>1. PICK n \in 1..Len(inbox[c]) :
          inbox' = [inbox EXCEPT ![c] = SubSeq(@, n + 1, Len(@))]
    BY <1>4 DEF Recv
  <2> HIDE DEF c
  <2>2. c \in Clients => SubSeq(inbox[c], n + 1, Len(inbox[c])) \in Seq(Sends)
    <3>1. ASSUME c \in Clients
          PROVE  /\ inbox[c] \in Seq(Sends) /\ Len(inbox[c]) \in Nat
                 /\ \A k \in 1..Len(inbox[c]) : inbox[c][k] \in Sends
      BY <3>1, LenProperties, ElementOfSeq
    <3> QED BY <3>1, SubSeqProperties
  <2> QED BY <2>1, <2>2
<1>5. ASSUME NEW s \in Servers, \/ InitAndRun(s) \/ InitFails(s) \/ Quit(s) \/ QuitJoin(s)
                                \/ Start(s) \/ Loop(s) \/ SkipSlot(s) \/ Accept(s)
                                \/ SelectReturns(s) \/ SelectFails(s) \/ SelectCleared(s)
      PROVE  InboxesAreSent'
  BY <1>5 DEF InitAndRun, InitFails, Quit, QuitJoin, Start, Loop, SkipSlot, Accept,
     SelectReturns, SelectFails, SelectCleared, stream
<1>6. ASSUME NEW c \in Clients, Connect(c) \/ HangUp(c)
      PROVE  InboxesAreSent'
  BY <1>6 DEF Connect, HangUp
<1>7. CASE UNCHANGED vars
  BY <1>7 DEF vars, stream
<1>8. ASSUME NEW s \in Servers, ScanFinds(s) \/ ScanFindsNone(s) \/ ScanMixed(s)
      PROVE  InboxesAreSent'
  BY <1>1, <1>8, ScanOutcome DEF restore_remote, Renames
<1> QED BY <1>2, <1>3, <1>4, <1>5, <1>6, <1>7, <1>8 DEF Next, Application, ThreadStep, Ended

(* And what is scanned is some of it. *)
LEMMA GotStep ==
  ASSUME TypeOK, Tables, InboxesAreSent, GotIsSent, [Next]_vars
  PROVE  GotIsSent'
<1> SUFFICES ASSUME NEW s \in Servers, pc'[s] = "scan"
             PROVE  got'[s] \in Seq(Sends) /\ got'[s] # <<>>
  BY DEF GotIsSent
<1>1. CASE Recv(s)
  <2> DEFINE c == Current(s)
  <2>1. PICK n \in 1..Len(inbox[c]) : got' = [got EXCEPT ![s] = SubSeq(inbox[c], 1, n)]
    BY <1>1 DEF Recv
  <2>2. c \in Clients
    <3>1. slot[s] \in Slots /\ remote_fd[s][slot[s]] \in Fds
      BY <1>1, SlotFacts, TypeParts DEF Recv
    <3> QED BY <3>1, FdFacts, SlotIsOpen DEF Current
  <2> HIDE DEF c
  <2>3. inbox[c] \in Seq(Sends) /\ Len(inbox[c]) \in Nat
    BY <2>2, LenProperties DEF InboxesAreSent
  <2>4. n \in Int /\ 1 <= n /\ n - 1 + 1 = n
    BY <2>3
  <2>5. \A k \in 1..n : inbox[c][k] \in Sends
    BY <2>3, ElementOfSeq
  <2>6. SubSeq(inbox[c], 1, n) \in Seq(Sends) /\ Len(SubSeq(inbox[c], 1, n)) = n
    <3>1. /\ SubSeq(inbox[c], 1, n) \in Seq(Sends)
          /\ Len(SubSeq(inbox[c], 1, n)) = IF 1 <= n THEN n - 1 + 1 ELSE 0
      BY <2>4, <2>5, SubSeqProperties
    <3> QED BY <2>4, <3>1
  <2>7. got'[s] = SubSeq(inbox[c], 1, n)
    BY <2>1, TypeParts DEF ServerTypes
  <2> QED BY <2>4, <2>6, <2>7, EmptySeq
<1>2. CASE ~Recv(s)
  BY <1>2, ScanStays DEF GotIsSent
<1> QED BY <1>1, <1>2

(* A server that goes on with its slots is one further. *)
LEMMA NextSlotMoves ==
  ASSUME TypeOK, NEW s \in Servers, NextSlot(s)
  PROVE  /\ \A t \in Servers : t # s => pc'[t] = pc[t] /\ slot'[t] = slot[t]
         /\ pc'[s] # "scan"
         /\ pc'[s] = "handle" => slot'[s] = slot[s] + 1
<1>1. CASE slot[s] < SlotCount
  BY <1>1, TypeParts DEF NextSlot, Goto, ServerTypes
<1>2. CASE ~(slot[s] < SlotCount)
  BY <1>2, TypeParts DEF NextSlot, Goto, ServerTypes
<1> QED BY <1>1, <1>2

(* Closing the connection in one slot, or those in one server's table, leaves
   those in other slots, or other tables, alone. *)
SameSlot(t, j) ==
  /\ remote_fd'[t][j] = remote_fd[t][j]
  /\ owner'[remote_fd[t][j]] = owner[remote_fd[t][j]]
  /\ inbox'[owner[remote_fd[t][j]]] = inbox[owner[remote_fd[t][j]]]
  /\ hungUp'[owner[remote_fd[t][j]]] = hungUp[owner[remote_fd[t][j]]]

(* Freeing a slot leaves the other slots and their clients as they were. *)
LEMMA RestoreLeavesOthers ==
  ASSUME TypeOK, Tables, NEW s \in Servers, NEW i \in Slots, remote_fd[s][i] \in Fds,
         restore_remote(s, i),
         NEW t \in Servers, NEW j \in Slots, ~(t = s /\ j = i), remote_fd'[t][j] # None
  PROVE  SameSlot(t, j)
<1>1. remote_fd'[t][j] = remote_fd[t][j]
  BY TypeParts DEF restore_remote, TableTypes
<1>2. remote_fd[t][j] # remote_fd[s][i]
  BY <1>1 DEF Tables, SlotsHoldOwnClients
<1>3. /\ remote_fd[t][j] \in Fds
      /\ owner[remote_fd[t][j]] # None /\ owner[remote_fd[t][j]] \in Clients
  BY <1>1, SlotIsOpen
<1>4. owner[remote_fd[t][j]] # owner[remote_fd[s][i]]
  BY <1>2, <1>3 DEF Tables, OwnersDiffer
<1>5. owner'[remote_fd[t][j]] = owner[remote_fd[t][j]]
  BY <1>2, <1>3, TypeParts DEF restore_remote, TableTypes
<1>6. Closed({owner[remote_fd[s][i]]})
  BY DEF restore_remote
<1> QED BY <1>1, <1>3, <1>4, <1>5, <1>6, TypeParts DEF SameSlot, Closed, ClientTypes

(* A server that quits leaves the tables of the others as they were. *)
LEMMA QuitLeavesOthers ==
  ASSUME TypeOK, Tables, NEW s \in Servers, QuitClear(s),
         NEW t \in Servers, NEW j \in Slots, t # s, remote_fd'[t][j] # None
  PROVE  SameSlot(t, j)
<1>1. remote_fd'[t][j] = remote_fd[t][j]
  BY TypeParts DEF QuitClear, TableTypes
<1>2. /\ remote_fd[t][j] \in Fds
      /\ owner[remote_fd[t][j]] # None /\ owner[remote_fd[t][j]] \in Clients
      /\ conn[owner[remote_fd[t][j]]] = "accepted"
  BY <1>1, SlotIsOpen
<1>3. \A f \in InTable(s) :
        f \in Fds /\ f # remote_fd[t][j] /\ owner[f] # owner[remote_fd[t][j]]
  <2> SUFFICES ASSUME NEW f \in InTable(s)
               PROVE  f \in Fds /\ f # remote_fd[t][j] /\ owner[f] # owner[remote_fd[t][j]]
    OBVIOUS
  <2>1. PICK i \in Slots : f = remote_fd[s][i] /\ f # None
    BY TypeParts DEF InTable, Range, TableTypes
  <2>2. f \in Fds /\ f # remote_fd[t][j]
    BY <2>1, SlotIsOpen DEF Tables, SlotsHoldOwnClients
  <2> QED BY <1>2, <2>2 DEF Tables, OwnersDiffer
<1>4. owner'[remote_fd[t][j]] = owner[remote_fd[t][j]]
  BY <1>2, <1>3 DEF QuitClear
<1>5. owner[remote_fd[t][j]] \notin Pending(s) \cup {owner[f] : f \in InTable(s)}
  BY <1>2, <1>3 DEF Pending
<1>6. Closed(Pending(s) \cup {owner[f] : f \in InTable(s)})
  BY DEF QuitClear
<1> QED BY <1>1, <1>2, <1>4, <1>5, <1>6, TypeParts DEF SameSlot, Closed, ClientTypes

(* What is ready stays readable until its server has handled it. *)
LEMMA ReadyStep ==
  ASSUME TypeOK, Tables, ScansItsSlot, ~Wild, ReadyIsReadable, [Next]_vars
  PROVE  ReadyIsReadable'
<1> SUFFICES ASSUME NEW s \in Servers, NEW i \in Slots,
                    Ahead(s, i)', remote_fd'[s][i] \in ready'[s]
             PROVE  \/ inbox'[owner'[remote_fd'[s][i]]] # <<>>
                    \/ hungUp'[owner'[remote_fd'[s][i]]]
  BY DEF ReadyIsReadable
<1> USE DEF Ahead
<1>1. ASSUME Ahead(s, i), ready'[s] = ready[s], SameSlot(s, i)
      PROVE  \/ inbox'[owner'[remote_fd'[s][i]]] # <<>>
             \/ hungUp'[owner'[remote_fd'[s][i]]]
  BY <1>1 DEF ReadyIsReadable, SameSlot
<1>2. remote_fd'[s][i] # None
  <2>1. TypeOK'
    BY TypeStep
  <2> QED BY <2>1, FdFacts, TypeParts DEF ServerTypes
<1>3. ASSUME NEW t \in Servers, InitAndRun(t) \/ InitFails(t) \/ Quit(t) \/ QuitJoin(t)
      PROVE  Ahead(s, i) /\ UNCHANGED ready /\ SameSlot(s, i)
  BY <1>3, TypeParts DEF InitAndRun, InitFails, Quit, QuitJoin, Goto, thread, sock, stream,
     ServerTypes, SameSlot
<1>4. ASSUME NEW t \in Servers, QuitClear(t)
      PROVE  Ahead(s, i) /\ UNCHANGED ready /\ SameSlot(s, i)
  <2>1. t # s /\ Ahead(s, i)
    BY <1>4, TypeParts DEF QuitClear, Body, Goto, ServerTypes
  <2> QED BY <1>2, <1>4, <2>1, QuitLeavesOthers DEF QuitClear
<1>5. ASSUME NEW c \in Clients, Connect(c)
      PROVE  Ahead(s, i) /\ UNCHANGED ready /\ SameSlot(s, i)
  BY <1>5 DEF Connect, thread, sock, SameSlot
<1>6. ASSUME NEW c \in Clients, Send(c) \/ HangUp(c)
      PROVE  \/ inbox'[owner'[remote_fd'[s][i]]] # <<>>
             \/ hungUp'[owner'[remote_fd'[s][i]]]
  <2>1. Ahead(s, i) /\ UNCHANGED <<ready, remote_fd, owner>>
    BY <1>6 DEF Send, HangUp, thread, sock
  <2>2. owner[remote_fd[s][i]] \in Clients
    BY <1>2, <2>1, SlotIsOpen
  <2>3. \/ inbox[owner[remote_fd[s][i]]] # <<>>
        \/ hungUp[owner[remote_fd[s][i]]]
    BY <2>1 DEF ReadyIsReadable
  <2>4. CASE Send(c)
    <3>1. PICK m \in Sends : inbox' = [inbox EXCEPT ![c] = Append(@, m)]
      BY <2>4 DEF Send
    <3>2. Append(inbox[c], m) # <<>>
      <4>1. inbox[c] \in Seq(Segments) /\ m \in Segments
        BY TypeParts, BoundsAssumption DEF ClientTypes
      <4> QED BY <4>1, AppendProperties
    <3> QED BY <2>1, <2>2, <2>3, <2>4, <3>1, <3>2, TypeParts DEF Send, ClientTypes
  <2>5. CASE HangUp(c)
    BY <2>1, <2>2, <2>3, <2>5, TypeParts DEF HangUp, ClientTypes
  <2> QED BY <1>6, <2>4, <2>5
<1>7. ASSUME NEW t \in Servers, Start(t) \/ Loop(t) \/ SelectFails(t) \/ SelectCleared(t)
      PROVE  Ahead(s, i) /\ ready'[s] = ready[s] /\ SameSlot(s, i)
  BY <1>7, TypeParts DEF Start, Loop, SelectFails, SelectCleared, Goto, sock, stream,
     ServerTypes, SameSlot
<1>8. ASSUME NEW t \in Servers, SelectReturns(t)
      PROVE  \/ inbox'[owner'[remote_fd'[s][i]]] # <<>>
             \/ hungUp'[owner'[remote_fd'[s][i]]]
  <2>1. UNCHANGED <<slot, remote_fd, owner, inbox, hungUp>>
    BY <1>8 DEF SelectReturns, sock, stream
  <2>2. CASE t = s
    <3>1. ready'[s] = Readable(s)
      BY <1>8, <2>2, TypeParts DEF SelectReturns, ServerTypes
    <3> QED BY <2>1, <3>1 DEF Readable
  <2>3. CASE t # s
    <3>1. Ahead(s, i) /\ ready'[s] = ready[s]
      BY <1>8, <2>3, TypeParts DEF SelectReturns, Goto, ServerTypes
    <3> QED BY <1>1, <2>1, <3>1 DEF SameSlot
  <2> QED BY <2>2, <2>3
<1>9. ASSUME NEW t \in Servers, Accept(t)
      PROVE  Ahead(s, i) /\ UNCHANGED ready /\ SameSlot(s, i)
  <2> DEFINE fd   == Min(FreeFds)
             free == {j \in Slots : remote_fd[t][j] = None}
  <2>1. t # s /\ Ahead(s, i)
    BY <1>9, TypeParts DEF Accept, Goto, ServerTypes
  <2>2. UNCHANGED <<ready, inbox, hungUp>>
    BY <1>9 DEF Accept
  <2>3. remote_fd'[s] = remote_fd[s]
    <3>1. remote_fd' = IF free = {} THEN remote_fd
                       ELSE [remote_fd EXCEPT ![t][Min(free)] = fd]
      BY <1>9 DEF Accept, FreeFds
    <3> HIDE DEF fd, free
    <3> QED BY <2>1, <3>1, TypeParts DEF TableTypes
  <2>4. PICK c \in Pending(t) : owner' = [owner EXCEPT ![fd] = c]
    BY <1>9 DEF Accept, FreeFds
  <2>5. owner[fd] = None
    BY <2>4, FdIsLeft DEF Tables, FreeFds, Pending
  <2>6. remote_fd[s][i] \in Fds /\ owner[remote_fd[s][i]] # None
    BY <1>2, <2>3, SlotIsOpen
  <2> HIDE DEF fd
  <2>7. owner'[remote_fd[s][i]] = owner[remote_fd[s][i]]
    BY <2>4, <2>5, <2>6, TypeParts DEF TableTypes
  <2> QED BY <2>1, <2>2, <2>3, <2>7 DEF SameSlot
<1>10. ASSUME NEW t \in Servers, NextSlot(t), pc[t] \in {"handle", "scan"}
       PROVE  Ahead(s, i) /\ ~(s = t /\ i = slot[t])
  BY <1>10, NextSlotMoves, TypeParts, BoundsAssumption DEF ServerTypes, Slots
<1>11. ASSUME NEW t \in Servers, SkipSlot(t)
       PROVE  Ahead(s, i) /\ UNCHANGED ready /\ SameSlot(s, i)
  BY <1>10, <1>11 DEF SkipSlot, sock, stream, SameSlot
<1>12. ASSUME NEW t \in Servers, NoHandler(t) \/ RecvEnd(t)
       PROVE  Ahead(s, i) /\ UNCHANGED ready /\ SameSlot(s, i)
  <2>1. /\ slot[t] \in Slots /\ remote_fd[t][slot[t]] \in Fds /\ pc[t] = "handle"
        /\ restore_remote(t, slot[t]) /\ NextSlot(t) /\ UNCHANGED ready
    BY <1>12, SlotFacts, TypeParts DEF NoHandler, RecvEnd, AtSlot
  <2> QED BY <1>2, <1>10, <2>1, RestoreLeavesOthers
<1>13. ASSUME NEW t \in Servers, Recv(t)
       PROVE  Ahead(s, i) /\ UNCHANGED ready /\ SameSlot(s, i)
  <2> DEFINE c == Current(t)
  <2>1. UNCHANGED <<slot, ready, remote_fd, owner, hungUp>>
    BY <1>13 DEF Recv, sock
  <2>2. PICK n \in 1..Len(inbox[c]) :
          inbox' = [inbox EXCEPT ![c] = SubSeq(@, n + 1, Len(@))]
    BY <1>13 DEF Recv
  <2>3. slot[t] \in Slots /\ remote_fd[t][slot[t]] \in Fds
    BY <1>13, SlotFacts, TypeParts DEF Recv
  <2>4. Ahead(s, i) /\ ~(s = t /\ i = slot[t])
    BY <1>13, <2>1, <2>3, TypeParts DEF Recv, Goto, AtSlot, ServerTypes, Slots
  <2>5. remote_fd[s][i] # remote_fd[t][slot[t]]
    BY <1>2, <2>1, <2>3, <2>4 DEF Tables, SlotsHoldOwnClients
  <2>6. owner[remote_fd[s][i]] # c /\ owner[remote_fd[s][i]] \in Clients
    BY <1>2, <2>1, <2>3, <2>5, SlotIsOpen DEF Tables, OwnersDiffer, Current
  <2> HIDE DEF c
  <2>7. inbox'[owner[remote_fd[s][i]]] = inbox[owner[remote_fd[s][i]]]
    BY <2>2, <2>6, TypeParts DEF ClientTypes
  <2> QED BY <2>1, <2>4, <2>7 DEF SameSlot
<1>15. ASSUME NEW t \in Servers, ScanFinds(t) \/ ScanFindsNone(t) \/ ScanMixed(t)
       PROVE  Ahead(s, i) /\ UNCHANGED ready /\ SameSlot(s, i)
  <2>1. Scan(t)
    BY <1>15 DEF ScanFinds, ScanFindsNone, ScanMixed
  <2>2. Ahead(s, i) /\ ~(s = t /\ i = slot[t]) /\ UNCHANGED ready
    BY <1>10, <2>1 DEF Scan
  <2>3. slot[t] \in Slots /\ remote_fd[t][slot[t]] \in Fds
    BY <2>1, SlotFacts, TypeParts DEF Scan, ScansItsSlot, TableTypes
  <2>4. CASE restore_remote(t, slot[t])
    BY <1>2, <2>2, <2>3, <2>4, RestoreLeavesOthers
  <2>5. CASE Renames(t)
    BY <2>2, <2>5 DEF Renames, SameSlot
  <2> QED BY <1>15, <2>4, <2>5, ScanOutcome
<1>14. CASE UNCHANGED vars
  BY <1>1, <1>14 DEF vars, thread, sock, stream, SameSlot
<1> QED
  BY <1>1, <1>3, <1>4, <1>5, <1>6, <1>7, <1>8, <1>9, <1>11, <1>12, <1>13, <1>14, <1>15
     DEF Next, Application, ThreadStep, Ended

-----------------------------------------------------------------------------

(* A whole segment that was received is a packet, *)
LEMMA PacketsAreFound ==
  ASSUME Sends \cap Halves = {}, NEW segments \in Seq(Sends), segments # <<>>
  PROVE  Ends(segments) # {}
<1>1. 1 \in DOMAIN segments
  BY LenProperties, EmptySeq
<1>2. segments[1] \in Sends
  BY <1>1, ElementOfSeq, LenProperties
<1>3. segments[1] \notin Halves
  BY <1>2
<1> QED BY <1>1, <1>3 DEF Ends

(* and who goes by a name of a handler, or by none, gets a handler. *)
LEMMA KnownIsHeard ==
  ASSUME TypeOK, NEW s \in Servers, NEW i \in Slots,
         handlers[s] # <<>>, remote_name[s][i] # UNKNOWN
  PROVE  findHandlerByName(s, remote_name[s][i]) # None
<1>1. handlers[s] = Types
  BY TypeParts DEF ServerTypes
<1>2. remote_name[s][i] \in Range(Types) \cup {DEFAULT}
  BY TypeParts DEF TableTypes, Names
<1>3. Range(Types) \subseteq Names /\ Types[1] \in Range(Types)
  <2>1. 1 \in DOMAIN Types
    BY TypesAssumption, LenProperties, EmptySeq
  <2> QED BY <2>1 DEF Range, Names
<1> QED BY <1>1, <1>2, <1>3, NamesAssumption DEF findHandlerByName

(* Of the steps, only the restoring of a slot and free_socket close a
   connection. *)
ClosesOnlyIfRemoteQuit ==
  \A c \in Clients :
    /\ conn[c] = "accepted" /\ conn'[c] = "closed"
    /\ quit[peer[c]] = quit'[peer[c]]
    /\ handlers[peer[c]] # <<>> /\ registered[c] # UNKNOWN
    /\ ~muddled[c] /\ peer[c] \notin mixed
    => hungUp[c]

(* The step that closes a connection: RecvEnd has nothing to read, so that the
   client hung up. *)
LEMMA RemoteQuitStep ==
  ASSUME Sends \cap Halves = {},
         TypeOK, Tables, ScansItsSlot, ~Wild, ReadyIsReadable, GotIsSent, [Next]_vars
  PROVE  ClosesOnlyIfRemoteQuit
<1> SUFFICES ASSUME NEW c \in Clients, conn[c] = "accepted", conn'[c] = "closed",
                    quit[peer[c]] = quit'[peer[c]],
                    handlers[peer[c]] # <<>>, registered[c] # UNKNOWN,
                    ~muddled[c], peer[c] \notin mixed
             PROVE  hungUp[c]
  BY DEF ClosesOnlyIfRemoteQuit
<1>1. ASSUME NEW s \in Servers, QuitClear(s)
      PROVE  FALSE
  <2>1. c \in Pending(s) \cup {owner[f] : f \in InTable(s)}
    BY <1>1 DEF QuitClear, Closed
  <2>2. PICK f \in InTable(s) : c = owner[f]
    BY <2>1 DEF Pending
  <2>3. PICK i \in Slots : f = remote_fd[s][i] /\ f # None
    BY TypeParts DEF InTable, Range, TableTypes
  <2>4. peer[c] = s
    BY <2>2, <2>3 DEF Tables, SlotsHoldOwnClients
  <2> QED BY <1>1, <2>4, TypeParts DEF QuitClear, ServerTypes
<1>2. ASSUME NEW s \in Servers, NoHandler(s) \/ RecvEnd(s)
      PROVE  hungUp[c]
  <2>1. /\ slot[s] \in Slots /\ remote_fd[s][slot[s]] \in Fds
        /\ restore_remote(s, slot[s]) /\ AtSlot(s)
    BY <1>2, SlotFacts, TypeParts DEF NoHandler, RecvEnd
  <2>2. c = Current(s)
    BY <2>1 DEF restore_remote, Closed, Current
  <2>3. /\ peer[c] = s /\ registered[c] = remote_name[s][slot[s]]
    BY <2>1, <2>2, FdFacts DEF Tables, SlotsHoldOwnClients, Current
  <2>4. Heard(s)
    BY <2>1, <2>3, KnownIsHeard DEF Heard
  <2>5. inbox[c] # <<>> \/ hungUp[c]
    <3>1. slot[s] >= slot[s]
      BY <2>1 DEF Slots
    <3> QED BY <2>1, <2>2, <3>1 DEF ReadyIsReadable, Ahead, AtSlot, Current
  <2>6. CASE RecvEnd(s)
    BY <2>2, <2>5, <2>6 DEF RecvEnd
  <2> QED BY <1>2, <2>4, <2>6 DEF NoHandler
<1>7. ASSUME NEW s \in Servers, ScanFinds(s) \/ ScanFindsNone(s) \/ ScanMixed(s)
      PROVE  FALSE
  <2>1. Scan(s) /\ slot[s] \in Slots /\ remote_fd[s][slot[s]] \in Fds
    BY <1>7, SlotFacts, TypeParts
       DEF ScanFinds, ScanFindsNone, ScanMixed, Scan, ScansItsSlot, TableTypes
  <2>2. CASE Renames(s)
    BY <2>2 DEF Renames
  <2>3. CASE restore_remote(s, slot[s])
    <3>1. c = Current(s)
      BY <2>3 DEF restore_remote, Closed, Current
    <3>2. peer[c] = s
      BY <2>1, <3>1, FdFacts DEF Tables, SlotsHoldOwnClients, Current
    <3>3. Ends(got[s]) # {}
      BY <2>1, PacketsAreFound DEF Scan, GotIsSent
    <3>4. ~ScanFinds(s)
      BY DEF ScanFinds
    <3> QED BY <1>7, <3>2, <3>3, <3>4 DEF ScanFindsNone, ScanMixed
  <2> QED BY <1>7, <2>2, <2>3, ScanOutcome
<1>3. ASSUME NEW s \in Servers, \/ InitAndRun(s) \/ InitFails(s) \/ Quit(s) \/ QuitJoin(s)
                                \/ Start(s) \/ Loop(s) \/ SkipSlot(s) \/ Recv(s)
                                \/ SelectReturns(s) \/ SelectFails(s) \/ SelectCleared(s)
      PROVE  FALSE
  BY <1>3 DEF InitAndRun, InitFails, Quit, QuitJoin, Start, Loop, SkipSlot, Recv,
     SelectReturns, SelectFails, SelectCleared, stream
<1>4. ASSUME NEW s \in Servers, Accept(s)
      PROVE  FALSE
  <2>1. PICK d \in Clients : conn' = [conn EXCEPT ![d] = "accepted"]
    BY <1>4 DEF Accept, Pending
  <2> QED BY <2>1, TypeParts DEF ClientTypes
<1>5. ASSUME NEW d \in Clients, Connect(d) \/ Send(d) \/ HangUp(d)
      PROVE  FALSE
  BY <1>5, TypeParts DEF Connect, Send, HangUp, ClientTypes
<1>6. CASE UNCHANGED vars
  BY <1>6 DEF vars, stream
<1> QED BY <1>1, <1>2, <1>3, <1>4, <1>5, <1>6, <1>7 DEF Next, Application, ThreadStep, Ended

(* If every segment is a whole packet, a client whose name has a handler is
   closed only after it hung up, or when its server quits, or when another
   server received while what it sent was scanned. *)
Served == InboxesAreSent /\ (~Wild => ReadyIsReadable /\ GotIsSent)
THEOREM WholePacketsAreServed ==
  ASSUME Sends \cap Halves = {}
  PROVE  Spec => ClosedOnlyIfRemoteQuit
<1>1. Init => Served
  <2> SUFFICES ASSUME Init PROVE Served
    OBVIOUS
  <2>1. InboxesAreSent
    BY EmptySeq DEF Init, InboxesAreSent
  <2>2. ReadyIsReadable
    BY DEF Init, ReadyIsReadable, Ahead
  <2>3. GotIsSent
    BY DEF Init, GotIsSent
  <2> QED BY <2>1, <2>2, <2>3 DEF Served
<1>2. IInv /\ Served /\ [Next]_vars => Served'
  <2> SUFFICES ASSUME IInv, Served, [Next]_vars PROVE Served'
    OBVIOUS
  <2>1. InboxesAreSent'
    BY InboxStep DEF IInv, Served
  <2>2. CASE Wild
    <3>1. UNCHANGED vars
      BY <2>2 DEF Next, Ended
    <3>2. Wild'
      BY <2>2, <3>1 DEF Wild, vars, thread
    <3> QED BY <2>1, <3>2 DEF Served
  <2>3. CASE ~Wild
    BY <2>1, <2>3, ReadyStep, GotStep DEF IInv, Served
  <2> QED BY <2>2, <2>3
<1>3. IInv /\ Served /\ [Next]_vars => [ClosesOnlyIfRemoteQuit]_vars
  <2> SUFFICES ASSUME IInv, Served, [Next]_vars PROVE [ClosesOnlyIfRemoteQuit]_vars
    OBVIOUS
  <2>1. CASE Wild
    BY <2>1 DEF Next, Ended
  <2>2. CASE ~Wild
    BY <2>2, RemoteQuitStep DEF IInv, Served
  <2> QED BY <2>1, <2>2
<1>4. ClosedOnlyIfRemoteQuit <=> [][ClosesOnlyIfRemoteQuit]_vars
  BY DEF ClosedOnlyIfRemoteQuit, ClosesOnlyIfRemoteQuit
<1> QED BY <1>1, <1>2, <1>3, <1>4, InitIInv, StepIInv, PTL DEF Spec
=============================================================================
