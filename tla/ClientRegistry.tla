--------------------------- MODULE ClientRegistry ---------------------------
(***************************************************************************)
(* The server's record of its TCP clients: the client objects on the heap, *)
(* the two hash maps that find them (by id and by socket), and the         *)
(* descriptor sets of the select loop.  One action per event of the loop   *)
(* that touches them; the loop is single-threaded, so a handler is one     *)
(* step.  The text a handler prints and the ip and port fields are left    *)
(* out: nothing reads them back.                                           *)
(***************************************************************************)
EXTENDS Naturals

CONSTANTS
  ID,        \* client ids, the empty one of a peer that closes at once included
  FD,        \* descriptors the process may get for connections (its limit)
  Client,    \* addresses `new client` may return: bounds the logins of a run
  ListenFd,  \* the larger of socket_TCP and socket_UDP
  NULL       \* the null pointer, and the value of an unset field

ASSUME NullAssumption == NULL \notin Client /\ NULL \notin ID /\ NULL \notin FD
ASSUME FdAssumption   == FD \subseteq Nat /\ ListenFd \in Nat

VARIABLES
  clients,                \* the heap: the object at each address
  map_id_clients,         \* id -> client object
  map_connected_clients,  \* socket -> client object
  open_fds,               \* connections accepted and not closed by the server
  read_fds,               \* the connections select watches
  max_nr_fd,              \* the highest descriptor select is told about
  server                  \* "running", "stopped" by exit, or "died" in DIE

vars == <<clients, map_id_clients, map_connected_clients,
          open_fds, read_fds, max_nr_fd, server>>

-----------------------------------------------------------------------------
(* The client struct and std::unordered_map.                               *)

Unused == [id |-> NULL, socket |-> NULL, is_online |-> FALSE]

\* Slip: the socket keeps its default value.
NewClient_NoSocket(id, fd) == [id |-> id, socket |-> 0, is_online |-> TRUE]

NewClient(id, fd) == [id |-> id, socket |-> fd, is_online |-> TRUE]

\* A new object, or the memory a deleted one has given back.
Allocated(p) == clients[p] # Unused

\* unordered_map::insert keeps the value of a key that is already there.
Insert(map, key, p) == IF map[key] = NULL THEN [map EXCEPT ![key] = p] ELSE map

Erase(map, key) == [map EXCEPT ![key] = NULL]

TypeOK ==
  /\ clients \in [Client -> [id : ID, socket : FD, is_online : BOOLEAN] \cup {Unused}]
  /\ map_id_clients \in [ID -> Client \cup {NULL}]
  /\ map_connected_clients \in [FD -> Client \cup {NULL}]
  /\ open_fds \subseteq FD
  /\ read_fds \subseteq FD
  /\ max_nr_fd \in Nat
  /\ server \in {"running", "stopped", "died"}

Init ==
  /\ clients = [p \in Client |-> Unused]
  /\ map_id_clients = [id \in ID |-> NULL]
  /\ map_connected_clients = [fd \in FD |-> NULL]
  /\ open_fds = {}
  /\ read_fds = {}
  /\ max_nr_fd = ListenFd
  /\ server = "running"

-----------------------------------------------------------------------------
(* Connecting.                                                             *)

\* A second connection under an id that is online: it is sent "exit".
IsDuplicate(id, fd) ==
  LET p == map_id_clients[id]
  IN  p # NULL /\ clients[p].is_online /\ clients[p].socket # fd

\* The id is unknown: a new object, in both maps.
CreateClient(id, fd) ==
  \E p \in Client :
    /\ ~Allocated(p)
    /\ clients' = [clients EXCEPT ![p] = NewClient(id, fd)]
    /\ map_connected_clients' = Insert(map_connected_clients, fd, p)
    /\ map_id_clients' = Insert(map_id_clients, id, p)

\* The id is known and offline: its object moves to the new socket.
ReviveClient(id, fd) ==
  LET p == map_id_clients[id]
  IN  /\ clients' = [clients EXCEPT ![p].socket = fd, ![p].is_online = TRUE]
      /\ map_connected_clients' =
           Insert(Erase(map_connected_clients, clients[p].socket), fd, p)
      /\ map_id_clients' = Insert(Erase(map_id_clients, id), id, p)

\* Slip: a login under a known id always takes the object over.
connect_client_NoOnlineCheck(id, fd) ==
  IF map_id_clients[id] = NULL THEN CreateClient(id, fd) ELSE ReviveClient(id, fd)

\* A known id that is online changes nothing: the caller keeps the connection
\* open and watched, outside both maps.
connect_client(id, fd) ==
  IF map_id_clients[id] = NULL
  THEN CreateClient(id, fd)
  ELSE IF clients[map_id_clients[id]].is_online
       THEN UNCHANGED <<clients, map_id_clients, map_connected_clients>>
       ELSE ReviveClient(id, fd)

\* accept returns the lowest descriptor that is free.
LowestFree(fd) ==
  /\ fd \in FD \ open_fds
  /\ \A other \in FD \ open_fds : fd <= other

\* The listening socket is readable: accept, watch the connection, read the id.
AcceptClient(id, fd) ==
  /\ server = "running"
  /\ LowestFree(fd)
  /\ open_fds' = open_fds \cup {fd}
  /\ read_fds' = read_fds \cup {fd}
  /\ max_nr_fd' = IF max_nr_fd < fd THEN fd ELSE max_nr_fd
  /\ connect_client(id, fd)
  /\ UNCHANGED server

-----------------------------------------------------------------------------
(* Disconnecting.                                                          *)

\* Slips: one of the updates of a registered client is missing.
disconnect_client_Part(fd, update) ==
  LET p == map_connected_clients[fd]
  IN  \/ /\ p = NULL
         /\ UNCHANGED <<clients, map_id_clients, map_connected_clients, open_fds>>
      \/ /\ p # NULL
         /\ clients' = [clients EXCEPT ![p].is_online = ("flag" \notin update)]
         /\ map_connected_clients' =
              IF "socket" \in update THEN Erase(map_connected_clients, fd)
                                     ELSE map_connected_clients
         /\ map_id_clients' = IF "id" \in update THEN Erase(map_id_clients, clients[p].id)
                                                 ELSE map_id_clients
         /\ open_fds' = open_fds \ {fd}
disconnect_client_KeepsSocket(fd) == disconnect_client_Part(fd, {"flag", "id"})
disconnect_client_KeepsId(fd)     == disconnect_client_Part(fd, {"flag", "socket"})
disconnect_client_KeepsFlag(fd)   == disconnect_client_Part(fd, {"socket", "id"})

\* Only a registered connection is closed; the object stays on the heap.
disconnect_client(fd) ==
  LET p == map_connected_clients[fd]
  IN  \/ /\ p = NULL
         /\ UNCHANGED <<clients, map_id_clients, map_connected_clients, open_fds>>
      \/ /\ p # NULL
         /\ clients' = [clients EXCEPT ![p].is_online = FALSE]
         /\ map_connected_clients' = Erase(map_connected_clients, fd)
         /\ map_id_clients' = Erase(map_id_clients, clients[p].id)
         /\ open_fds' = open_fds \ {fd}

\* Slip: no FD_CLR.
ClientLeaves_NoFdClr(fd) ==
  /\ server = "running"
  /\ fd \in read_fds
  /\ disconnect_client(fd)
  /\ UNCHANGED <<read_fds, max_nr_fd, server>>

\* End of file, or a line that begins with "exit", on a watched connection.
ClientLeaves(fd) ==
  /\ server = "running"
  /\ fd \in read_fds
  /\ disconnect_client(fd)
  /\ read_fds' = read_fds \ {fd}
  /\ UNCHANGED <<max_nr_fd, server>>

-----------------------------------------------------------------------------
(* The end of the server.  The kernel closes what the process left open.   *)

Registered == {map_id_clients[id] : id \in ID} \ {NULL}

\* "exit" or an empty line on stdin: close_clients, then return from main.
close_clients ==
  /\ server = "running"
  /\ clients' = [p \in Client |-> IF p \in Registered THEN Unused ELSE clients[p]]
  /\ open_fds' = {}
  /\ server' = "stopped"
  /\ UNCHANGED <<map_id_clients, map_connected_clients, read_fds, max_nr_fd>>

\* The DIE macro: exit(EXIT_FAILURE) from inside a handler.
DIE ==
  /\ server = "running"
  /\ open_fds' = {}
  /\ server' = "died"
  /\ UNCHANGED <<clients, map_id_clients, map_connected_clients, read_fds, max_nr_fd>>

\* accept finds no free descriptor.
AcceptFails ==
  /\ FD \subseteq open_fds
  /\ DIE

\* recv or send fails because the other end has reset the connection.
SocketError == DIE

Next ==
  \/ \E id \in ID, fd \in FD : AcceptClient(id, fd)
  \/ \E fd \in FD : ClientLeaves(fd)
  \/ close_clients
  \/ AcceptFails
  \/ SocketError

Spec == Init /\ [][Next]_vars

-----------------------------------------------------------------------------
(* Properties.                                                             *)

Running == server = "running"

Online(p) == Allocated(p) /\ clients[p].is_online

\* The two maps and the online flags describe the same set of sessions: each
\* map entry leads to an online object that the other map also leads to, and
\* every online object is in both maps (connect_client, disconnect_client).
MapsAgree ==
  Running =>
    /\ \A fd \in FD :
         LET p == map_connected_clients[fd]
         IN  p # NULL => Online(p) /\ clients[p].socket = fd
    /\ \A id \in ID :
         LET p == map_id_clients[id]
         IN  p # NULL => Online(p) /\ clients[p].id = id
    /\ \A p \in Client :
         Online(p) => /\ map_id_clients[clients[p].id] = p
                      /\ map_connected_clients[clients[p].socket] = p

\* Every registered connection is watched by select, and select watches only
\* descriptors that are open (else it fails and the server dies) and that lie
\* within the range it is told to examine (accept and the recv branch of main).
WatchIsSound ==
  Running =>
    /\ \A fd \in FD : map_connected_clients[fd] # NULL => fd \in read_fds
    /\ read_fds \subseteq open_fds
    /\ \A fd \in read_fds : fd <= max_nr_fd

\* Two online client objects never share an id, nor a socket: whatever the
\* order of logins, refusals, departures and reuse of descriptors, a message
\* meant for one client cannot reach another's connection through them.
OneSessionPerId ==
  Running =>
    \A p, q \in Client :
      /\ Online(p) /\ Online(q)
      /\ clients[p].id = clients[q].id \/ clients[p].socket = clients[q].socket
      => p = q

\* A client object that has gone offline stays offline: the branch of
\* connect_client that brings an offline client back (lines 447-465) is never
\* taken, because disconnect_client removes the id it would look up.
OfflineIsFinal ==
  [][\A p \in Client : Allocated(p) /\ ~Online(p) => (Allocated(p) /\ ~Online(p))']_vars

\* Who is logged in, read off the heap as send_udp_packet reads it.
SessionsOf ==
  [id \in ID |->
     IF Running
     THEN {fd \in FD : \E p \in Client :
             Online(p) /\ clients[p].id = id /\ clients[p].socket = fd}
     ELSE {}]

Abstract == INSTANCE Sessions WITH session <- SessionsOf, up <- Running

\* The registry implements Sessions: an id logs in over one connection at a
\* time, a duplicate login changes nothing, a departure ends one session only.
ImplementsSessions == Abstract!Spec

-----------------------------------------------------------------------------
(* What the repository says of the registry and the code does not do.      *)

\* readme.txt:50 "Daca era offline, doar voi schimba informatiile
\* clientului": a returning client gets its old object back, so an id never
\* has two objects.
OneObjectPerId ==
  \A p, q \in Client :
    Allocated(p) /\ Allocated(q) /\ clients[p].id = clients[q].id => p = q

\* readme.txt:49-50 "deci trebuie sa inchid socketul": the connection of a
\* refused duplicate is closed, so every open connection is being watched.
NoForgottenSocket == Running => open_fds \subseteq read_fds
=============================================================================
