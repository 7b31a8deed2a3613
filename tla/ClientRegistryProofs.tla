------------------------ MODULE ClientRegistryProofs ------------------------
(***************************************************************************)
(* Proofs about ClientRegistry, for every set of ids, descriptors and      *)
(* client addresses.  The two maps and the online flags mirror each other  *)
(* only because a descriptor accept returns is not registered, which needs *)
(* the descriptor sets: so IInv joins MapsAgree and WatchIsSound.          *)
(***************************************************************************)
EXTENDS ClientRegistry, TLAPS

IInv == TypeOK /\ MapsAgree /\ WatchIsSound

-----------------------------------------------------------------------------
(* Lemmas.                                                                 *)

\* The fields of an online object have their types; an unused address has no
\* online object.
LEMMA OnlineFields ==
  ASSUME TypeOK, NEW p \in Client
  PROVE  /\ clients[p].is_online \in BOOLEAN
         /\ clients[p].is_online => Online(p)
         /\ Online(p) => /\ clients[p] \in [id : ID, socket : FD, is_online : BOOLEAN]
                         /\ clients[p].id \in ID
                         /\ clients[p].socket \in FD
<1>1. CASE clients[p] = Unused
  BY <1>1 DEF Online, Allocated, Unused
<1>2. CASE clients[p] # Unused
  <2>1. clients[p] \in [id : ID, socket : FD, is_online : BOOLEAN]
    BY <1>2 DEF TypeOK
  <2>2. QED  BY <1>2, <2>1, Zenon DEF Online, Allocated
<1>3. QED  BY <1>1, <1>2

\* A descriptor that accept returns is in no map: every registered connection
\* is watched and every watched one is open.
LEMMA FreshDescriptor ==
  ASSUME IInv, Running, NEW fd \in FD, LowestFree(fd)
  PROVE  /\ map_connected_clients[fd] = NULL
         /\ \A p \in Client : Online(p) => clients[p].socket # fd
<1>1. map_connected_clients[fd] = NULL
  BY DEF IInv, WatchIsSound, LowestFree
<1>2. ASSUME NEW p \in Client, Online(p), clients[p].socket = fd
      PROVE  FALSE
  BY <1>1, <1>2, NullAssumption DEF IInv, MapsAgree
<1>3. QED  BY <1>1, <1>2

\* Under the invariant an accepted connection either registers a new object or
\* changes no table: no known id is ever offline.
LEMMA AcceptCreatesOrRefuses ==
  ASSUME IInv, NEW id \in ID, NEW fd \in FD, AcceptClient(id, fd)
  PROVE  \/ map_id_clients[id] = NULL /\ CreateClient(id, fd)
         \/ UNCHANGED <<clients, map_id_clients, map_connected_clients>>
<1>1. Running  BY DEF AcceptClient, Running
<1>2. CASE map_id_clients[id] = NULL
  BY <1>2 DEF AcceptClient, connect_client
<1>3. CASE map_id_clients[id] # NULL
  <2>1. clients[map_id_clients[id]].is_online
    BY <1>1, <1>3 DEF IInv, MapsAgree, Online
  <2>2. QED  BY <1>3, <2>1 DEF AcceptClient, connect_client
<1>4. QED  BY <1>2, <1>3

-----------------------------------------------------------------------------
(* The inductive step, one lemma per action.                               *)

LEMMA AcceptPreserves ==
  ASSUME IInv, NEW id \in ID, NEW fd \in FD, AcceptClient(id, fd)
  PROVE  IInv'
<1>0. Running /\ Running'  BY DEF AcceptClient, Running
<1>1. /\ open_fds' = open_fds \cup {fd}
      /\ read_fds' = read_fds \cup {fd}
      /\ max_nr_fd' = IF max_nr_fd < fd THEN fd ELSE max_nr_fd
      /\ server' = server
      /\ LowestFree(fd)
  BY DEF AcceptClient
<1>2. /\ read_fds' \subseteq open_fds'
      /\ \A other \in read_fds' : other <= max_nr_fd'
  BY <1>0, <1>1, FdAssumption DEF IInv, TypeOK, WatchIsSound
<1>3. /\ open_fds' \subseteq FD /\ read_fds' \subseteq FD /\ max_nr_fd' \in Nat
      /\ server' \in {"running", "stopped", "died"}
  BY <1>1, FdAssumption DEF IInv, TypeOK
<1>4. CASE UNCHANGED <<clients, map_id_clients, map_connected_clients>>
  <2>1. TypeOK'  BY <1>3, <1>4 DEF IInv, TypeOK
  <2>2. MapsAgree'
    BY <1>0, <1>4 DEF IInv, MapsAgree, Online, Allocated, Running
  <2>3. WatchIsSound'  BY <1>0, <1>1, <1>2, <1>4 DEF IInv, WatchIsSound
  <2>4. QED  BY <2>1, <2>2, <2>3 DEF IInv
<1>5. CASE map_id_clients[id] = NULL /\ CreateClient(id, fd)
  <2>1. PICK p \in Client :
          /\ ~Allocated(p)
          /\ clients' = [clients EXCEPT ![p] = NewClient(id, fd)]
          /\ map_connected_clients' = Insert(map_connected_clients, fd, p)
          /\ map_id_clients' = Insert(map_id_clients, id, p)
    BY <1>5 DEF CreateClient
  <2>2. map_connected_clients[fd] = NULL  BY <1>0, <1>1, FreshDescriptor
  <2>3. /\ map_connected_clients' = [map_connected_clients EXCEPT ![fd] = p]
        /\ map_id_clients' = [map_id_clients EXCEPT ![id] = p]
    BY <1>5, <2>1, <2>2 DEF Insert
  <2>4. TypeOK'
    BY <1>3, <2>1, <2>3 DEF IInv, TypeOK, NewClient
  <2>5. /\ clients'[p] = NewClient(id, fd)
        /\ \A q \in Client \ {p} : clients'[q] = clients[q]
    BY <2>1 DEF IInv, TypeOK
  <2>6. /\ Online(p)' /\ clients'[p].id = id /\ clients'[p].socket = fd
        /\ \A q \in Client \ {p} : Online(q)' <=> Online(q)
    <3>1. NewClient(id, fd) # Unused
      BY NullAssumption DEF NewClient, Unused
    <3>2. QED  BY <2>5, <3>1 DEF Online, Allocated, NewClient
  <2>7. ~Online(p)  BY <2>1 DEF Online
  <2>8. MapsAgree'
    <3>1. ASSUME NEW other \in FD, map_connected_clients'[other] # NULL
          PROVE  (LET q == map_connected_clients[other]
                  IN  Online(q) /\ clients[q].socket = other)'
      <4>1. CASE other = fd
        BY <2>3, <2>6, <4>1 DEF IInv, TypeOK, Online, Allocated
      <4>2. CASE other # fd
        <5>1. map_connected_clients'[other] = map_connected_clients[other]
          BY <2>3, <4>2 DEF IInv, TypeOK
        <5>2. /\ map_connected_clients[other] \in Client
              /\ Online(map_connected_clients[other])
              /\ clients[map_connected_clients[other]].socket = other
          BY <1>0, <3>1, <5>1 DEF IInv, TypeOK, MapsAgree
        <5>3. QED  BY <2>5, <2>6, <2>7, <5>1, <5>2 DEF Online, Allocated
      <4>3. QED  BY <4>1, <4>2
    <3>2. ASSUME NEW other \in ID, map_id_clients'[other] # NULL
          PROVE  (LET q == map_id_clients[other]
                  IN  Online(q) /\ clients[q].id = other)'
      <4>1. CASE other = id
        BY <2>3, <2>6, <4>1 DEF IInv, TypeOK, Online, Allocated
      <4>2. CASE other # id
        <5>1. map_id_clients'[other] = map_id_clients[other]
          BY <2>3, <4>2 DEF IInv, TypeOK
        <5>2. /\ map_id_clients[other] \in Client
              /\ Online(map_id_clients[other])
              /\ clients[map_id_clients[other]].id = other
          BY <1>0, <3>2, <5>1 DEF IInv, TypeOK, MapsAgree
        <5>3. QED  BY <2>5, <2>6, <2>7, <5>1, <5>2 DEF Online, Allocated
      <4>3. QED  BY <4>1, <4>2
    <3>3. ASSUME NEW q \in Client, Online(q)'
          PROVE  /\ map_id_clients'[clients'[q].id] = q
                 /\ map_connected_clients'[clients'[q].socket] = q
      <4>1. CASE q = p
        BY <2>3, <2>6, <4>1 DEF IInv, TypeOK
      <4>2. CASE q # p
        <5>1. /\ Online(q) /\ clients'[q] = clients[q]
              /\ clients[q].id \in ID /\ clients[q].socket \in FD
          BY <2>5, <2>6, <3>3, <4>2, OnlineFields DEF IInv
        <5>2. /\ map_id_clients[clients[q].id] = q
              /\ map_connected_clients[clients[q].socket] = q
          BY <1>0, <5>1 DEF IInv, MapsAgree
        <5>3. clients[q].id # id /\ clients[q].socket # fd
          BY <1>5, <2>2, <5>2, NullAssumption
        <5>4. QED  BY <2>3, <5>1, <5>2, <5>3 DEF IInv, TypeOK
      <4>3. QED  BY <4>1, <4>2
    <3>4. QED  BY <3>1, <3>2, <3>3 DEF MapsAgree
  <2>9. WatchIsSound'
    <3>1. ASSUME NEW other \in FD, map_connected_clients'[other] # NULL
          PROVE  other \in read_fds'
      BY <1>0, <1>1, <2>3, <3>1 DEF IInv, TypeOK, WatchIsSound
    <3>2. QED  BY <1>2, <3>1 DEF WatchIsSound
  <2>10. QED  BY <2>4, <2>8, <2>9 DEF IInv
<1>6. QED  BY <1>4, <1>5, AcceptCreatesOrRefuses

LEMMA LeavePreserves ==
  ASSUME IInv, NEW fd \in FD, ClientLeaves(fd)
  PROVE  IInv'
<1>0. Running /\ Running'  BY DEF ClientLeaves, Running
<1>1. /\ disconnect_client(fd)
      /\ read_fds' = read_fds \ {fd}
      /\ max_nr_fd' = max_nr_fd /\ server' = server
  BY DEF ClientLeaves
<1> DEFINE p == map_connected_clients[fd]
<1>2. CASE /\ p = NULL
           /\ UNCHANGED <<clients, map_id_clients, map_connected_clients, open_fds>>
  <2>1. TypeOK'  BY <1>1, <1>2 DEF IInv, TypeOK
  <2>2. MapsAgree'
    BY <1>0, <1>2 DEF IInv, MapsAgree, Online, Allocated, Running
  <2>3. WatchIsSound'  BY <1>0, <1>1, <1>2 DEF IInv, WatchIsSound
  <2>4. QED  BY <2>1, <2>2, <2>3 DEF IInv
<1>3. CASE /\ p # NULL
           /\ clients' = [clients EXCEPT ![p].is_online = FALSE]
           /\ map_connected_clients' = Erase(map_connected_clients, fd)
           /\ map_id_clients' = Erase(map_id_clients, clients[p].id)
           /\ open_fds' = open_fds \ {fd}
  <2>0. PICK c \in Client : c = p
    BY <1>3 DEF IInv, TypeOK
  <2>1. /\ Online(c) /\ clients[c].socket = fd
        /\ clients[c] \in [id : ID, socket : FD, is_online : BOOLEAN]
        /\ clients[c].id \in ID
    BY <1>0, <1>3, <2>0, OnlineFields DEF IInv, MapsAgree
  <2>2. /\ clients'[c].id = clients[c].id /\ clients'[c].socket = clients[c].socket
        /\ clients'[c] \in [id : ID, socket : FD, is_online : BOOLEAN]
        /\ ~clients'[c].is_online
        /\ \A q \in Client \ {c} : clients'[q] = clients[q]
    BY <1>3, <2>0, <2>1 DEF IInv, TypeOK
  <2>3. ~Online(c)' /\ \A q \in Client \ {c} : Online(q)' <=> Online(q)
    BY <2>2 DEF Online, Allocated
  <2>4. /\ map_connected_clients' = [map_connected_clients EXCEPT ![fd] = NULL]
        /\ map_id_clients' = [map_id_clients EXCEPT ![clients[c].id] = NULL]
    BY <1>3, <2>0 DEF Erase
  <2>5. TypeOK'
    <3>1. clients' \in [Client -> [id : ID, socket : FD, is_online : BOOLEAN] \cup {Unused}]
      BY <1>3, <2>0, <2>1, <2>2 DEF IInv, TypeOK
    <3>2. QED  BY <1>1, <1>3, <2>4, <3>1 DEF IInv, TypeOK
  <2>6. MapsAgree'
    <3>1. ASSUME NEW other \in FD, map_connected_clients'[other] # NULL
          PROVE  (LET q == map_connected_clients[other]
                  IN  Online(q) /\ clients[q].socket = other)'
      <4>1. other # fd /\ map_connected_clients'[other] = map_connected_clients[other]
        BY <2>4, <3>1 DEF IInv, TypeOK
      <4>2. /\ map_connected_clients[other] \in Client
            /\ Online(map_connected_clients[other])
            /\ clients[map_connected_clients[other]].socket = other
        BY <1>0, <3>1, <4>1 DEF IInv, TypeOK, MapsAgree
      <4>3. QED  BY <2>1, <2>2, <2>3, <4>1, <4>2 DEF Online, Allocated
    <3>2. ASSUME NEW other \in ID, map_id_clients'[other] # NULL
          PROVE  (LET q == map_id_clients[other]
                  IN  Online(q) /\ clients[q].id = other)'
      <4>1. /\ other # clients[c].id
            /\ map_id_clients'[other] = map_id_clients[other]
        BY <2>4, <3>2 DEF IInv, TypeOK
      <4>2. /\ map_id_clients[other] \in Client
            /\ Online(map_id_clients[other])
            /\ clients[map_id_clients[other]].id = other
        BY <1>0, <3>2, <4>1 DEF IInv, TypeOK, MapsAgree
      <4>3. QED  BY <2>1, <2>2, <2>3, <4>1, <4>2 DEF Online, Allocated
    <3>3. ASSUME NEW q \in Client, Online(q)'
          PROVE  /\ map_id_clients'[clients'[q].id] = q
                 /\ map_connected_clients'[clients'[q].socket] = q
      <4>1. /\ q # c /\ Online(q) /\ clients'[q] = clients[q]
            /\ clients[q].id \in ID /\ clients[q].socket \in FD
        BY <2>2, <2>3, <3>3, OnlineFields DEF IInv
      <4>2. /\ map_id_clients[clients[q].id] = q
            /\ map_connected_clients[clients[q].socket] = q
        BY <1>0, <4>1 DEF IInv, MapsAgree
      <4>3. map_id_clients[clients[c].id] = c
        BY <1>0, <2>1 DEF IInv, MapsAgree
      <4>4. clients[q].id # clients[c].id /\ clients[q].socket # fd
        BY <2>0, <4>1, <4>2, <4>3
      <4>5. QED  BY <2>4, <4>1, <4>2, <4>4 DEF IInv, TypeOK
    <3>4. QED  BY <3>1, <3>2, <3>3 DEF MapsAgree
  <2>7. WatchIsSound'
    BY <1>0, <1>1, <1>3, <2>4 DEF IInv, TypeOK, WatchIsSound
  <2>8. QED  BY <2>5, <2>6, <2>7 DEF IInv
<1>4. QED  BY <1>1, <1>2, <1>3 DEF disconnect_client

\* Once the server has ended only the types are left to preserve.
LEMMA EndPreserves ==
  ASSUME IInv, close_clients \/ DIE
  PROVE  IInv' /\ ~Running'
<1>1. CASE close_clients
  BY <1>1 DEF IInv, TypeOK, MapsAgree, WatchIsSound, Running, close_clients
<1>2. CASE DIE
  BY <1>2 DEF IInv, TypeOK, MapsAgree, WatchIsSound, Running, DIE
<1>3. QED  BY <1>1, <1>2

-----------------------------------------------------------------------------
(* The invariants.                                                         *)

LEMMA InitIInv == Init => IInv
<1> SUFFICES ASSUME Init PROVE IInv  OBVIOUS
<1>1. TypeOK  BY FdAssumption DEF Init, TypeOK
<1>2. \A p \in Client : ~Online(p)  BY DEF Init, Online, Allocated
<1>3. MapsAgree  BY <1>2 DEF Init, MapsAgree
<1>4. WatchIsSound  BY DEF Init, WatchIsSound
<1>5. QED  BY <1>1, <1>3, <1>4 DEF IInv

LEMMA StepIInv == IInv /\ [Next]_vars => IInv'
<1> SUFFICES ASSUME IInv, [Next]_vars PROVE IInv'  OBVIOUS
<1>1. ASSUME NEW id \in ID, NEW fd \in FD, AcceptClient(id, fd) PROVE IInv'
  BY <1>1, AcceptPreserves
<1>2. ASSUME NEW fd \in FD, ClientLeaves(fd) PROVE IInv'
  BY <1>2, LeavePreserves
<1>3. CASE close_clients  BY <1>3, EndPreserves
<1>4. CASE AcceptFails \/ SocketError
  BY <1>4, EndPreserves DEF AcceptFails, SocketError
<1>5. CASE UNCHANGED vars
  BY <1>5 DEF IInv, TypeOK, MapsAgree, WatchIsSound, Running, Online, Allocated, vars
<1>6. QED  BY <1>1, <1>2, <1>3, <1>4, <1>5 DEF Next

LEMMA Inductive == Spec => []IInv
<1>1. QED  BY InitIInv, StepIInv, PTL DEF Spec

\* Every table of the registry keeps its type (client struct, the two maps,
\* the descriptor sets).
THEOREM TypeCorrect == Spec => []TypeOK
<1>1. IInv => TypeOK  BY DEF IInv
<1>2. QED  BY <1>1, Inductive, PTL

\* connect_client and disconnect_client keep the two maps and the online flags
\* in agreement.
THEOREM MapsAlwaysAgree == Spec => []MapsAgree
<1>1. IInv => MapsAgree  BY DEF IInv
<1>2. QED  BY <1>1, Inductive, PTL

\* The select loop never watches a closed descriptor nor misses a registered one.
THEOREM WatchAlwaysSound == Spec => []WatchIsSound
<1>1. IInv => WatchIsSound  BY DEF IInv
<1>2. QED  BY <1>1, Inductive, PTL

\* Online clients share neither an id nor a socket: the map entry for the
\* shared key would have to lead to both.
THEOREM SessionsDisjoint == Spec => []OneSessionPerId
<1>1. IInv => OneSessionPerId  BY DEF IInv, MapsAgree, OneSessionPerId
<1>2. QED  BY <1>1, Inductive, PTL

\* No step brings an offline client object back: connect_client never finds
\* one, and close_clients frees only objects that are online.
THEOREM OfflineForGood == Spec => OfflineIsFinal
<1> DEFINE A == \A p \in Client :
                  Allocated(p) /\ ~Online(p) => (Allocated(p) /\ ~Online(p))'
<1>1. ASSUME IInv, [Next]_vars PROVE A \/ UNCHANGED vars
  <2> SUFFICES ASSUME NEW q \in Client, Allocated(q), ~Online(q), ~UNCHANGED vars
               PROVE  (Allocated(q) /\ ~Online(q))'
    OBVIOUS
  <2>0. clients[q] # Unused /\ ~clients[q].is_online
    BY DEF Allocated, Online
  <2> SUFFICES clients'[q] = clients[q]
    BY <2>0 DEF Allocated, Online
  <2>1. ASSUME NEW id \in ID, NEW fd \in FD, AcceptClient(id, fd)
        PROVE  clients'[q] = clients[q]
    <3>1. CASE CreateClient(id, fd)
      BY <3>1 DEF CreateClient, IInv, TypeOK
    <3>2. QED  BY <1>1, <2>1, <3>1, AcceptCreatesOrRefuses
  <2>2. ASSUME NEW fd \in FD, ClientLeaves(fd)
        PROVE  clients'[q] = clients[q]
    <3>1. map_connected_clients[fd] # NULL => map_connected_clients[fd] # q
      BY <1>1, <2>0, <2>2 DEF IInv, MapsAgree, Online, ClientLeaves, Running
    <3>2. QED  BY <1>1, <2>2, <3>1 DEF ClientLeaves, disconnect_client, IInv, TypeOK
  <2>3. CASE close_clients
    <3>1. q \notin Registered
      BY <1>1, <2>0, <2>3 DEF IInv, MapsAgree, Online, Registered, close_clients, Running
    <3>2. QED  BY <2>3, <3>1 DEF close_clients
  <2>4. CASE AcceptFails \/ SocketError
    BY <2>4 DEF AcceptFails, SocketError, DIE
  <2>5. QED  BY <1>1, <2>1, <2>2, <2>3, <2>4 DEF Next
<1>2. IInv /\ [Next]_vars => [A]_vars  BY <1>1
<1>3. QED  BY <1>2, Inductive, PTL DEF Spec, OfflineIsFinal

\* While the server runs a live object is neither given back nor made to be of
\* another id, so a pointer to it keeps meaning the same client; and as long as it
\* is online it does not change.
LEMMA LiveObjectsStay ==
  ASSUME IInv, Running, [Next]_vars, Running', NEW p \in Client, Allocated(p)
  PROVE  /\ Allocated(p)' /\ clients'[p].id = clients[p].id
         /\ clients'[p].is_online => clients'[p] = clients[p]
<1>1. /\ clients[p] \in [id : ID, socket : FD, is_online : BOOLEAN]
      /\ clients[p].id \in ID
  BY DEF IInv, TypeOK, Allocated
<1>2. clients'[p] = clients[p] => Allocated(p)' /\ clients'[p].id = clients[p].id
  BY DEF Allocated
<1>3. ASSUME NEW id \in ID, NEW fd \in FD, AcceptClient(id, fd)
      PROVE  clients'[p] = clients[p]
  <2>1. CASE CreateClient(id, fd)
    BY <2>1 DEF CreateClient, IInv, TypeOK
  <2>2. QED  BY <1>3, <2>1, AcceptCreatesOrRefuses
<1>4. ASSUME NEW fd \in FD, ClientLeaves(fd)
      PROVE  /\ Allocated(p)' /\ clients'[p].id = clients[p].id
             /\ clients'[p].is_online => clients'[p] = clients[p]
  <2>1. \/ clients' = clients
        \/ clients' = [clients EXCEPT ![map_connected_clients[fd]].is_online = FALSE]
    BY <1>4 DEF ClientLeaves, disconnect_client
  <2>2. clients'[p] = clients[p] \/ clients'[p] = [clients[p] EXCEPT !.is_online = FALSE]
    BY <2>1 DEF IInv, TypeOK
  <2>3. clients'[p].id = clients[p].id
    BY <1>1, <2>2
  <2>4. clients'[p] # Unused
    BY <1>1, <2>3, NullAssumption DEF Unused
  <2>5. clients'[p].is_online => clients'[p] = clients[p]
    BY <1>1, <2>2
  <2>6. QED  BY <2>3, <2>4, <2>5 DEF Allocated, Unused
<1>5. ~close_clients /\ ~DIE
  BY EndPreserves
<1>6. CASE UNCHANGED vars
  BY <1>2, <1>6 DEF vars
<1>7. QED
  BY <1>2, <1>3, <1>4, <1>5, <1>6 DEF Next, AcceptFails, SocketError

-----------------------------------------------------------------------------
(* The refinement: who is logged in changes as Sessions allows.            *)

\* What a session is, under the invariant: the socket of the object the id's
\* map entry leads to.
LEMMA SessionMeaning ==
  ASSUME IInv, Running, NEW id \in ID
  PROVE  SessionsOf[id] = IF map_id_clients[id] = NULL THEN {}
                          ELSE {clients[map_id_clients[id]].socket}
<1>1. SessionsOf[id] = {fd \in FD : \E p \in Client :
                          Online(p) /\ clients[p].id = id /\ clients[p].socket = fd}
  BY DEF SessionsOf
<1>2. \A p \in Client : Online(p) /\ clients[p].id = id <=>
                         map_id_clients[id] # NULL /\ map_id_clients[id] = p
  BY NullAssumption DEF IInv, MapsAgree
<1>3. map_id_clients[id] # NULL =>
        /\ map_id_clients[id] \in Client
        /\ clients[map_id_clients[id]].socket \in FD
  BY <1>2, OnlineFields DEF IInv, TypeOK
<1>4. QED  BY <1>1, <1>2, <1>3

\* A step that leaves the objects and the server running leaves the sessions.
LEMMA SessionsUnchanged ==
  ASSUME UNCHANGED <<clients, server>>
  PROVE  SessionsOf' = SessionsOf /\ Running' = Running
BY DEF SessionsOf, Running, Online, Allocated

\* The end of the server, in order or in DIE, ends every session.
LEMMA NoSessionsAtEnd ==
  ASSUME ~Running'
  PROVE  SessionsOf' = [id \in ID |-> {}]
BY DEF SessionsOf

LEMMA AcceptRefines ==
  ASSUME IInv, NEW id \in ID, NEW fd \in FD, AcceptClient(id, fd)
  PROVE  Abstract!Login(id, fd) \/ UNCHANGED <<SessionsOf, Running>>
<1>1. Running /\ Running' /\ server' = server /\ LowestFree(fd)
  BY DEF AcceptClient, Running
<1>2. CASE UNCHANGED <<clients, map_id_clients, map_connected_clients>>
  BY <1>1, <1>2, SessionsUnchanged
<1>3. CASE map_id_clients[id] = NULL /\ CreateClient(id, fd)
  <2>1. PICK p \in Client : /\ ~Allocated(p)
                            /\ clients' = [clients EXCEPT ![p] = NewClient(id, fd)]
    BY <1>3 DEF CreateClient
  <2>2. /\ Online(p)' /\ clients'[p].id = id /\ clients'[p].socket = fd
        /\ ~Online(p)
        /\ \A q \in Client \ {p} : clients'[q] = clients[q] /\ (Online(q)' <=> Online(q))
    BY <2>1, NullAssumption DEF IInv, TypeOK, Online, Allocated, NewClient, Unused
  <2>3. SessionsOf[id] = {}  BY <1>1, <1>3, SessionMeaning
  <2>4. \A other \in ID : fd \notin SessionsOf[other]
    <3>1. \A q \in Client : Online(q) => clients[q].socket # fd
      BY <1>1, FreshDescriptor
    <3>2. QED  BY <3>1 DEF SessionsOf
  <2>5. SessionsOf' = [SessionsOf EXCEPT ![id] = {fd}]
    <3>1. \A other \in ID : SessionsOf'[other] =
            {s \in FD : \E q \in Client :
               Online(q)' /\ clients'[q].id = other /\ clients'[q].socket = s}
      BY <1>1 DEF SessionsOf
    <3>2. \A other \in ID : SessionsOf[other] =
            {s \in FD : \E q \in Client :
               Online(q) /\ clients[q].id = other /\ clients[q].socket = s}
      BY <1>1 DEF SessionsOf
    <3>3. ASSUME NEW other \in ID, other # id
          PROVE  SessionsOf'[other] = SessionsOf[other]
      <4>1. \A q \in Client, s \in FD :
              Online(q)' /\ clients'[q].id = other /\ clients'[q].socket = s
                <=> Online(q) /\ clients[q].id = other /\ clients[q].socket = s
        BY <2>2, <3>3
      <4>2. ASSUME NEW s \in FD
            PROVE  s \in SessionsOf'[other] <=> s \in SessionsOf[other]
        BY <3>1, <3>2, <4>1
      <4>3. QED  BY <3>1, <3>2, <4>2
    <3>4. \A q \in Client : ~(Online(q) /\ clients[q].id = id)
      BY <1>1, <1>3, NullAssumption DEF IInv, MapsAgree
    <3>5. SessionsOf'[id] = {fd}
      BY <2>2, <3>1, <3>4
    <3>6. QED  BY <3>3, <3>5 DEF SessionsOf
  <2>6. UNCHANGED Running
    BY <1>1 DEF Running
  <2>7. QED  BY <1>1, <2>3, <2>4, <2>5, <2>6 DEF Abstract!Login
<1>4. QED  BY <1>2, <1>3, AcceptCreatesOrRefuses

LEMMA LeaveRefines ==
  ASSUME IInv, NEW fd \in FD, ClientLeaves(fd)
  PROVE  \/ \E id \in ID : Abstract!Logout(id)
         \/ UNCHANGED <<SessionsOf, Running>>
<1>0. Running /\ Running' /\ server' = server /\ disconnect_client(fd)
  BY DEF ClientLeaves, Running
<1>1. CASE map_connected_clients[fd] = NULL
  BY <1>0, <1>1, SessionsUnchanged DEF disconnect_client
<1>2. CASE map_connected_clients[fd] # NULL
  <2>1. PICK c \in Client : c = map_connected_clients[fd]
    BY <1>2 DEF IInv, TypeOK
  <2>2. /\ Online(c) /\ clients[c].id \in ID /\ clients[c].socket = fd
        /\ clients' = [clients EXCEPT ![c].is_online = FALSE]
        /\ map_id_clients' = Erase(map_id_clients, clients[c].id)
        /\ map_id_clients[clients[c].id] = c
    BY <1>0, <1>2, <2>1, OnlineFields DEF IInv, MapsAgree, disconnect_client
  <2>3. PICK id \in ID : id = clients[c].id
    BY <2>2
  <2>4. IInv'  BY LeavePreserves
  <2>5. map_id_clients' = [map_id_clients EXCEPT ![id] = NULL]
    BY <2>2, <2>3 DEF Erase
  <2>6. SessionsOf[id] # {}
    BY <1>0, <2>1, <2>2, <2>3, SessionMeaning, NullAssumption
  <2>7. SessionsOf' = [SessionsOf EXCEPT ![id] = {}]
    <3>1. \A other \in ID : SessionsOf'[other] =
            {s \in FD : \E q \in Client :
               Online(q)' /\ clients'[q].id = other /\ clients'[q].socket = s}
      BY <1>0 DEF SessionsOf
    <3>2. \A other \in ID : SessionsOf[other] =
            {s \in FD : \E q \in Client :
               Online(q) /\ clients[q].id = other /\ clients[q].socket = s}
      BY <1>0 DEF SessionsOf
    <3>3. /\ ~Online(c)'
          /\ \A q \in Client \ {c} : clients'[q] = clients[q] /\ (Online(q)' <=> Online(q))
      BY <2>2 DEF IInv, TypeOK, Online, Allocated
    <3>4. ASSUME NEW other \in ID, other # id
          PROVE  SessionsOf'[other] = SessionsOf[other]
      <4>1. \A q \in Client, s \in FD :
              Online(q)' /\ clients'[q].id = other /\ clients'[q].socket = s
                <=> Online(q) /\ clients[q].id = other /\ clients[q].socket = s
        BY <2>2, <2>3, <3>3, <3>4
      <4>2. ASSUME NEW s \in FD
            PROVE  s \in SessionsOf'[other] <=> s \in SessionsOf[other]
        BY <3>1, <3>2, <4>1
      <4>3. QED  BY <3>1, <3>2, <4>2
    <3>5. \A q \in Client : Online(q) /\ clients[q].id = id => q = c
      BY <1>0, <2>2, <2>3 DEF IInv, MapsAgree
    <3>6. SessionsOf'[id] = {}
      BY <3>1, <3>3, <3>5
    <3>7. QED  BY <3>4, <3>6 DEF SessionsOf
  <2>8. UNCHANGED Running
    BY <1>0 DEF Running
  <2>9. QED  BY <1>0, <2>6, <2>7, <2>8 DEF Abstract!Logout
<1>3. QED  BY <1>1, <1>2

\* The registry implements Sessions: every login, refusal, departure and end of
\* the server is a step of the abstract specification or changes no session.
THEOREM RegistryImplementsSessions == Spec => ImplementsSessions
<1>1. Init => Abstract!Init
  BY DEF Init, Abstract!Init, SessionsOf, Running, Online, Allocated
<1>2. IInv /\ [Next]_vars => [Abstract!Next]_<<SessionsOf, Running>>
  <2> SUFFICES ASSUME IInv, [Next]_vars PROVE [Abstract!Next]_<<SessionsOf, Running>>  OBVIOUS
  <2>1. ASSUME NEW id \in ID, NEW fd \in FD, AcceptClient(id, fd)
        PROVE  [Abstract!Next]_<<SessionsOf, Running>>
    BY <2>1, AcceptRefines DEF Abstract!Next
  <2>2. ASSUME NEW fd \in FD, ClientLeaves(fd)
        PROVE  [Abstract!Next]_<<SessionsOf, Running>>
    BY <2>2, LeaveRefines DEF Abstract!Next
  <2>3. CASE close_clients \/ AcceptFails \/ SocketError
    <3>1. ~Running'  BY <2>3, EndPreserves DEF AcceptFails, SocketError
    <3>2. Running
      BY <2>3 DEF close_clients, AcceptFails, SocketError, DIE, Running
    <3>3. Running' = FALSE
      BY <3>1 DEF Running
    <3>4. Abstract!Shutdown
      BY <3>1, <3>2, <3>3, NoSessionsAtEnd DEF Abstract!Shutdown
    <3>5. QED  BY <3>4 DEF Abstract!Next
  <2>4. CASE UNCHANGED vars
    BY <2>4, SessionsUnchanged DEF vars
  <2>5. QED  BY <2>1, <2>2, <2>3, <2>4 DEF Next
<1>3. QED  BY <1>1, <1>2, Inductive, PTL DEF Spec, ImplementsSessions, Abstract!Spec
=============================================================================
