---------------------------- MODULE BrokerProofs ----------------------------
(***************************************************************************)
(* Proofs about Broker, for every instance of its constants.               *)
(***************************************************************************)
EXTENDS Broker, TLAPS, FiniteSetTheorems

\* Every handler of the server is a step of the registry or leaves it alone.
LEMMA StepIsRegistryStep ==
  ASSUME [Next]_vars
  PROVE  [Registry!Next]_(Registry!vars)
<1>1. ASSUME NEW id \in ID, NEW fd \in FD, Accept(id, fd)
      PROVE  Registry!Next
  BY <1>1 DEF Accept, Registry!Next
<1>2. ASSUME NEW fd \in FD, Leave(fd)
      PROVE  Registry!Next
  BY <1>2 DEF Leave, Registry!Next
<1>3. ASSUME NEW fd \in FD, BadCommand(fd)
      PROVE  Registry!Next
  BY <1>3 DEF BadCommand, Registry!Next, Registry!SocketError
<1>4. ASSUME NEW fd \in FD, NEW name \in Name,
             Subscribe(fd, name) \/ Unsubscribe(fd, name)
      PROVE  UNCHANGED Registry!vars
  BY <1>4 DEF Subscribe, Unsubscribe, registry, Registry!vars
<1>5. ASSUME NEW name \in Published, Publish(name)
      PROVE  UNCHANGED Registry!vars
  BY <1>5 DEF Publish, registry, Registry!vars
<1>6. CASE Dropped
  BY <1>6 DEF Dropped, registry, Registry!vars
<1>7. CASE Stop
  BY <1>7 DEF Stop, Registry!Next
<1>8. CASE \/ StopFails
           \/ ReadOrReplyFails
           \/ AcceptFails
           \/ \E name \in Published : PublishFails(name)
  BY <1>8 DEF StopFails, ReadOrReplyFails, AcceptFails, PublishFails, SendFails,
              Registry!Next
<1>9. CASE UNCHANGED vars
  BY <1>9 DEF vars, registry, Registry!vars
<1>10. QED
  BY <1>1, <1>2, <1>3, <1>4, <1>5, <1>6, <1>7, <1>8, <1>9 DEF Next

\* The server's handling of its clients is the registry's: what is proved of
\* ClientRegistry holds of the server with its topics and packets.
THEOREM BrokerImplementsRegistry == Spec => Registry!Spec
<1>1. Init => Registry!Init  BY DEF Init
<1>2. [Next]_vars => [Registry!Next]_(Registry!vars)  BY StepIsRegistryStep
<1>3. QED  BY <1>1, <1>2, PTL DEF Spec, Registry!Spec

-----------------------------------------------------------------------------
(* The invariant of the topic table.  An entry is a pointer: that it leads *)
(* to the id it was made for needs that a live object is never given to    *)
(* another client, which is the registry's invariant.                      *)

R == INSTANCE ClientRegistryProofs
T == INSTANCE TopicTableProofs

\* Every entry points to an object that has not been given back.
EntriesAllocated ==
  \A i \in DOMAIN topics : \A p \in Range(topics[i].subscribers) : R!Allocated(p)

IInv ==
  /\ R!IInv
  /\ T!TypeOK /\ T!Unique
  /\ Running => T!Owned /\ EntriesAllocated

LEMMA InitIInv == Init => IInv
<1> SUFFICES ASSUME Init PROVE IInv  OBVIOUS
<1>1. R!Init
  BY DEF Init, Registry!Init, R!Init, Registry!Unused, R!Unused
<1>2. R!IInv
  BY <1>1, R!InitIInv, NullAssumption, FdAssumption DEF R!NullAssumption, R!FdAssumption
<1>3. topics = <<>>
  BY DEF Init, Table!Init
<1>4. T!TypeOK /\ T!Unique /\ T!Owned /\ EntriesAllocated
  BY <1>3 DEF T!TypeOK, T!Unique, T!Owned, EntriesAllocated
<1>5. QED  BY <1>2, <1>4 DEF IInv

\* The registry's steps under its two instances are the same.
LEMMA SameRegistry ==
  ASSUME [Registry!Next]_(Registry!vars)
  PROVE  [R!Next]_(R!vars)
BY DEF Registry!Next, R!Next, Registry!vars, R!vars,
       Registry!AcceptClient, R!AcceptClient, Registry!connect_client, R!connect_client,
       Registry!CreateClient, R!CreateClient, Registry!ReviveClient, R!ReviveClient,
       Registry!Allocated, R!Allocated, Registry!Unused, R!Unused,
       Registry!NewClient, R!NewClient, Registry!Insert, R!Insert,
       Registry!Erase, R!Erase, Registry!LowestFree, R!LowestFree,
       Registry!ClientLeaves, R!ClientLeaves,
       Registry!disconnect_client, R!disconnect_client,
       Registry!close_clients, R!close_clients, Registry!Registered, R!Registered,
       Registry!AcceptFails, R!AcceptFails, Registry!SocketError, R!SocketError,
       Registry!DIE, R!DIE

LEMMA RegistryAccept ==
  ASSUME NEW id \in ID, NEW fd \in FD, Accept(id, fd)
  PROVE  R!AcceptClient(id, fd)
BY DEF Accept, Registry!AcceptClient, R!AcceptClient,
   Registry!connect_client, R!connect_client, Registry!CreateClient, R!CreateClient,
   Registry!ReviveClient, R!ReviveClient, Registry!Allocated, R!Allocated,
   Registry!Unused, R!Unused, Registry!NewClient, R!NewClient,
   Registry!Insert, R!Insert, Registry!Erase, R!Erase, Registry!LowestFree, R!LowestFree

LEMMA RegistryKept ==
  ASSUME R!IInv, [Next]_vars
  PROVE  R!IInv'
BY StepIsRegistryStep, SameRegistry, R!StepIInv, NullAssumption, FdAssumption
   DEF R!NullAssumption, R!FdAssumption

\* A step that enters at most one live client, p, keeps what is said of the
\* entries; NULL stands for none.
LEMMA EntriesStay ==
  ASSUME IInv, Running, UNCHANGED registry, T!TypeOK',
         NEW p, p # NULL => R!Allocated(p), NEW name, T!EntersOnly(p, name)
  PROVE  (T!Owned /\ EntriesAllocated)'
<1>1. clients' = clients
  BY DEF registry
<1>2. T!Owned'
  BY <1>1, T!OwnerStays DEF IInv
<1>3. ASSUME NEW i \in DOMAIN topics', NEW q \in Range(topics'[i].subscribers)
      PROVE  R!Allocated(q)'
  <2>1. topics'[i].subscribers \in Seq(Client)
    <3>1. topics'[i] \in T!Topic
      BY DEF T!TypeOK
    <3>2. QED  BY <3>1 DEF T!Topic
  <2>2. q \in Client
    BY <2>1 DEF Range
  <2>3. R!Allocated(q)
    BY <2>2, NullAssumption DEF IInv, EntriesAllocated, T!EntersOnly, T!Range, Range
  <2>4. QED  BY <1>1, <2>3 DEF R!Allocated, R!Unused
<1>4. QED  BY <1>2, <1>3 DEF EntriesAllocated

\* A command is from a client that is on the heap.
LEMMA SenderIsLive ==
  ASSUME IInv, NEW fd \in FD, CommandFrom(fd)
  PROVE  Running /\ ClientOf(fd) \in Client /\ R!Allocated(ClientOf(fd))
BY DEF IInv, CommandFrom, ClientOf, Running, R!IInv, R!TypeOK, R!MapsAgree, R!Running, R!Online

TableInv == T!TypeOK /\ T!Unique /\ (Running => T!Owned /\ EntriesAllocated)

\* The commands change the table the same way under its two instances.
LEMMA SameTable ==
  ASSUME NEW fd \in FD, NEW name \in Name
  PROVE  /\ Subscribe(fd, name) => T!subscribe_client(ClientOf(fd), name)
         /\ Unsubscribe(fd, name) => T!unsubscribe_client(ClientOf(fd), name)
BY DEF Subscribe, Unsubscribe, Table!subscribe_client, T!subscribe_client,
       Table!WithTopic, T!WithTopic, Table!IndexWithTopic, T!IndexWithTopic,
       Table!exact_topic_index, T!exact_topic_index,
       Table!get_subscriber_index, T!get_subscriber_index,
       Table!unsubscribe_client, T!unsubscribe_client,
       Table!SelectInSeq, T!SelectInSeq, Table!RemoveAt, T!RemoveAt, Table!Min, T!Min

LEMMA CommandEnters ==
  ASSUME IInv, NEW fd \in FD, NEW name \in Name,
         Subscribe(fd, name) \/ Unsubscribe(fd, name)
  PROVE  /\ Running /\ ClientOf(fd) \in Client /\ R!Allocated(ClientOf(fd))
         /\ (T!TypeOK /\ T!Unique)' /\ T!NamesStay
         /\ T!EntersOnly(ClientOf(fd), name)
         /\ Unsubscribe(fd, name) => T!EntersNone
<1> DEFINE p == ClientOf(fd)
<1>1. CommandFrom(fd)
  BY DEF Subscribe, Unsubscribe
<1>2. Running /\ p \in Client /\ R!Allocated(p)
  BY <1>1, SenderIsLive
<1>3. /\ T!subscribe_client(p, name) \/ T!unsubscribe_client(p, name)
      /\ Unsubscribe(fd, name) => T!unsubscribe_client(p, name)
  BY SameTable
<1> HIDE DEF p
<1>4. T!subscribe_client(p, name) =>
        (T!TypeOK /\ T!Unique)' /\ T!NamesStay /\ T!EntersOnly(p, name)
  BY <1>2, T!SubscribePreserves DEF IInv
<1>5. T!unsubscribe_client(p, name) =>
        (T!TypeOK /\ T!Unique)' /\ T!NamesStay /\ T!EntersNone
  BY <1>2, T!UnsubscribePreserves DEF IInv
<1>6. T!EntersNone => T!EntersOnly(p, name)
  BY DEF T!EntersNone, T!EntersOnly
<1>7. QED  BY <1>2, <1>3, <1>4, <1>5, <1>6 DEF p

LEMMA CommandPreserves ==
  ASSUME IInv, NEW fd \in FD, NEW name \in Name,
         Subscribe(fd, name) \/ Unsubscribe(fd, name)
  PROVE  TableInv' /\ T!NamesStay
<1>1. UNCHANGED registry
  BY DEF Subscribe, Unsubscribe
<1>2. (T!Owned /\ EntriesAllocated)'
  BY <1>1, CommandEnters, EntriesStay
<1>3. QED  BY <1>2, CommandEnters DEF TableInv

\* And so does a packet.
LEMMA SamePacket ==
  ASSUME NEW name \in Published, Publish(name)
  PROVE  T!send_udp_packet(name)
BY DEF Publish, Table!send_udp_packet, T!send_udp_packet,
       Table!matching_topic_index, T!matching_topic_index,
       Table!SelectInSeq, T!SelectInSeq, Table!Min, T!Min

LEMMA PublishEntersNone ==
  ASSUME IInv, NEW name \in Published, Publish(name)
  PROVE  Running /\ (T!TypeOK /\ T!Unique)' /\ T!NamesStay /\ T!EntersNone
<1>1. Running
  BY DEF Publish
<1>2. name \in Name /\ Matches(name, name)
  BY PublishedAssumption, MatchesAssumption
<1>3. T!send_udp_packet(name)
  BY SamePacket
<1>4. QED  BY <1>1, <1>2, <1>3, T!PacketPreserves DEF IInv

LEMMA PublishPreserves ==
  ASSUME IInv, NEW name \in Published, Publish(name)
  PROVE  TableInv' /\ T!NamesStay
<1>1. UNCHANGED registry
  BY DEF Publish
<1>2. T!EntersOnly(NULL, name)
  BY PublishEntersNone DEF T!EntersNone, T!EntersOnly
<1>3. (T!Owned /\ EntriesAllocated)'
  BY <1>1, <1>2, PublishEntersNone, EntriesStay
<1>4. QED  BY <1>3, PublishEntersNone DEF TableInv

\* A step of the registry alone: the entries keep pointing at the same clients.
LEMMA OtherPreserves ==
  ASSUME IInv, [Next]_vars, topics' = topics
  PROVE  TableInv' /\ T!NamesStay
<1>1. (T!TypeOK /\ T!Unique)' /\ T!NamesStay
  BY T!TableUnchanged DEF IInv
<1>2. ASSUME Running'
      PROVE  (T!Owned /\ EntriesAllocated)'
  <2>1. Running
    BY <1>2, StepIsRegistryStep DEF Running, Registry!Next, Registry!vars,
       Registry!AcceptClient, Registry!ClientLeaves, Registry!close_clients,
       Registry!AcceptFails, Registry!SocketError, Registry!DIE
  <2>2. R!Running /\ R!Running' /\ [R!Next]_(R!vars)
    BY <1>2, <2>1, StepIsRegistryStep, SameRegistry DEF Running, R!Running
  <2>3. \A q \in Client : R!Allocated(q) =>
          R!Allocated(q)' /\ clients'[q].id = clients[q].id
    BY <2>2, R!LiveObjectsStay, NullAssumption, FdAssumption
       DEF IInv, R!NullAssumption, R!FdAssumption
  <2>4. \A i \in DOMAIN topics : \A q \in Range(topics[i].subscribers) :
          q \in Client /\ R!Allocated(q)
    <3>1. \A i \in DOMAIN topics : topics[i] \in T!Topic
      BY DEF IInv, T!TypeOK
    <3>2. \A i \in DOMAIN topics : topics[i].subscribers \in Seq(Client)
      BY <3>1 DEF T!Topic
    <3>3. QED  BY <2>1, <3>2 DEF IInv, EntriesAllocated, Range
  <2>5. QED  BY <2>1, <2>3, <2>4 DEF IInv, T!Owned, EntriesAllocated, T!Range, Range
<1>3. QED  BY <1>1, <1>2 DEF TableInv

LEMMA StepIInv ==
  ASSUME IInv, [Next]_vars
  PROVE  IInv' /\ T!NamesStay
<1>1. R!IInv'
  BY RegistryKept DEF IInv
<1>2. TableInv' /\ T!NamesStay
  <2>1. ASSUME NEW fd \in FD, NEW name \in Name,
               Subscribe(fd, name) \/ Unsubscribe(fd, name)
        PROVE  TableInv' /\ T!NamesStay
    BY <2>1, CommandPreserves
  <2>2. ASSUME NEW name \in Published, Publish(name)
        PROVE  TableInv' /\ T!NamesStay
    BY <2>2, PublishPreserves
  <2>3. \/ topics' = topics
        \/ \E fd \in FD, name \in Name : Subscribe(fd, name) \/ Unsubscribe(fd, name)
        \/ \E name \in Published : Publish(name)
    BY DEF Next, vars, Accept, Leave, BadCommand, Dropped, Stop, StopFails,
           ReadOrReplyFails, AcceptFails, PublishFails, SendFails
  <2>4. QED  BY <2>1, <2>2, <2>3, OtherPreserves
<1>3. QED  BY <1>1, <1>2 DEF IInv, TableInv

LEMMA Inductive == Spec => []IInv
<1>1. IInv /\ [Next]_vars => IInv'  BY StepIInv
<1>2. QED  BY InitIInv, <1>1, PTL DEF Spec

-----------------------------------------------------------------------------
(* The invariants.                                                         *)

\* Whatever subscriptions and packets come in whatever order, the two ways into
\* the vector of topics (by name and by match) never enter a name twice.
THEOREM NamesAlwaysUnique == Spec => []UniqueNames
<1>1. IInv => UniqueNames  BY DEF IInv, T!Unique, UniqueNames
<1>2. QED  BY <1>1, Inductive, PTL

\* The entries of a topic are all of one id while the server runs, although
\* clients leave, come back as new objects and reuse descriptors.
THEOREM OneOwnerPerTopic == Spec => []SingleOwner
<1>1. IInv => SingleOwner  BY DEF IInv, T!Owned, SingleOwner, T!Range, Range
<1>2. QED  BY <1>1, Inductive, PTL

\* Once a packet's topic has a place in the vector no later step moves it.
THEOREM RoutesNeverMove == Spec => RouteStable
<1> DEFINE A == \A name \in Published :
                  Table!matching_topic_index(name) # 0 =>
                    Table!matching_topic_index(name)' = Table!matching_topic_index(name)
<1>1. ASSUME IInv, [Next]_vars PROVE A
  <2>1. IInv' /\ T!NamesStay
    BY <1>1, StepIInv
  <2>2. ASSUME NEW name \in Published, T!matching_topic_index(name) # 0
        PROVE  T!matching_topic_index(name)' = T!matching_topic_index(name)
    BY <1>1, <2>1, <2>2, T!RouteStays, PublishedAssumption DEF IInv
  <2>3. QED  BY <2>2 DEF Table!matching_topic_index, T!matching_topic_index,
                   Table!SelectInSeq, T!SelectInSeq, Table!Min, T!Min
<1>2. IInv /\ [Next]_vars => [A]_vars  BY <1>1
<1>3. QED  BY <1>2, Inductive, PTL DEF Spec, RouteStable

-----------------------------------------------------------------------------
(* What the sessions have asked for.                                       *)

\* An entry that leads to an online object is in a topic that the session of this
\* object has subscribed to by its name.
Entitled ==
  \A i \in DOMAIN topics : \A p \in Range(topics[i].subscribers) :
    clients[p].is_online => topics[i].name \in asked[clients[p].socket]

AskedInv ==
  /\ asked \in [FD -> SUBSET Name]
  /\ \A fd \in FD : ClientOf(fd) = NULL => asked[fd] = {}
  /\ Running => Entitled

LEMMA EntriesAreClients ==
  ASSUME IInv, NEW i \in DOMAIN topics, NEW p \in Range(topics[i].subscribers)
  PROVE  p \in Client /\ (Running => R!Allocated(p))
<1>1. topics[i] \in T!Topic
  BY DEF IInv, T!TypeOK
<1>2. topics[i].subscribers \in Seq(Client)
  BY <1>1 DEF T!Topic
<1>3. p \in Client
  BY <1>2 DEF Range
<1>4. QED  BY <1>3 DEF IInv, EntriesAllocated

\* A connection that is registered leads to an online object of its socket.
LEMMA HolderIsOnline ==
  ASSUME R!IInv, Running, NEW fd \in FD, ClientOf(fd) # NULL
  PROVE  /\ ClientOf(fd) \in Client /\ R!Online(ClientOf(fd))
         /\ clients[ClientOf(fd)].socket = fd /\ clients[ClientOf(fd)].id \in ID
         /\ map_id_clients[clients[ClientOf(fd)].id] = ClientOf(fd)
<1>1. R!MapsAgree /\ R!TypeOK /\ R!Running
  BY DEF R!IInv, R!Running, Running
<1>2. /\ ClientOf(fd) \in Client /\ R!Online(ClientOf(fd))
      /\ clients[ClientOf(fd)].socket = fd
  BY <1>1 DEF ClientOf, R!MapsAgree, R!TypeOK
<1>3. clients[ClientOf(fd)].id \in ID
  BY <1>1, <1>2, R!OnlineFields, NullAssumption, FdAssumption
     DEF R!NullAssumption, R!FdAssumption
<1>4. QED  BY <1>1, <1>2, <1>3 DEF R!MapsAgree

\* And an online object to a registered connection.
LEMMA OnlineIsHolder ==
  ASSUME R!IInv, Running, NEW p \in Client, clients[p].is_online
  PROVE  /\ clients[p].socket \in FD /\ clients[p].id \in ID
         /\ R!Online(p) /\ ClientOf(clients[p].socket) = p
         /\ map_id_clients[clients[p].id] = p
<1>1. R!MapsAgree /\ R!TypeOK /\ R!Running
  BY DEF R!IInv, R!Running, Running
<1>2. R!Online(p) /\ clients[p].socket \in FD /\ clients[p].id \in ID
  BY <1>1, R!OnlineFields, NullAssumption, FdAssumption
     DEF R!NullAssumption, R!FdAssumption
<1>3. QED  BY <1>1, <1>2 DEF R!MapsAgree, ClientOf

\* What a step does to the objects on the heap.
LEMMA HeapStep ==
  ASSUME IInv, [Next]_vars, Running'
  PROVE  /\ Running
         /\ \A q \in Client : R!Allocated(q) =>
              /\ R!Allocated(q)' /\ clients'[q].id = clients[q].id
              /\ clients'[q].is_online => clients'[q] = clients[q]
<1>1. Running
  BY StepIsRegistryStep DEF Running, Registry!Next, Registry!vars,
     Registry!AcceptClient, Registry!ClientLeaves, Registry!close_clients,
     Registry!AcceptFails, Registry!SocketError, Registry!DIE
<1>2. R!Running /\ R!Running' /\ [R!Next]_(R!vars)
  BY <1>1, StepIsRegistryStep, SameRegistry DEF Running, R!Running
<1>3. QED
  BY <1>1, <1>2, R!LiveObjectsStay, NullAssumption, FdAssumption
     DEF IInv, R!NullAssumption, R!FdAssumption

\* A step that leaves the table keeps entries entitled, if nothing is forgotten
\* of those who stay online.
LEMMA EntitledStays ==
  ASSUME IInv, [Next]_vars, Running', Entitled, topics' = topics,
         \A q \in Client : R!Allocated(q) /\ clients'[q].is_online =>
           asked[clients[q].socket] \subseteq asked'[clients[q].socket]
  PROVE  Entitled'
<1>1. ASSUME NEW i \in DOMAIN topics, NEW p \in Range(topics[i].subscribers),
             clients'[p].is_online
      PROVE  topics[i].name \in asked'[clients'[p].socket]
  <2>1. p \in Client /\ R!Allocated(p) /\ clients'[p] = clients[p]
    BY <1>1, HeapStep, EntriesAreClients
  <2>2. QED  BY <1>1, <2>1 DEF Entitled
<1>2. QED  BY <1>1 DEF Entitled

LEMMA LeaveKeepsAsked ==
  ASSUME IInv, IInv', AskedInv, NEW fd \in FD, Leave(fd)
  PROVE  AskedInv'
<1>1. /\ Running /\ Running' /\ topics' = topics /\ [Next]_vars
      /\ asked' = [asked EXCEPT ![fd] = {}]
  BY DEF Leave, Registry!ClientLeaves, Running, Next
<1>2. ClientOf(fd)' = NULL
  BY DEF Leave, Registry!ClientLeaves, Registry!disconnect_client, Registry!Erase,
         ClientOf, IInv, R!IInv, R!TypeOK
<1>3. \A other \in FD \ {fd} : ClientOf(other)' = ClientOf(other)
  BY DEF Leave, Registry!ClientLeaves, Registry!disconnect_client, Registry!Erase,
         ClientOf, IInv, R!IInv, R!TypeOK
<1>4. ASSUME NEW q \in Client, R!Allocated(q), clients'[q].is_online
      PROVE  asked'[clients[q].socket] = asked[clients[q].socket]
  <2>1. clients'[q] = clients[q]
    BY <1>1, <1>4, HeapStep
  <2>2. /\ clients[q].socket \in FD
        /\ map_connected_clients'[clients[q].socket] = q
    <3>1. R!IInv' /\ (Running)'
      BY <1>1 DEF IInv
    <3>2. R!MapsAgree' /\ R!TypeOK' /\ R!Running'
      BY <3>1 DEF R!IInv, R!Running, Running
    <3>3. clients[q].socket \in FD /\ R!Online(q)
      BY <1>1, <1>4, <2>1, OnlineIsHolder DEF IInv
    <3>4. R!Online(q)'
      BY <2>1, <3>3 DEF R!Online, R!Allocated, R!Unused
    <3>5. QED  BY <2>1, <3>2, <3>3, <3>4 DEF R!MapsAgree
  <2>3. clients[q].socket # fd
    BY <1>2, <2>2, NullAssumption DEF ClientOf
  <2>4. QED  BY <1>1, <2>1, <2>2, <2>3 DEF AskedInv
<1>5. Entitled'
  BY <1>1, <1>4, EntitledStays DEF AskedInv
<1>6. QED  BY <1>1, <1>2, <1>3, <1>5 DEF AskedInv

LEMMA SubscribeKeepsAsked ==
  ASSUME IInv, IInv', AskedInv, NEW fd \in FD, NEW name \in Name, Subscribe(fd, name)
  PROVE  AskedInv'
<1> DEFINE p == ClientOf(fd)
<1>1. /\ CommandFrom(fd) /\ UNCHANGED registry
      /\ asked' = [asked EXCEPT ![fd] = asked[fd] \cup {name}]
  BY DEF Subscribe
<1>2. Running /\ p \in Client /\ clients[p].socket = fd
  BY <1>1, HolderIsOnline DEF IInv, CommandFrom
<1>3. T!NamesStay /\ T!EntersOnly(p, name)
  BY CommandEnters
<1>4. clients' = clients /\ ClientOf(fd) # NULL
      /\ \A other \in FD : ClientOf(other)' = ClientOf(other)
  BY <1>1 DEF registry, ClientOf, CommandFrom
<1>5. /\ asked' \in [FD -> SUBSET Name] /\ name \in asked'[fd]
      /\ \A other \in FD : asked[other] \subseteq asked'[other]
      /\ \A other \in FD \ {fd} : asked'[other] = asked[other]
  BY <1>1 DEF AskedInv
<1>6. ASSUME NEW i \in DOMAIN topics', NEW q \in Range(topics'[i].subscribers),
             clients[q].is_online
      PROVE  topics'[i].name \in asked'[clients[q].socket]
  <2>1. CASE i \in DOMAIN topics /\ q \in Range(topics[i].subscribers)
    <3>1. clients[q].socket \in FD
      BY <1>2, <1>6, <2>1, EntriesAreClients, OnlineIsHolder DEF IInv
    <3>2. topics[i].name \in asked[clients[q].socket]
      BY <1>2, <1>6, <2>1 DEF AskedInv, Entitled
    <3>3. topics'[i].name = topics[i].name
      BY <1>3, <2>1 DEF T!NamesStay
    <3>4. QED  BY <1>5, <3>1, <3>2, <3>3
  <2>2. CASE q = p /\ topics'[i].name = name
    BY <1>2, <1>5, <2>2
  <2>3. QED  BY <1>3, <2>1, <2>2 DEF T!EntersOnly, T!Range, Range
<1>7. Entitled'
  BY <1>4, <1>6 DEF Entitled
<1>8. QED  BY <1>4, <1>5, <1>7 DEF AskedInv

LEMMA UnsubscribeKeepsAsked ==
  ASSUME IInv, IInv', AskedInv, NEW fd \in FD, NEW name \in Name, Unsubscribe(fd, name)
  PROVE  AskedInv'
<1>1. Running /\ UNCHANGED <<registry, asked>>
  BY DEF Unsubscribe, CommandFrom
<1>2. T!NamesStay /\ T!EntersNone
  BY CommandEnters
<1>3. Entitled'
  BY <1>1, <1>2 DEF AskedInv, registry, Entitled, T!EntersNone, T!NamesStay, T!Range, Range
<1>4. QED  BY <1>1, <1>3 DEF AskedInv, registry, ClientOf
LEMMA PublishKeepsAsked ==
  ASSUME IInv, AskedInv, NEW name \in Published, Publish(name)
  PROVE  AskedInv'
<1>1. Running /\ UNCHANGED <<registry, asked>>
  BY DEF Publish
<1>2. T!NamesStay /\ T!EntersNone
  BY PublishEntersNone
<1>3. Entitled'
  BY <1>1, <1>2 DEF AskedInv, registry, Entitled, T!EntersNone, T!NamesStay, T!Range, Range
<1>4. QED  BY <1>1, <1>3 DEF AskedInv, registry, ClientOf

\* An accept or an end: a descriptor may get a holder, and none loses one.
LEMMA OtherKeepsAsked ==
  ASSUME IInv, AskedInv, [Next]_vars, UNCHANGED <<topics, asked>>,
         \A fd \in FD : ClientOf(fd) # NULL => ClientOf(fd)' # NULL
  PROVE  AskedInv'
<1>1. Running' => Entitled'
  <2> SUFFICES ASSUME Running' PROVE Entitled'
    OBVIOUS
  <2>1. Running /\ Entitled
    BY HeapStep DEF AskedInv
  <2>2. QED  BY <2>1, EntitledStays
<1>2. QED  BY <1>1 DEF AskedInv

LEMMA AskedPreserved ==
  ASSUME IInv, AskedInv, [Next]_vars
  PROVE  AskedInv'
<1>0. IInv'
  BY StepIInv
<1>1. ASSUME NEW id \in ID, NEW fd \in FD, Accept(id, fd)
      PROVE  AskedInv'
  <2>1. R!AcceptClient(id, fd)
    BY <1>1, RegistryAccept
  <2>2. \/ R!CreateClient(id, fd)
        \/ UNCHANGED map_connected_clients
    BY <2>1, R!AcceptCreatesOrRefuses, NullAssumption, FdAssumption
       DEF IInv, R!NullAssumption, R!FdAssumption
  <2>3. \A other \in FD : ClientOf(other) # NULL => ClientOf(other)' = ClientOf(other)
    BY <2>2 DEF R!CreateClient, R!Insert, ClientOf, IInv, R!IInv, R!TypeOK
  <2>4. QED  BY <1>1, <2>3, OtherKeepsAsked DEF Accept
<1>2. ASSUME NEW fd \in FD, Leave(fd)
      PROVE  AskedInv'
  BY <1>0, <1>2, LeaveKeepsAsked
<1>3. ASSUME NEW fd \in FD, NEW name \in Name,
             Subscribe(fd, name) \/ Unsubscribe(fd, name)
      PROVE  AskedInv'
  BY <1>0, <1>3, SubscribeKeepsAsked, UnsubscribeKeepsAsked
<1>4. ASSUME NEW name \in Published, Publish(name)
      PROVE  AskedInv'
  BY <1>4, PublishKeepsAsked
<1>5. CASE UNCHANGED <<map_connected_clients, topics, asked>>
  BY <1>5, OtherKeepsAsked DEF ClientOf
<1>6. \/ UNCHANGED <<map_connected_clients, topics, asked>>
      \/ \E id \in ID, fd \in FD : Accept(id, fd)
      \/ \E fd \in FD : Leave(fd)
      \/ \E fd \in FD, name \in Name : Subscribe(fd, name) \/ Unsubscribe(fd, name)
      \/ \E name \in Published : Publish(name)
  BY DEF Next, vars, registry, BadCommand, Dropped, Stop, StopFails, ReadOrReplyFails,
         AcceptFails, PublishFails, SendFails, Registry!close_clients,
         Registry!AcceptFails, Registry!SocketError, Registry!DIE
<1>7. QED  BY <1>1, <1>2, <1>3, <1>4, <1>5, <1>6

LEMMA AskedInductive == Spec => []AskedInv
<1>1. Init => AskedInv
  BY DEF Init, Registry!Init, Table!Init, AskedInv, ClientOf, Entitled
<1>2. IInv /\ AskedInv /\ [Next]_vars => AskedInv'
  BY AskedPreserved
<1>3. QED  BY <1>1, <1>2, Inductive, PTL DEF Spec

\* The writes of a packet: all to registered connections, whose sessions have
\* subscribed to the name of the topic it goes by.
LEMMA ForwardedProperties ==
  ASSUME IInv, AskedInv, Running, NEW name \in Published
  PROVE  LET out == Forwarded(name)
             i   == T!matching_topic_index(name)
         IN  /\ out \in Seq(Message)
             /\ \A k \in DOMAIN out :
                  /\ out[k] = PacketTo(out[k].to, name)
                  /\ i \in DOMAIN topics /\ Matches(name, topics[i].name)
                  /\ topics[i].name \in asked[out[k].to]
                  /\ out[k].to \in FD /\ ClientOf(out[k].to) # NULL
                  /\ ClientOf(out[k].to) \in Range(topics[i].subscribers)
             /\ i # 0 /\ (\E p \in Range(topics[i].subscribers) : clients[p].is_online)
                  => out # <<>>
<1> DEFINE i   == T!matching_topic_index(name)
           to  == T!Receivers(name)
           out == [k \in DOMAIN to |-> PacketTo(to[k], name)]
<1>1. Forwarded(name) = out
  BY DEF Forwarded, Table!Receivers, T!Receivers, Table!matching_topic_index,
         T!matching_topic_index, Table!SelectInSeq, T!SelectInSeq, Table!Min, T!Min,
         Table!Filter, T!Filter
<1>2. name \in Name /\ T!TypeOK
  BY PublishedAssumption DEF IInv
<1>3. i \in 0..Len(topics) /\ (i # 0 => i \in DOMAIN topics /\ Matches(name, topics[i].name))
  <2>1. i \in 0..Len(topics) /\ (i # 0 => Matches(name, topics[i].name))
    BY <1>2, T!MatchingIndex
  <2> HIDE DEF i
  <2>2. QED  BY <1>2, <2>1 DEF T!TypeOK
<1>4. /\ \E n \in Nat : DOMAIN to = 1..n
      /\ \A k \in DOMAIN to : i # 0 /\ \E p \in Range(topics[i].subscribers) :
            p \in Client /\ clients[p].is_online /\ to[k] = clients[p].socket
      /\ i # 0 /\ (\E p \in Range(topics[i].subscribers) : clients[p].is_online) => to # <<>>
  BY <1>2, T!ReceiversProperties DEF T!Range, Range
<1> HIDE DEF to, i
<1>5. \A k \in DOMAIN to :
        /\ i \in DOMAIN topics /\ Matches(name, topics[i].name)
        /\ to[k] \in FD /\ ClientOf(to[k]) # NULL
        /\ ClientOf(to[k]) \in Range(topics[i].subscribers)
        /\ topics[i].name \in asked[to[k]]
  <2> SUFFICES ASSUME NEW k \in DOMAIN to
               PROVE  /\ i \in DOMAIN topics /\ Matches(name, topics[i].name)
                      /\ to[k] \in FD /\ ClientOf(to[k]) # NULL
                      /\ ClientOf(to[k]) \in Range(topics[i].subscribers)
                      /\ topics[i].name \in asked[to[k]]
    OBVIOUS
  <2>1. PICK p \in Range(topics[i].subscribers) :
          i # 0 /\ p \in Client /\ clients[p].is_online /\ to[k] = clients[p].socket
    BY <1>4
  <2>2. to[k] \in FD /\ ClientOf(to[k]) = p
    BY <2>1, OnlineIsHolder DEF IInv
  <2>3. topics[i].name \in asked[to[k]]
    BY <1>3, <2>1 DEF AskedInv, Entitled
  <2>4. QED  BY <1>3, <2>1, <2>2, <2>3, NullAssumption
<1>6. /\ DOMAIN out = DOMAIN to
      /\ \A k \in DOMAIN to : out[k] = PacketTo(to[k], name) /\ out[k].to = to[k]
  BY DEF PacketTo
<1>7. out \in Seq(Message)
  <2>1. \A k \in DOMAIN to : PacketTo(to[k], name) \in Message
    BY <1>2, <1>5 DEF PacketTo, Message
  <2>2. PICK n \in Nat : DOMAIN to = 1..n
    BY <1>4
  <2>3. QED  BY <2>1, <2>2
<1>8. to # <<>> => out # <<>>
  <2>1. PICK n \in Nat : DOMAIN to = 1..n
    BY <1>4
  <2>2. to = [k \in DOMAIN to |-> to[k]]
    BY <1>2, T!ReceiversProperties DEF to
  <2>3. to # <<>> => n # 0
    BY <2>1, <2>2
  <2>4. out = <<>> => DOMAIN out = {}
    OBVIOUS
  <2>5. QED  BY <1>6, <2>1, <2>3, <2>4
<1> HIDE DEF out
<1>9. QED  BY <1>1, <1>4, <1>5, <1>6, <1>7, <1>8 DEF i

\* No packet reaches a connection whose present session has not subscribed to a
\* name the topic matches, although entries of earlier sessions stay behind and
\* descriptors pass from one client to another.
THEOREM PacketsOnlyAsked == Spec => []OnlyAsked
<1>1. Init => OnlyAsked
  BY DEF Init, OnlyAsked
<1>2. ASSUME IInv, AskedInv, OnlyAsked, [Next]_vars, Running'
      PROVE  OnlyAsked'
  <2>1. CASE UNCHANGED vars
    BY <1>2, <2>1 DEF OnlyAsked, vars, registry, ClientOf, Running
  <2>2. ASSUME NEW name \in Published, Publish(name)
        PROVE  OnlyAsked'
    <3>1. /\ Running /\ outbox' = Forwarded(name) /\ asked' = asked
          /\ map_connected_clients' = map_connected_clients
      BY <2>2 DEF Publish, registry
    <3>2. \A k \in DOMAIN outbox' :
            /\ outbox'[k].name = name /\ ClientOf(outbox'[k].to) # NULL
            /\ \E n \in asked[outbox'[k].to] : Matches(name, n)
      BY <1>2, <3>1, ForwardedProperties DEF PacketTo
    <3>3. QED  BY <3>1, <3>2 DEF OnlyAsked, ClientOf
  <2>3. CASE \A k \in DOMAIN outbox' : outbox'[k].what # "packet"
    BY <2>3 DEF OnlyAsked
  <2>4. \/ \A k \in DOMAIN outbox' : outbox'[k].what # "packet"
        \/ \E name \in Published : Publish(name)
        \/ UNCHANGED vars
    BY <1>2 DEF Next, Accept, Refusal, ExitTo, Leave, BadCommand, Subscribe, Unsubscribe,
       Confirmation, Dropped, Stop, StopFails, SendFails, PublishFails, ReadOrReplyFails,
       AcceptFails, Running, Registry!close_clients, Registry!AcceptFails,
       Registry!SocketError, Registry!DIE
  <2>5. QED  BY <2>1, <2>2, <2>3, <2>4
<1>3. IInv /\ AskedInv /\ OnlyAsked /\ [Next]_vars => OnlyAsked'
  BY <1>2 DEF OnlyAsked
<1>4. QED  BY <1>1, <1>3, Inductive, AskedInductive, PTL DEF Spec

-----------------------------------------------------------------------------
(* The orderly stop.                                                       *)

\* An order of a finite set names each of its elements, once.
LEMMA OrderOfSet ==
  ASSUME NEW S, IsFiniteSet(S), NEW f \in SetToSeqs(S)
  PROVE  /\ {f[k] : k \in DOMAIN f} = S
         /\ \A j, k \in DOMAIN f : f[j] = f[k] => j = k
<1> DEFINE n == Cardinality(S)
<1>1. n \in Nat
  BY FS_CardinalityType
<1>2. f \in [1..n -> S] /\ \A j, k \in 1..n : j # k => f[j] # f[k]
  BY DEF SetToSeqs
<1>3. Cardinality(1..n) = n
  BY <1>1, FS_Interval
<1> HIDE DEF n
<1>4. f \in Injection(1..n, S)
  BY <1>2 DEF Injection, IsInjective
<1>5. f \in Surjection(1..n, S)
  BY <1>3, <1>4, FS_Injection DEF n
<1>6. QED  BY <1>2, <1>5 DEF Surjection

\* The sockets of the clients in the id map are the connections in the other.
LEMMA ToldSockets ==
  ASSUME R!IInv, Running
  PROVE  LET told == {p \in Registry!Registered : clients[p].is_online}
         IN  {clients[p].socket : p \in told} = {fd \in FD : ClientOf(fd) # NULL}
<1> DEFINE told == {p \in Registry!Registered : clients[p].is_online}
<1>1. R!MapsAgree /\ R!TypeOK /\ R!Running
  BY DEF R!IInv, R!Running, Running
<1>2. ASSUME NEW p \in told
      PROVE  clients[p].socket \in FD /\ ClientOf(clients[p].socket) # NULL
  <2>1. p \in Client /\ R!Online(p)
    BY <1>1 DEF Registry!Registered, R!MapsAgree, R!TypeOK
  <2>2. clients[p].socket \in FD
    BY <1>1, <2>1, R!OnlineFields, NullAssumption, FdAssumption
       DEF R!NullAssumption, R!FdAssumption
  <2>3. map_connected_clients[clients[p].socket] = p
    BY <1>1, <2>1 DEF R!MapsAgree
  <2>4. QED  BY <2>1, <2>2, <2>3, NullAssumption DEF ClientOf
<1>3. ASSUME NEW fd \in FD, ClientOf(fd) # NULL
      PROVE  ClientOf(fd) \in told /\ clients[ClientOf(fd)].socket = fd
  <2>1. /\ ClientOf(fd) \in Client /\ R!Online(ClientOf(fd))
        /\ clients[ClientOf(fd)].socket = fd
    BY <1>1, <1>3 DEF ClientOf, R!MapsAgree, R!TypeOK
  <2>2. /\ clients[ClientOf(fd)].id \in ID
        /\ map_id_clients[clients[ClientOf(fd)].id] = ClientOf(fd)
    BY <1>1, <2>1, R!OnlineFields, NullAssumption, FdAssumption
       DEF R!NullAssumption, R!FdAssumption, R!MapsAgree
  <2>3. ClientOf(fd) \in Registry!Registered
    BY <2>1, <2>2, NullAssumption DEF Registry!Registered
  <2>4. QED  BY <2>1, <2>3 DEF R!Online
<1>4. QED  BY <1>2, <1>3

\* The lines of an orderly stop: one to each registered connection.
LEMMA FarewellsProperties ==
  ASSUME IInv, Running, NEW f \in Farewells
  PROVE  /\ f \in Seq(Message)
         /\ {f[k].to : k \in DOMAIN f} = {fd \in FD : ClientOf(fd) # NULL}
         /\ \A j, k \in DOMAIN f : f[j].to = f[k].to => j = k
         /\ \A k \in DOMAIN f : f[k].what \in {"exit", "end"}
<1> DEFINE reg  == {fd \in FD : ClientOf(fd) # NULL}
           told == {p \in Registry!Registered : clients[p].is_online}
<1>1. {clients[p].socket : p \in told} = reg
  BY ToldSockets DEF IInv
<1>2. PICK line \in {"exit", "end"} :
        f \in SetToSeqs({[to |-> clients[p].socket, what |-> line] : p \in told})
  BY DEF Farewells
<1> DEFINE S == {[to |-> fd, what |-> line] : fd \in reg}
<1>3. {[to |-> clients[p].socket, what |-> line] : p \in told} = S
  BY <1>1
<1>4. IsFiniteSet(S)
  <2>1. IsFiniteSet(reg)
    BY LimitAssumption, FS_Subset
  <2> DEFINE g == [fd \in reg |-> [to |-> fd, what |-> line]]
  <2>2. g \in Surjection(reg, S)
    BY DEF Surjection
  <2>3. QED  BY <2>1, <2>2, FS_Surjection
<1>5. /\ {f[k] : k \in DOMAIN f} = S
      /\ \A j, k \in DOMAIN f : f[j] = f[k] => j = k
  BY <1>2, <1>3, <1>4, OrderOfSet
<1>6. \A k \in DOMAIN f :
        /\ f[k].to \in reg
        /\ f[k] = [to |-> f[k].to, what |-> line]
  BY <1>5
<1>7. {f[k].to : k \in DOMAIN f} = reg
  <2>1. \A fd \in reg : \E k \in DOMAIN f : f[k].to = fd
    <3>1. \A fd \in reg : [to |-> fd, what |-> line] \in {f[k] : k \in DOMAIN f}
      BY <1>5
    <3>2. \A fd \in reg : [to |-> fd, what |-> line].to = fd
      OBVIOUS
    <3>3. QED  BY <3>1, <3>2, Zenon
  <2>2. QED  BY <1>6, <2>1
<1>8. \A j, k \in DOMAIN f : f[j].to = f[k].to => j = k
  BY <1>5, <1>6
<1>9. f \in Seq(Message)
  <2>1. S \subseteq Message
    BY DEF Message
  <2>2. Cardinality(S) \in Nat
    BY <1>4, FS_CardinalityType
  <2>3. f \in [1..Cardinality(S) -> S]
    BY <1>2, <1>3 DEF SetToSeqs
  <2> HIDE DEF S
  <2>4. QED  BY <2>1, <2>2, <2>3
<1>10. QED  BY <1>6, <1>7, <1>8, <1>9

LEMMA StopTellsEveryone ==
  ASSUME IInv, Stop
  PROVE  StopReachesEveryone'
<1>1. Running /\ outbox' \in Farewells /\ map_connected_clients' = map_connected_clients
  BY DEF Stop, Registry!close_clients, Running
<1>2. QED  BY <1>1, FarewellsProperties DEF StopReachesEveryone, ClientOf

\* Only Stop ends the server in order, and nothing runs after it.
LEMMA OnlyStopStops ==
  ASSUME [Next]_vars, server' = "stopped"
  PROVE  Stop \/ UNCHANGED vars
BY DEF Next, Accept, Leave, BadCommand, CommandFrom, Subscribe, Unsubscribe, Dropped,
       Publish, PublishFails, StopFails, SendFails, ReadOrReplyFails, AcceptFails,
       Running, registry, Registry!AcceptClient, Registry!ClientLeaves, Registry!DIE,
       Registry!AcceptFails, Registry!SocketError

\* An orderly stop tells every registered connection to exit, and none twice.
THEOREM StopTellsAll == Spec => []StopReachesEveryone
<1>1. Init => StopReachesEveryone
  BY DEF Init, Registry!Init, StopReachesEveryone
<1>2. IInv /\ StopReachesEveryone /\ [Next]_vars => StopReachesEveryone'
  <2> SUFFICES ASSUME IInv, StopReachesEveryone, [Next]_vars, server' = "stopped"
               PROVE  StopReachesEveryone'
    BY DEF StopReachesEveryone
  <2>1. CASE Stop
    BY <2>1, StopTellsEveryone
  <2>2. CASE UNCHANGED vars
    BY <2>2 DEF StopReachesEveryone, vars, registry, ClientOf
  <2>3. QED  BY <2>1, <2>2, OnlyStopStops
<1>3. QED  BY <1>1, <1>2, Inductive, PTL DEF Spec

-----------------------------------------------------------------------------
(* Types.                                                                  *)

\* What a failing send leaves of the messages of a handler.
LEMMA PrefixProperties ==
  ASSUME NEW S, NEW messages \in Seq(S), NEW n \in 0..Len(messages) - 1
  PROVE  LET sent == SubSeq(messages, 1, n)
         IN  sent \in Seq(S) /\ \A k \in DOMAIN sent : k \in DOMAIN messages /\ sent[k] = messages[k]
OBVIOUS

\* What a handler that is cut short can have been sending.
LEMMA FailingSends ==
  ASSUME IInv, AskedInv, StopFails \/ \E name \in Published : PublishFails(name)
  PROVE  /\ Running /\ ~Running' /\ outbox' \in Seq(Message)
         /\ \A k \in DOMAIN outbox' :
              outbox'[k].what \in {"packet", "exit", "end"} /\ ClientOf(outbox'[k].to) # NULL
<1>1. PICK messages :
        /\ SendFails(messages)
        /\ messages \in Farewells \/ \E name \in Published : messages = Forwarded(name)
  BY DEF StopFails, PublishFails
<1>2. Running /\ ~Running'
  BY <1>1 DEF SendFails, Registry!SocketError, Registry!DIE, Running
<1>3. /\ messages \in Seq(Message)
      /\ \A k \in DOMAIN messages :
           messages[k].what \in {"packet", "exit", "end"} /\ ClientOf(messages[k].to) # NULL
  <2>1. CASE messages \in Farewells
    BY <1>2, <2>1, FarewellsProperties
  <2>2. CASE \E name \in Published : messages = Forwarded(name)
    BY <1>2, <2>2, ForwardedProperties DEF PacketTo
  <2>3. QED  BY <1>1, <2>1, <2>2
<1>4. PICK n \in 0..Len(messages) - 1 : outbox' = SubSeq(messages, 1, n)
  BY <1>1 DEF SendFails
<1>5. QED  BY <1>2, <1>3, <1>4, PrefixProperties

\* The invariants of the server together.
ServerInv == IInv /\ AskedInv /\ outbox \in Seq(Message)

LEMMA SendsTyped ==
  ASSUME ServerInv, [Next]_vars
  PROVE  outbox' \in Seq(Message)
<1>1. CASE outbox' = <<>>
  BY <1>1
<1>2. ASSUME NEW id \in ID, NEW fd \in FD, Accept(id, fd)
      PROVE  outbox' \in Seq(Message)
  <2>1. ExitTo(fd) \in Message
    BY DEF ExitTo, Message
  <2>2. QED  BY <1>2, <2>1 DEF Accept, Refusal
<1>3. ASSUME NEW fd \in FD, NEW name \in Name,
             Subscribe(fd, name) \/ Unsubscribe(fd, name)
      PROVE  outbox' \in Seq(Message)
  <2>1. \A what \in {"Subscribed", "Unsubscribed"} : Confirmation(fd, what, name) \in Message
    BY DEF Confirmation, Message
  <2>2. \E what \in {"Subscribed", "Unsubscribed"} : outbox' = <<Confirmation(fd, what, name)>>
    BY <1>3 DEF Subscribe, Unsubscribe
  <2>3. QED  BY <2>1, <2>2
<1>4. ASSUME NEW name \in Published, Publish(name)
      PROVE  outbox' \in Seq(Message)
  BY <1>4, ForwardedProperties DEF ServerInv, Publish
<1>5. CASE Stop
  BY <1>5, FarewellsProperties DEF ServerInv, Stop, Registry!close_clients, Running
<1>6. CASE StopFails \/ \E name \in Published : PublishFails(name)
  BY <1>6, FailingSends DEF ServerInv
<1>7. QED  BY <1>1, <1>2, <1>3, <1>4, <1>5, <1>6 DEF ServerInv, Next, vars, Leave, BadCommand,
                Dropped, ReadOrReplyFails, AcceptFails

LEMMA ServerInit == Init => ServerInv
<1>1. Init => AskedInv /\ outbox \in Seq(Message)
  BY DEF Init, Registry!Init, Table!Init, AskedInv, ClientOf, Entitled
<1>2. QED  BY <1>1, InitIInv DEF ServerInv

LEMMA ServerStep == ServerInv /\ [Next]_vars => ServerInv'
<1>1. IInv /\ [Next]_vars => IInv'
  BY StepIInv
<1>2. IInv /\ AskedInv /\ [Next]_vars => AskedInv'
  BY AskedPreserved
<1>3. ServerInv /\ [Next]_vars => (outbox \in Seq(Message))'
  BY SendsTyped
<1>4. QED  BY <1>1, <1>2, <1>3 DEF ServerInv

LEMMA ServerTyped == ServerInv => TypeOK
BY DEF ServerInv, IInv, AskedInv, TypeOK, R!IInv, R!TypeOK, Registry!TypeOK, R!Unused,
       Registry!Unused, T!TypeOK, Table!TypeOK, T!Topic, Table!Topic

\* The packets that have left when a handler ends, or is cut short, went to sessions
\* that have subscribed.
LEMMA PacketsSent ==
  ASSUME ServerInv, Next, NEW k \in DOMAIN outbox', outbox'[k].what = "packet"
  PROVE  /\ asked' = asked
         /\ outbox'[k].to \in FD /\ ClientOf(outbox'[k].to) # NULL
         /\ \E name \in asked[outbox'[k].to] : Matches(outbox'[k].name, name)
<1>1. \E name \in Published : Publish(name) \/ PublishFails(name)
  <2>1. CASE Stop
    BY <2>1, FarewellsProperties DEF ServerInv, Stop, Registry!close_clients, Running
  <2>2. CASE StopFails
    <3>1. PICK messages \in Farewells : SendFails(messages)
      BY <2>2 DEF StopFails
    <3>2. PICK n \in 0..Len(messages) - 1 : outbox' = SubSeq(messages, 1, n)
      BY <3>1 DEF SendFails
    <3>3. Running
      BY <3>1 DEF SendFails, Registry!SocketError, Registry!DIE, Running
    <3>4. messages \in Seq(Message) /\ \A j \in DOMAIN messages : messages[j].what # "packet"
      BY <3>1, <3>3, FarewellsProperties DEF ServerInv
    <3>5. QED  BY <3>2, <3>4, PrefixProperties
  <2>3. QED  BY <2>1, <2>2 DEF Next, Accept, Refusal, ExitTo, Leave, BadCommand, Subscribe,
               Unsubscribe, Confirmation, Dropped, ReadOrReplyFails, AcceptFails
<1>2. PICK name \in Published : Publish(name) \/ PublishFails(name)
  BY <1>1
<1>3. Running /\ asked' = asked
  BY <1>2 DEF Publish, PublishFails, SendFails, Registry!SocketError, Registry!DIE, Running
<1>4. /\ Forwarded(name) \in Seq(Message)
      /\ \A j \in DOMAIN Forwarded(name) :
           LET m == Forwarded(name)[j]
           IN  /\ m.to \in FD /\ ClientOf(m.to) # NULL
               /\ \E n \in asked[m.to] : Matches(m.name, n)
  BY <1>3, ForwardedProperties DEF ServerInv, PacketTo
<1>5. k \in DOMAIN Forwarded(name) /\ outbox'[k] = Forwarded(name)[k]
  <2>1. CASE Publish(name)
    BY <2>1 DEF Publish
  <2>2. CASE PublishFails(name)
    <3>1. PICK n \in 0..Len(Forwarded(name)) - 1 : outbox' = SubSeq(Forwarded(name), 1, n)
      BY <2>2 DEF PublishFails, SendFails
    <3>2. QED  BY <1>4, <3>1, PrefixProperties
  <2>3. QED  BY <1>2, <2>1, <2>2
<1>6. QED  BY <1>3, <1>4, <1>5

\* Every variable of the server keeps its type: no handler stores, sends or
\* remembers anything else, the connections it writes to included.
THEOREM TypeCorrect == Spec => []TypeOK
<1>1. QED  BY ServerInit, ServerStep, ServerTyped, PTL DEF Spec

-----------------------------------------------------------------------------
(* Broker implements PubSub: each step of the server is a step of its      *)
(* promise under HolderOf and RoutesOf or changes nothing there.           *)

\* What a place in the vector of topics amounts to.
Entries(i) == topics[i].subscribers
Served(i)  == \E p \in Range(Entries(i)) : clients[p].is_online
Owner(i)   == IF Entries(i) = <<>> THEN NULL ELSE clients[Entries(i)[1]].id
RouteAt(i) == [name |-> topics[i].name, owner |-> Owner(i), served |-> Served(i)]

LEMMA RoutesAre ==
  ASSUME IInv, Running
  PROVE  /\ RoutesOf = [i \in DOMAIN topics |-> RouteAt(i)]
         /\ DOMAIN topics = 1..Len(topics) /\ Len(topics) \in Nat
         /\ DOMAIN RoutesOf = 1..Len(topics) /\ Len(RoutesOf) = Len(topics)
         /\ RoutesOf \in Seq({RouteAt(i) : i \in DOMAIN topics})
<1>1. RoutesOf = [i \in DOMAIN topics |-> RouteAt(i)]
  BY DEF RoutesOf, RouteAt, Owner, Served, Entries
<1>2. DOMAIN topics = 1..Len(topics) /\ Len(topics) \in Nat
  BY DEF IInv, T!TypeOK
<1>3. RoutesOf \in Seq({RouteAt(i) : i \in DOMAIN topics})
  BY <1>1, <1>2
<1>4. DOMAIN RoutesOf = 1..Len(topics)
  BY <1>1, <1>2
<1>5. Len(RoutesOf) = Len(topics)
  BY <1>2, <1>3, <1>4
<1>6. QED  BY <1>1, <1>2, <1>3, <1>4, <1>5

\* All the entries of a topic are of its owner.
LEMMA EntriesAreOwners ==
  ASSUME IInv, Running, NEW i \in DOMAIN topics
  PROVE  /\ Entries(i) \in Seq(Client)
         /\ Entries(i) = <<>> <=> Range(Entries(i)) = {}
         /\ Owner(i) # NULL <=> Entries(i) # <<>>
         /\ \A p \in Range(Entries(i)) :
              /\ p \in Client /\ R!Allocated(p)
              /\ clients[p].id = Owner(i) /\ clients[p].id \in ID
<1>1. topics[i] \in T!Topic
  BY DEF IInv, T!TypeOK
<1>2. Entries(i) \in Seq(Client)
  BY <1>1 DEF T!Topic, Entries
<1>3. Entries(i) # <<>> => Entries(i)[1] \in Range(Entries(i))
  BY <1>2 DEF Range
<1>4. Entries(i) = <<>> => Range(Entries(i)) = {}
  BY DEF Range
<1>5. \A p \in Range(Entries(i)) : p \in Client /\ R!Allocated(p)
  BY EntriesAreClients DEF Entries
<1>6. \A p \in Client : R!Allocated(p) => clients[p].id \in ID
  BY DEF IInv, R!IInv, R!TypeOK, R!Allocated
<1>7. \A p, q \in Range(Entries(i)) : clients[p].id = clients[q].id
  BY DEF IInv, T!Owned, T!Range, Range, Entries
<1>8. \A p \in Range(Entries(i)) : clients[p].id = Owner(i)
  BY <1>3, <1>4, <1>7 DEF Owner
<1>9. Owner(i) # NULL <=> Entries(i) # <<>>
  BY <1>3, <1>5, <1>6, NullAssumption DEF Owner
<1>10. QED  BY <1>2, <1>3, <1>4, <1>5, <1>6, <1>8, <1>9

\* The searches of the promise are those of the vector.
LEMMA SameSearches ==
  ASSUME IInv, Running, NEW name \in Name
  PROVE  /\ Abstract!RouteOf(name) = T!exact_topic_index(name)
         /\ Abstract!Route(name) = T!matching_topic_index(name)
<1> DEFINE named    == {i \in 1..Len(RoutesOf) : RoutesOf[i].name = name}
           matching == {i \in 1..Len(RoutesOf) : Matches(name, RoutesOf[i].name)}
<1>1. /\ Len(RoutesOf) = Len(topics) /\ DOMAIN topics = 1..Len(topics)
      /\ \A i \in 1..Len(topics) : RoutesOf[i].name = topics[i].name
  BY RoutesAre DEF RouteAt
<1>2. /\ Abstract!RouteOf(name) = IF named # {} THEN Abstract!Min(named) ELSE 0
      /\ Abstract!Route(name) = IF matching # {} THEN Abstract!Min(matching) ELSE 0
  BY DEF Abstract!RouteOf, Abstract!Route, Abstract!SelectInSeq
<1>3. named = {i \in 1..Len(topics) : topics[i].name = name}
  BY <1>1
<1>4. matching = {i \in 1..Len(topics) : Matches(name, topics[i].name)}
  BY <1>1
<1>5. \A S : Abstract!Min(S) = T!Min(S)
  BY DEF Abstract!Min, T!Min
<1> HIDE DEF named, matching
<1>6. T!exact_topic_index(name) = IF named # {} THEN T!Min(named) ELSE 0
  BY <1>3 DEF T!exact_topic_index, T!SelectInSeq
<1>7. T!matching_topic_index(name) = IF matching # {} THEN T!Min(matching) ELSE 0
  BY <1>4 DEF T!matching_topic_index, T!SelectInSeq
<1>8. QED  BY <1>2, <1>5, <1>6, <1>7

\* The routes are the same after a step that leaves the table, and what matters
\* of the objects it points to.
LEMMA RoutesStay ==
  ASSUME IInv, Running, Running', topics' = topics,
         \A q \in Client : R!Allocated(q) =>
           clients'[q].id = clients[q].id /\ clients'[q].is_online = clients[q].is_online
  PROVE  RoutesOf' = RoutesOf
<1>1. ASSUME NEW i \in DOMAIN topics PROVE RouteAt(i)' = RouteAt(i)
  <2>1. \A p \in Range(Entries(i)) :
          clients'[p].id = clients[p].id /\ clients'[p].is_online = clients[p].is_online
    BY EntriesAreOwners
  <2>2. Entries(i)' = Entries(i)
    BY DEF Entries
  <2>3. Entries(i) # <<>> => Entries(i)[1] \in Range(Entries(i))
    BY EntriesAreOwners DEF Range
  <2>4. Owner(i)' = Owner(i) /\ Served(i)' = Served(i)
    BY <2>1, <2>2, <2>3 DEF Owner, Served
  <2>5. QED  BY <2>4 DEF RouteAt
<1>2. RoutesOf = [i \in DOMAIN topics |-> RouteAt(i)]
  BY RoutesAre
<1>3. RoutesOf' = [i \in DOMAIN topics |-> RouteAt(i)']
  BY DEF RoutesOf, RouteAt, Owner, Served, Entries
<1>4. QED  BY <1>1, <1>2, <1>3

LEMMA HoldersAre ==
  ASSUME IInv, Running, NEW fd \in FD
  PROVE  /\ HolderOf[fd] = IF ClientOf(fd) # NULL THEN clients[ClientOf(fd)].id ELSE NULL
         /\ HolderOf[fd] # NULL <=> ClientOf(fd) # NULL
BY HolderIsOnline, NullAssumption DEF HolderOf, IInv

-----------------------------------------------------------------------------
(* Connections.                                                            *)

LEMMA AcceptRefines ==
  ASSUME IInv, NEW id \in ID, NEW fd \in FD, Accept(id, fd)
  PROVE  Abstract!Login(id, fd) \/ Abstract!Refuse(id, fd)
<1>1. /\ Running /\ Running' /\ topics' = topics /\ outbox' = Refusal(id, fd)
      /\ R!Running /\ R!IInv /\ R!AcceptClient(id, fd)
  BY RegistryAccept DEF Accept, Registry!AcceptClient, Running, R!Running, IInv
<1>2. R!TypeOK /\ R!MapsAgree
  BY <1>1 DEF R!IInv
<1>3. ClientOf(fd) = NULL /\ \A p \in Client : R!Online(p) => clients[p].socket # fd
  BY <1>1, R!FreshDescriptor, NullAssumption, FdAssumption
     DEF R!NullAssumption, R!FdAssumption, R!AcceptClient, ClientOf
<1>4. HolderOf[fd] = NULL
  BY <1>1, <1>3, HoldersAre
<1>5. CASE map_id_clients[id] = NULL
  <2>1. R!CreateClient(id, fd)
    BY <1>1, <1>5 DEF R!AcceptClient, R!connect_client
  <2>2. PICK p \in Client :
          /\ ~R!Allocated(p)
          /\ clients' = [clients EXCEPT ![p] = R!NewClient(id, fd)]
          /\ map_connected_clients' = [map_connected_clients EXCEPT ![fd] = p]
    BY <1>3, <2>1 DEF R!CreateClient, R!Insert, ClientOf
  <2>3. \A q \in Client : q # p => clients'[q] = clients[q]
    BY <1>2, <2>2 DEF R!TypeOK
  <2>4. ClientOf(fd)' = p /\ clients'[p].id = id
    BY <1>2, <2>2 DEF R!TypeOK, ClientOf, R!NewClient
  <2>5. ASSUME NEW other \in FD, other # fd
        PROVE  HolderOf'[other] = HolderOf[other]
    <3>1. ClientOf(other)' = ClientOf(other)
      BY <1>2, <2>2, <2>5 DEF R!TypeOK, ClientOf
    <3>2. ClientOf(other) # NULL => ClientOf(other) \in Client /\ ClientOf(other) # p
      BY <1>1, <2>2, HolderIsOnline DEF R!Online
    <3>3. QED  BY <1>1, <2>3, <3>1, <3>2 DEF HolderOf
  <2>6. HolderOf'[fd] = id
    BY <1>1, <2>2, <2>4, NullAssumption DEF HolderOf
  <2>7. HolderOf' = [HolderOf EXCEPT ![fd] = id]
    BY <2>5, <2>6 DEF HolderOf
  <2>8. id \notin Abstract!Range(HolderOf)
    <3>1. ASSUME NEW other \in FD, HolderOf[other] = id PROVE FALSE
      <4>1. ClientOf(other) # NULL /\ clients[ClientOf(other)].id = id
        BY <1>1, <3>1, HoldersAre, NullAssumption
      <4>2. map_id_clients[id] = ClientOf(other)
        BY <1>1, <4>1, HolderIsOnline
      <4>3. QED  BY <1>5, <4>1, <4>2
    <3>2. QED  BY <3>1 DEF Abstract!Range, HolderOf
  <2>9. RoutesOf' = RoutesOf
    BY <1>1, <2>2, <2>3, RoutesStay
  <2>10. outbox' = <<>>
    BY <1>1, <1>5 DEF Refusal, Registry!IsDuplicate
  <2>11. QED  BY <1>1, <1>4, <2>7, <2>8, <2>9, <2>10 DEF Abstract!Login
<1>6. CASE map_id_clients[id] # NULL
  <2> DEFINE p == map_id_clients[id]
  <2>1. p \in Client /\ R!Online(p) /\ clients[p].id = id
    BY <1>1, <1>2, <1>6 DEF R!MapsAgree, R!TypeOK
  <2>2. clients[p].is_online
    BY <2>1 DEF R!Online
  <2>3. clients[p].socket \in FD /\ ClientOf(clients[p].socket) = p
    BY <1>1, <2>1, <2>2, OnlineIsHolder
  <2>4. HolderOf[clients[p].socket] = id
    BY <1>1, <1>6, <2>1, <2>3, HoldersAre
  <2>5. id \in Abstract!Range(HolderOf)
    BY <2>3, <2>4 DEF Abstract!Range, HolderOf
  <2>6. UNCHANGED <<clients, map_connected_clients>>
    BY <1>1, <1>6, <2>2 DEF R!AcceptClient, R!connect_client
  <2>7. outbox' = <<[to |-> fd, what |-> "exit"]>>
    BY <1>1, <1>3, <1>6, <2>1, <2>2 DEF Refusal, Registry!IsDuplicate, ExitTo
  <2>8. HolderOf' = HolderOf
    BY <1>1, <2>6 DEF HolderOf, ClientOf
  <2>9. RoutesOf' = RoutesOf
    BY <1>1, <2>6, RoutesStay
  <2>10. QED  BY <1>1, <1>4, <2>5, <2>7, <2>8, <2>9 DEF Abstract!Refuse
<1>7. QED  BY <1>5, <1>6

LEMMA LeaveRefines ==
  ASSUME IInv, NEW fd \in FD, Leave(fd)
  PROVE  Abstract!Logout(fd) \/ Abstract!Quiet
<1>1. /\ Running /\ Running' /\ topics' = topics /\ outbox' = <<>>
      /\ Registry!disconnect_client(fd) /\ R!IInv /\ R!TypeOK
  BY DEF Leave, Registry!ClientLeaves, Running, IInv, R!IInv
<1>2. CASE ClientOf(fd) = NULL
  <2>1. UNCHANGED <<clients, map_connected_clients>>
    BY <1>1, <1>2 DEF Registry!disconnect_client, ClientOf
  <2>2. HolderOf' = HolderOf
    BY <1>1, <2>1 DEF HolderOf, ClientOf
  <2>3. RoutesOf' = RoutesOf
    BY <1>1, <2>1, RoutesStay
  <2>4. QED  BY <1>1, <2>2, <2>3 DEF Abstract!Quiet
<1>3. CASE ClientOf(fd) # NULL
  <2> DEFINE p == ClientOf(fd)
  <2>1. p \in Client /\ R!Online(p) /\ clients[p].socket = fd /\ clients[p].id \in ID
        /\ map_id_clients[clients[p].id] = p
    BY <1>1, <1>3, HolderIsOnline
  <2>2. clients' = [clients EXCEPT ![p] = [clients[p] EXCEPT !.is_online = FALSE]]
        /\ map_connected_clients' = [map_connected_clients EXCEPT ![fd] = NULL]
    BY <1>1, <1>3 DEF Registry!disconnect_client, Registry!Erase, ClientOf
  <2>3. /\ clients[p] \in [id : ID, socket : FD, is_online : BOOLEAN]
        /\ clients'[p].is_online = FALSE /\ clients'[p].id = clients[p].id
        /\ \A q \in Client : q # p => clients'[q] = clients[q]
    <3>1. clients[p] \in [id : ID, socket : FD, is_online : BOOLEAN]
      BY <1>1, <2>1 DEF R!TypeOK, R!Online, R!Allocated
    <3>2. clients'[p] = [clients[p] EXCEPT !.is_online = FALSE]
      BY <1>1, <2>1, <2>2 DEF R!TypeOK
    <3>3. \A q \in Client : q # p => clients'[q] = clients[q]
      BY <1>1, <2>1, <2>2 DEF R!TypeOK
    <3>4. QED  BY <3>1, <3>2, <3>3
  <2>4. HolderOf[fd] = clients[p].id /\ HolderOf[fd] # NULL
    BY <1>1, <1>3, HoldersAre
  <2>5. ASSUME NEW other \in FD, other # fd
        PROVE  HolderOf'[other] = HolderOf[other]
    <3>1. ClientOf(other)' = ClientOf(other)
      BY <1>1, <2>2, <2>5 DEF R!TypeOK, ClientOf
    <3>2. ClientOf(other) # NULL => ClientOf(other) \in Client /\ ClientOf(other) # p
      BY <1>1, <2>1, <2>5, HolderIsOnline
    <3>3. QED  BY <1>1, <2>3, <3>1, <3>2 DEF HolderOf
  <2>6. HolderOf' = [HolderOf EXCEPT ![fd] = NULL]
    <3>1. HolderOf'[fd] = NULL
      BY <1>1, <2>2 DEF HolderOf, ClientOf, R!TypeOK
    <3>2. QED  BY <2>5, <3>1 DEF HolderOf
  <2> HIDE DEF p
  <2>7. ASSUME NEW i \in DOMAIN topics
        PROVE  RouteAt(i)' = [RouteAt(i) EXCEPT !.served = @ /\ Owner(i) # HolderOf[fd]]
    <3>1. \A q \in Range(Entries(i)) : q \in Client /\ clients[q].id = Owner(i)
      BY <1>1, EntriesAreOwners
    <3>2. \A q \in Client : clients'[q].id = clients[q].id
      BY <2>3
    <3>3. Entries(i)' = Entries(i)
      BY <1>1 DEF Entries
    <3>4. Owner(i)' = Owner(i)
      <4>1. Entries(i) # <<>> => Entries(i)[1] \in Range(Entries(i))
        BY <1>1, EntriesAreOwners DEF Range
      <4>2. QED  BY <3>1, <3>2, <3>3, <4>1 DEF Owner
    <3>5. ASSUME NEW q \in Range(Entries(i)), clients'[q].is_online
          PROVE  clients[q].is_online /\ Owner(i) # HolderOf[fd]
      <4>1. q # p /\ clients[q].is_online
        BY <2>1, <2>3, <3>1, <3>5
      <4>2. map_id_clients[clients[q].id] = q
        BY <1>1, <3>1, <4>1, OnlineIsHolder
      <4>3. QED  BY <2>1, <2>4, <3>1, <4>1, <4>2
    <3>6. ASSUME NEW q \in Range(Entries(i)), clients[q].is_online, Owner(i) # HolderOf[fd]
          PROVE  clients'[q].is_online
      BY <2>3, <2>4, <3>1, <3>6
    <3>7. Served(i)' = (Served(i) /\ Owner(i) # HolderOf[fd])
      BY <3>3, <3>5, <3>6 DEF Served
    <3>8. topics'[i].name = topics[i].name
      BY <1>1
    <3>9. RouteAt(i)' = [name   |-> topics[i].name, owner |-> Owner(i),
                         served |-> Served(i) /\ Owner(i) # HolderOf[fd]]
      BY <3>4, <3>7, <3>8 DEF RouteAt
    <3>10. RouteAt(i).served = Served(i)
      BY DEF RouteAt
    <3>11. QED  BY <3>9, <3>10 DEF RouteAt
  <2>8. RoutesOf' = [i \in DOMAIN RoutesOf |->
                       [RoutesOf[i] EXCEPT !.served = @ /\ RoutesOf[i].owner # HolderOf[fd]]]
    <3>1. RoutesOf' = [i \in DOMAIN topics |-> RouteAt(i)']
      BY <1>1 DEF RoutesOf, RouteAt, Owner, Served, Entries
    <3>2. RoutesOf = [i \in DOMAIN topics |-> RouteAt(i)]
      BY <1>1, RoutesAre
    <3>3. \A i \in DOMAIN topics : RouteAt(i).owner = Owner(i)
      BY DEF RouteAt
    <3>4. QED  BY <2>7, <3>1, <3>2, <3>3
  <2>9. QED  BY <1>1, <2>4, <2>6, <2>8 DEF Abstract!Logout
<1>4. QED  BY <1>2, <1>3

-----------------------------------------------------------------------------
(* Commands and packets.                                                   *)

\* A step that changes no client leaves the holders.
LEMMA HoldersStay ==
  ASSUME UNCHANGED registry
  PROVE  HolderOf' = HolderOf /\ Running' = Running
BY DEF registry, HolderOf, ClientOf, Running

\* A new topic is a new route at the end.
LEMMA RouteAppended ==
  ASSUME IInv, IInv', Running, UNCHANGED registry, NEW name \in Name, NEW s \in Seq(Client),
         topics' = Append(topics, [name |-> name, subscribers |-> s])
  PROVE  RoutesOf' = Append(RoutesOf,
           [name |-> name, owner |-> IF s = <<>> THEN NULL ELSE clients[s[1]].id,
            served |-> \E p \in Range(s) : clients[p].is_online])
<1>0. PICK n \in Nat : n = Len(topics)
  BY RoutesAre
<1> DEFINE owner  == IF s = <<>> THEN NULL ELSE clients[s[1]].id
           served == \E p \in Range(s) : clients[p].is_online
           last   == [name |-> name, owner |-> owner, served |-> served]
<1>1. clients' = clients /\ Running'
  BY DEF registry, Running
<1>2. /\ Len(topics') = n + 1 /\ topics'[n + 1] = [name |-> name, subscribers |-> s]
      /\ \A i \in 1..n : topics'[i] = topics[i]
  <2>1. topics \in Seq(T!Topic) /\ [name |-> name, subscribers |-> s] \in T!Topic
    BY DEF IInv, T!TypeOK, T!Topic
  <2>2. QED  BY <1>0, <2>1
<1>3. \A i \in 1..n : RouteAt(i)' = RouteAt(i)
  BY <1>1, <1>2 DEF RouteAt, Owner, Served, Entries
<1>4. RouteAt(n + 1)' = last
  <2>1. Entries(n + 1)' = s /\ topics'[n + 1].name = name
    BY <1>2 DEF Entries
  <2>2. Owner(n + 1)' = owner
    BY <1>1, <2>1 DEF Owner
  <2>3. Served(n + 1)' = served
    BY <1>1, <2>1 DEF Served
  <2> HIDE DEF owner, served
  <2>4. QED  BY <2>1, <2>2, <2>3 DEF RouteAt
<1>5. RoutesOf = [i \in 1..n |-> RouteAt(i)] /\ RoutesOf \in Seq({RouteAt(i) : i \in 1..n})
      /\ Len(RoutesOf) = n
  BY <1>0, RoutesAre
<1>6. RoutesOf' = [i \in 1..n + 1 |-> RouteAt(i)']
  <2>1. DOMAIN topics' = 1..n + 1
    BY <1>2, RoutesAre DEF IInv, T!TypeOK
  <2>2. QED  BY <1>1, <2>1 DEF RoutesOf, RouteAt, Owner, Served, Entries
<1> HIDE DEF last
<1>7. Append(RoutesOf, last) = [i \in 1..n + 1 |-> IF i = n + 1 THEN last ELSE RoutesOf[i]]
  BY <1>2, <1>5
<1>8. \A i \in 1..n + 1 : i # n + 1 => i \in 1..n
  BY <1>2
<1>9. \A i \in 1..n + 1 : RouteAt(i)' = IF i = n + 1 THEN last ELSE RoutesOf[i]
  BY <1>3, <1>4, <1>5, <1>8
<1>10. RoutesOf' = Append(RoutesOf, last)
  BY <1>6, <1>7, <1>9
<1>11. QED  BY <1>10 DEF last

\* Other entries of a topic are another owner, or another service, of its route.
LEMMA RouteChanged ==
  ASSUME IInv, Running, UNCHANGED registry, NEW i \in DOMAIN topics, NEW s \in Seq(Client),
         topics' = [topics EXCEPT ![i].subscribers = s]
  PROVE  RoutesOf' = [RoutesOf EXCEPT ![i] =
           [name |-> topics[i].name, owner |-> IF s = <<>> THEN NULL ELSE clients[s[1]].id,
            served |-> \E p \in Range(s) : clients[p].is_online]]
<1> DEFINE owner  == IF s = <<>> THEN NULL ELSE clients[s[1]].id
           served == \E p \in Range(s) : clients[p].is_online
           new    == [name |-> topics[i].name, owner |-> owner, served |-> served]
<1>1. clients' = clients /\ Running'
  BY DEF registry, Running
<1>2. T!NamesStay /\ DOMAIN topics' = DOMAIN topics /\ topics'[i].subscribers = s
      /\ \A j \in DOMAIN topics : j # i => topics'[j] = topics[j]
  BY T!ChangeSubscribers DEF IInv
<1>3. \A j \in DOMAIN topics : j # i => RouteAt(j)' = RouteAt(j)
  BY <1>1, <1>2 DEF RouteAt, Owner, Served, Entries
<1>4. RouteAt(i)' = new
  <2>1. Entries(i)' = s /\ topics'[i].name = topics[i].name
    BY <1>2 DEF Entries, T!NamesStay
  <2>2. Owner(i)' = owner
    BY <1>1, <2>1 DEF Owner
  <2>3. Served(i)' = served
    BY <1>1, <2>1 DEF Served
  <2> HIDE DEF owner, served
  <2>4. QED  BY <2>1, <2>2, <2>3 DEF RouteAt
<1>5. RoutesOf = [j \in DOMAIN topics |-> RouteAt(j)]
  BY RoutesAre
<1>6. RoutesOf' = [j \in DOMAIN topics |-> RouteAt(j)']
  BY <1>1, <1>2 DEF RoutesOf, RouteAt, Owner, Served, Entries
<1> HIDE DEF new
<1>7. QED  BY <1>3, <1>4, <1>5, <1>6 DEF new

LEMMA SubscribeRefines ==
  ASSUME IInv, NEW fd \in FD, NEW name \in Name, Subscribe(fd, name)
  PROVE  Abstract!Subscribe(fd, name)
<1> DEFINE p    == ClientOf(fd)
           e    == T!exact_topic_index(name)
           mine == [name |-> name, owner |-> HolderOf[fd], served |-> TRUE]
<1>1. /\ UNCHANGED registry /\ CommandFrom(fd) /\ Running /\ p # NULL
      /\ outbox' = <<[to |-> fd, what |-> "Subscribed", name |-> name]>>
  BY DEF Subscribe, CommandFrom, Confirmation
<1>2. IInv'
  BY StepIInv DEF Next
<1>3. T!subscribe_client(p, name) /\ T!TypeOK
  BY SameTable DEF IInv
<1>4. /\ p \in Client /\ clients[p].is_online /\ clients[p].id \in ID
      /\ HolderOf[fd] = clients[p].id /\ HolderOf[fd] # NULL
  BY <1>1, HolderIsOnline, HoldersAre, NullAssumption DEF IInv, R!Online
<1>5. Abstract!RouteOf(name) = e
  BY <1>1, SameSearches
<1>6. RoutesOf' = IF e = 0 THEN Append(RoutesOf, mine)
                  ELSE IF RoutesOf[e].owner \in {NULL, HolderOf[fd]}
                       THEN [RoutesOf EXCEPT ![e] = mine]
                       ELSE RoutesOf
  <2> HIDE DEF p, e
  <2>1. CASE e = 0 /\ topics' = Append(topics, [name |-> name, subscribers |-> <<p>>])
    <3>1. <<p>> \in Seq(Client) /\ <<p>> # <<>> /\ <<p>>[1] = p /\ Range(<<p>>) = {p}
      BY <1>4 DEF Range
    <3>2. (\E q \in Range(<<p>>) : clients[q].is_online) = TRUE
      BY <1>4, <3>1
    <3>3. (IF <<p>> = <<>> THEN NULL ELSE clients[<<p>>[1]].id) = HolderOf[fd]
      BY <1>4, <3>1
    <3>4. RoutesOf' = Append(RoutesOf,
             [name |-> name, owner |-> IF <<p>> = <<>> THEN NULL ELSE clients[<<p>>[1]].id,
              served |-> \E q \in Range(<<p>>) : clients[q].is_online])
      BY <1>1, <1>2, <2>1, <3>1, RouteAppended
    <3>5. QED  BY <2>1, <3>2, <3>3, <3>4
  <2>2. CASE /\ e # 0 /\ e \in DOMAIN topics /\ topics' = topics
             /\ \E q \in Range(topics[e].subscribers) : clients[q].id # clients[p].id
    <3>1. RoutesOf[e].owner = Owner(e)
      BY <1>1, <2>2, RoutesAre DEF RouteAt
    <3>2. Owner(e) \notin {NULL, HolderOf[fd]}
      BY <1>1, <1>4, <2>2, EntriesAreOwners, NullAssumption DEF Entries
    <3>3. RoutesOf' = RoutesOf
      BY <1>1, <2>2, RoutesStay DEF registry, Running
    <3>4. QED  BY <2>2, <3>1, <3>2, <3>3
  <2>3. CASE /\ e # 0 /\ e \in DOMAIN topics /\ topics[e].name = name
             /\ topics' = [topics EXCEPT ![e].subscribers = Append(@, p)]
             /\ \A q \in Range(topics[e].subscribers) : clients[q].id = clients[p].id
    <3> DEFINE s == Append(Entries(e), p)
    <3>1. Entries(e) \in Seq(Client)
      BY <1>1, <2>3, EntriesAreOwners
    <3>2. s \in Seq(Client) /\ s # <<>> /\ p \in Range(s)
          /\ s[1] = IF Entries(e) = <<>> THEN p ELSE Entries(e)[1]
      <4>1. /\ s \in Seq(Client) /\ Len(Entries(e)) \in Nat /\ Len(s) = Len(Entries(e)) + 1
            /\ DOMAIN s = 1..Len(s) /\ s[Len(s)] = p
            /\ \A k \in 1..Len(Entries(e)) : s[k] = Entries(e)[k]
            /\ Entries(e) = <<>> <=> Len(Entries(e)) = 0
        BY <1>4, <3>1
      <4> HIDE DEF s
      <4>2. Len(s) \in DOMAIN s
        BY <4>1
      <4>3. s # <<>> /\ p \in Range(s)
        BY <4>1, <4>2 DEF Range
      <4>4. s[1] = IF Entries(e) = <<>> THEN p ELSE Entries(e)[1]
        BY <4>1
      <4>5. QED  BY <4>1, <4>3, <4>4
    <3>3. Entries(e) # <<>> => Entries(e)[1] \in Range(topics[e].subscribers)
      BY <3>1 DEF Range, Entries
    <3>4. clients[s[1]].id = HolderOf[fd]
      BY <1>4, <2>3, <3>2, <3>3
    <3>5. (\E q \in Range(s) : clients[q].is_online) = TRUE
      BY <1>4, <3>2
    <3>6. topics' = [topics EXCEPT ![e].subscribers = s]
      BY <2>3 DEF Entries
    <3>7. RoutesOf[e].owner \in {NULL, HolderOf[fd]}
      <4>1. RoutesOf[e].owner = Owner(e)
        BY <1>1, <2>3, RoutesAre DEF RouteAt
      <4>2. QED  BY <1>4, <2>3, <3>3, <4>1 DEF Owner
    <3> HIDE DEF s
    <3>8. RoutesOf' = [RoutesOf EXCEPT ![e] =
             [name |-> topics[e].name, owner |-> IF s = <<>> THEN NULL ELSE clients[s[1]].id,
              served |-> \E q \in Range(s) : clients[q].is_online]]
      BY <1>1, <2>3, <3>2, <3>6, RouteChanged
    <3>9. QED  BY <2>3, <3>2, <3>4, <3>5, <3>7, <3>8
  <2>4. QED  BY <1>3, <1>4, <2>1, <2>2, <2>3, T!SubscribeCases DEF e, T!Range, Range
<1> HIDE DEF e, mine
<1>7. QED  BY <1>1, <1>4, <1>5, <1>6, HoldersStay DEF Abstract!Subscribe, mine

LEMMA UnsubscribeRefines ==
  ASSUME IInv, NEW fd \in FD, NEW name \in Name, Unsubscribe(fd, name)
  PROVE  Abstract!Unsubscribe(fd, name)
<1> DEFINE p == ClientOf(fd)
           e == T!exact_topic_index(name)
           Left(owner, served) == [name |-> name, owner |-> owner, served |-> served]
<1>1. /\ UNCHANGED registry /\ CommandFrom(fd) /\ Running /\ p # NULL
      /\ outbox' = <<[to |-> fd, what |-> "Unsubscribed", name |-> name]>>
  BY DEF Unsubscribe, CommandFrom, Confirmation
<1>2. T!unsubscribe_client(p, name) /\ T!TypeOK
  BY SameTable DEF IInv
<1>3. /\ p \in Client /\ clients[p].id \in ID
      /\ HolderOf[fd] = clients[p].id /\ HolderOf[fd] # NULL
  BY <1>1, HolderIsOnline, HoldersAre, NullAssumption DEF IInv
<1>4. Abstract!RouteOf(name) = e
  BY <1>1, SameSearches
<1>5. \/ RoutesOf' = RoutesOf
      \/ /\ e # 0 /\ RoutesOf[e].owner \notin {NULL, HolderOf[fd]}
         /\ \/ RoutesOf' = [RoutesOf EXCEPT ![e] = Left(NULL, FALSE)]
            \/ RoutesOf' = [RoutesOf EXCEPT ![e] = Left(RoutesOf[e].owner, FALSE)]
  <2> HIDE DEF p, e
  <2>1. CASE topics' = topics
    BY <1>1, <2>1, RoutesStay DEF registry, Running
  <2>2. ASSUME e # 0, e \in DOMAIN topics, topics[e].name = name,
               \E q \in Range(topics[e].subscribers) : clients[q].id # clients[p].id,
               NEW s \in Seq(Client), Range(s) \subseteq Range(topics[e].subscribers),
               topics' = [topics EXCEPT ![e].subscribers = s]
        PROVE  \/ RoutesOf' = RoutesOf
               \/ /\ e # 0 /\ RoutesOf[e].owner \notin {NULL, HolderOf[fd]}
                  /\ \/ RoutesOf' = [RoutesOf EXCEPT ![e] = Left(NULL, FALSE)]
                     \/ RoutesOf' = [RoutesOf EXCEPT ![e] = Left(RoutesOf[e].owner, FALSE)]
    <3> DEFINE owner  == IF s = <<>> THEN NULL ELSE clients[s[1]].id
               served == \E q \in Range(s) : clients[q].is_online
    <3>1. /\ RoutesOf[e] = RouteAt(e) /\ DOMAIN RoutesOf = DOMAIN topics
          /\ RoutesOf = [i \in DOMAIN topics |-> RouteAt(i)]
      BY <1>1, <2>2, RoutesAre
    <3>2. \A q \in Range(Entries(e)) : clients[q].id = Owner(e) /\ clients[q].id \in ID
      BY <1>1, <2>2, EntriesAreOwners
    <3>3. Owner(e) \notin {NULL, HolderOf[fd]}
      BY <1>3, <2>2, <3>2, NullAssumption DEF Entries
    <3>4. RoutesOf[e].owner = Owner(e)
      BY <3>1 DEF RouteAt
    <3>5. RoutesOf' = [RoutesOf EXCEPT ![e] = Left(owner, served)]
      BY <1>1, <2>2, RouteChanged
    <3>6. s # <<>> => owner = Owner(e)
      <4>1. s # <<>> => s[1] \in Range(s)
        BY DEF Range
      <4>2. QED  BY <2>2, <3>2, <4>1 DEF Entries
    <3>7. s = <<>> => ~served
      BY DEF Range
    <3>8. served => Served(e)
      BY <2>2 DEF Served, Entries
    <3>9. CASE ~served
      <4>1. Left(owner, served) = Left(owner, FALSE)
        BY <3>9
      <4> HIDE DEF owner, served
      <4>2. owner = NULL \/ owner = Owner(e)
        BY <3>6 DEF owner
      <4>3. QED  BY <2>2, <3>3, <3>4, <3>5, <4>1, <4>2
    <3>10. CASE served
      <4>1. Left(owner, served) = Left(owner, TRUE) /\ Served(e) = TRUE
        BY <3>8, <3>10 DEF Served
      <4>2. RouteAt(e) = Left(Owner(e), TRUE)
        BY <2>2, <4>1 DEF RouteAt
      <4> HIDE DEF owner, served
      <4>3. owner = Owner(e)
        BY <3>6, <3>7, <3>10
      <4>4. RoutesOf' = [RoutesOf EXCEPT ![e] = RoutesOf[e]]
        BY <3>1, <3>5, <4>1, <4>2, <4>3
      <4>5. RoutesOf' = RoutesOf
        BY <2>2, <3>1, <4>4
      <4>6. QED  BY <4>5
    <3>11. QED  BY <3>9, <3>10
  <2>3. QED  BY <1>2, <1>3, <2>1, <2>2, T!UnsubscribeCases DEF e, T!Range, Range
<1> HIDE DEF e
<1>6. QED  BY <1>1, <1>3, <1>4, <1>5, HoldersStay DEF Abstract!Unsubscribe

LEMMA PublishRefines ==
  ASSUME IInv, AskedInv, NEW name \in Published, Publish(name)
  PROVE  Abstract!Publish(name)
<1> DEFINE e == T!matching_topic_index(name)
<1>1. UNCHANGED registry /\ Running /\ outbox' = Forwarded(name)
  BY DEF Publish
<1>2. IInv' /\ name \in Name
  BY StepIInv, PublishedAssumption DEF Next
<1>3. Abstract!Route(name) = e
  BY <1>1, <1>2, SameSearches
<1>4. T!send_udp_packet(name) /\ e \in 0..Len(topics)
  BY <1>2, SamePacket, T!MatchingIndex DEF IInv
<1>5. RoutesOf' = IF e = 0
                  THEN Append(RoutesOf, [name |-> name, owner |-> NULL, served |-> FALSE])
                  ELSE RoutesOf
  <2>1. CASE e = 0
    <3>1. topics' = Append(topics, [name |-> name, subscribers |-> <<>>])
      BY <1>4, <2>1 DEF T!send_udp_packet
    <3>2. <<>> \in Seq(Client) /\ (\E q \in Range(<<>>) : clients[q].is_online) = FALSE
      BY DEF Range
    <3>3. RoutesOf' = Append(RoutesOf,
             [name |-> name, owner |-> IF <<>> = <<>> THEN NULL ELSE clients[<<>>[1]].id,
              served |-> \E q \in Range(<<>>) : clients[q].is_online])
      BY <1>1, <1>2, <3>1, <3>2, RouteAppended
    <3>4. QED  BY <2>1, <3>2, <3>3
  <2>2. CASE e # 0
    <3>1. topics' = topics
      BY <1>4, <2>2 DEF T!send_udp_packet
    <3>2. QED  BY <1>1, <2>2, <3>1, RoutesStay DEF registry, Running
  <2>3. QED  BY <2>1, <2>2
<1>6. e # 0 => e \in DOMAIN topics /\ RoutesOf[e].owner = Owner(e) /\ RoutesOf[e].served = Served(e)
  <2>1. e # 0 => e \in DOMAIN topics
    <3> HIDE DEF e
    <3>1. QED  BY <1>1, <1>4, RoutesAre
  <2>2. QED  BY <1>1, <2>1, RoutesAre DEF RouteAt
<1>7. ASSUME NEW k \in DOMAIN outbox'
      PROVE  /\ outbox'[k] = [to |-> outbox'[k].to, what |-> "packet", name |-> name]
             /\ HolderOf[outbox'[k].to] = RoutesOf[e].owner
             /\ e # 0 /\ Served(e)
  <2>1. /\ outbox'[k] = PacketTo(outbox'[k].to, name)
        /\ e \in DOMAIN topics
        /\ outbox'[k].to \in FD /\ ClientOf(outbox'[k].to) # NULL
        /\ ClientOf(outbox'[k].to) \in Range(Entries(e))
    BY <1>1, <1>7, ForwardedProperties DEF Entries
  <2> DEFINE fd == outbox'[k].to
             q  == ClientOf(fd)
  <2> HIDE DEF fd
  <2>2. clients[q].is_online /\ HolderOf[fd] = clients[q].id
    BY <1>1, <2>1, HolderIsOnline, HoldersAre DEF IInv, R!Online, fd
  <2>3. clients[q].id = Owner(e)
    BY <1>1, <2>1, EntriesAreOwners DEF fd
  <2>4. e # 0
    BY <1>1, <2>1, RoutesAre
  <2>5. Served(e)
    BY <2>1, <2>2 DEF Served, fd
  <2>6. QED  BY <1>6, <2>1, <2>2, <2>3, <2>4, <2>5 DEF PacketTo, fd
<1>8. (outbox' # <<>>) = (e # 0 /\ RoutesOf[e].served)
  <2>1. outbox' \in Seq(Message)
    BY <1>1, ForwardedProperties
  <2>2. outbox' # <<>> => 1 \in DOMAIN outbox'
    BY <2>1
  <2>3. outbox' # <<>> => e # 0 /\ Served(e)
    BY <1>7, <2>2
  <2>4. e # 0 /\ Served(e) => outbox' # <<>>
    BY <1>1, ForwardedProperties DEF Served, Entries
  <2>5. QED  BY <1>6, <2>3, <2>4
<1> HIDE DEF e
<1>9. QED  BY <1>1, <1>3, <1>5, <1>7, <1>8, HoldersStay DEF Abstract!Publish

-----------------------------------------------------------------------------
(* The end, and the whole.                                                 *)

LEMMA EndsRefine ==
  ASSUME Running, ~Running'
  PROVE  Abstract!Ends
BY DEF Abstract!Ends, Abstract!Nobody, HolderOf, RoutesOf

LEMMA StepRefines ==
  ASSUME IInv, AskedInv, [Next]_vars
  PROVE  [Abstract!Next]_(Abstract!vars)
<1>1. ASSUME NEW id \in ID, NEW fd \in FD, Accept(id, fd) PROVE Abstract!Next
  BY <1>1, AcceptRefines DEF Abstract!Next
<1>2. ASSUME NEW fd \in FD, Leave(fd) PROVE Abstract!Next
  BY <1>2, LeaveRefines DEF Abstract!Next
<1>3. ASSUME NEW fd \in FD, NEW name \in Name, Subscribe(fd, name) PROVE Abstract!Next
  BY <1>3, SubscribeRefines DEF Abstract!Next
<1>4. ASSUME NEW fd \in FD, NEW name \in Name, Unsubscribe(fd, name) PROVE Abstract!Next
  BY <1>4, UnsubscribeRefines DEF Abstract!Next
<1>5. ASSUME NEW name \in Published, Publish(name) PROVE Abstract!Next
  BY <1>5, PublishRefines DEF Abstract!Next
<1>6. CASE Dropped
  <2>1. Running /\ UNCHANGED registry /\ topics' = topics /\ outbox' = <<>>
    BY <1>6 DEF Dropped
  <2>2. RoutesOf' = RoutesOf
    BY <2>1, RoutesStay DEF registry, Running
  <2>3. QED  BY <2>1, <2>2, HoldersStay DEF Abstract!Next, Abstract!Quiet
<1>7. CASE Stop
  <2>1. Running /\ ~Running' /\ outbox' \in Farewells
    BY <1>7 DEF Stop, Registry!close_clients, Running
  <2>2. {fd \in FD : HolderOf[fd] # NULL} = {fd \in FD : ClientOf(fd) # NULL}
    BY <2>1, HoldersAre
  <2>3. Abstract!Stop
    BY <2>1, <2>2, EndsRefine, FarewellsProperties DEF Abstract!Stop
  <2>4. QED  BY <2>3 DEF Abstract!Next
<1>8. CASE StopFails \/ \E name \in Published : PublishFails(name)
  <2>1. /\ Running /\ ~Running' /\ outbox' \in Seq(Message)
        /\ \A k \in DOMAIN outbox' :
             outbox'[k].what \in {"packet", "exit", "end"} /\ ClientOf(outbox'[k].to) # NULL
    BY <1>8, FailingSends
  <2>2. \A k \in DOMAIN outbox' : outbox'[k].to \in FD
    BY <2>1 DEF Message
  <2>3. Abstract!Die
    BY <2>1, <2>2, EndsRefine, HoldersAre DEF Abstract!Die
  <2>4. QED  BY <2>3 DEF Abstract!Next
<1>9. CASE ReadOrReplyFails \/ AcceptFails \/ \E fd \in FD : BadCommand(fd)
  <2>1. Running /\ ~Running' /\ outbox' = <<>>
    BY <1>9 DEF ReadOrReplyFails, AcceptFails, BadCommand, Registry!SocketError,
       Registry!AcceptFails, Registry!DIE, Running
  <2>2. Abstract!Die
    BY <2>1, EndsRefine DEF Abstract!Die
  <2>3. QED  BY <2>2 DEF Abstract!Next
<1>10. CASE UNCHANGED vars
  <2>1. UNCHANGED registry /\ topics' = topics /\ outbox' = outbox
    BY <1>10 DEF vars
  <2>2. RoutesOf' = RoutesOf
    BY <2>1 DEF RoutesOf, registry, Running
  <2>3. QED  BY <2>1, <2>2, HoldersStay DEF Abstract!vars
<1>11. QED  BY <1>1, <1>2, <1>3, <1>4, <1>5, <1>6, <1>7, <1>8, <1>9, <1>10 DEF Next

\* Every step of the server is one its promise allows: a packet goes to the
\* present session of the id that owns the first name it matches and to no other,
\* a name keeps its owner through departures and returns, and an end tells or
\* kills everyone at once.
THEOREM BrokerImplementsPubSub == Spec => ImplementsPubSub
<1>1. Init => Abstract!Init
  BY DEF Init, Registry!Init, Table!Init, Abstract!Init, Abstract!Nobody, Running,
     HolderOf, RoutesOf, ClientOf
<1>2. IInv /\ AskedInv /\ [Next]_vars => [Abstract!Next]_(Abstract!vars)
  BY StepRefines
<1>3. QED  BY <1>1, <1>2, Inductive, AskedInductive, PTL
             DEF Spec, ImplementsPubSub, Abstract!Spec
=============================================================================
