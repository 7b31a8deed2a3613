------------------------------- MODULE Broker -------------------------------
(***************************************************************************)
(* The server: the registry of its TCP clients and its table of topics,    *)
(* driven by the events of the select loop.  Each pass of the loop over a  *)
(* ready descriptor runs one handler to its end, so each event is one      *)
(* step.  outbox is what the latest handler has sent, in order; a send the *)
(* kernel refuses ends the server after a prefix of it.                    *)
(***************************************************************************)
EXTENDS Naturals, Sequences, FiniteSets, SequencesExt

CONSTANTS
  ID, FD, Client, ListenFd, NULL,   \* as in ClientRegistry
  Name, Matches(_, _),              \* as in TopicTable
  Published,                        \* topics of the UDP packets
  MaxEntries                        \* bound on the subscribers of one topic

ASSUME NullAssumption      == NULL \notin Client /\ NULL \notin ID /\ NULL \notin FD
ASSUME FdAssumption        == FD \subseteq Nat /\ ListenFd \in Nat
ASSUME LimitAssumption     == IsFiniteSet(FD)
ASSUME PublishedAssumption == Published \subseteq Name
ASSUME MatchesAssumption   == \A name \in Name : Matches(name, name)

VARIABLES
  clients, map_id_clients, map_connected_clients,
  open_fds, read_fds, max_nr_fd, server,   \* the registry
  topics,                                  \* the topic table
  outbox,      \* the messages the latest handler has sent
  asked        \* history: the names a session has sent "subscribe" for

registry == <<clients, map_id_clients, map_connected_clients,
              open_fds, read_fds, max_nr_fd, server>>
vars     == <<registry, topics, outbox, asked>>

Registry == INSTANCE ClientRegistry
Table    == INSTANCE TopicTable

Message ==
       [to : FD, what : {"Subscribed", "Unsubscribed", "packet"}, name : Name]
  \cup [to : FD, what : {"exit", "end"}]

TypeOK ==
  /\ Registry!TypeOK
  /\ Table!TypeOK
  /\ outbox \in Seq(Message)
  /\ asked \in [FD -> SUBSET Name]

Init ==
  /\ Registry!Init
  /\ Table!Init
  /\ outbox = <<>>
  /\ asked = [fd \in FD |-> {}]

Running == server = "running"

\* The client a connection is registered for, or NULL.
ClientOf(fd) == map_connected_clients[fd]

-----------------------------------------------------------------------------
(* Connections.                                                            *)

ExitTo(fd) == [to |-> fd, what |-> "exit"]

\* Slip: a duplicate is ignored without a word.
Refusal_Silent(id, fd) == <<>>

\* What accepting a connection under an id sends: "exit" to a duplicate.
Refusal(id, fd) == IF Registry!IsDuplicate(id, fd) THEN <<ExitTo(fd)>> ELSE <<>>

Accept(id, fd) ==
  /\ Registry!AcceptClient(id, fd)
  /\ outbox' = Refusal(id, fd)
  /\ UNCHANGED <<topics, asked>>

Leave(fd) ==
  /\ Registry!ClientLeaves(fd)
  /\ outbox' = <<>>
  /\ asked' = [asked EXCEPT ![fd] = {}]
  /\ UNCHANGED topics

-----------------------------------------------------------------------------
(* Commands of a subscriber: execute_subscriber_command.                   *)

Confirmation(fd, what, name) == [to |-> fd, what |-> what, name |-> name]

\* A watched connection of a registered client is ready with a command.
CommandFrom(fd) ==
  /\ Running
  /\ fd \in read_fds
  /\ ClientOf(fd) # NULL

\* No topic has reached the bound, wherever the entry would go.
WithinBound == \A i \in DOMAIN topics : Len(topics[i].subscribers) < MaxEntries

Subscribe(fd, name) ==
  /\ CommandFrom(fd)
  /\ WithinBound
  /\ Table!subscribe_client(ClientOf(fd), name)
  /\ outbox' = <<Confirmation(fd, "Subscribed", name)>>
  /\ asked' = [asked EXCEPT ![fd] = @ \cup {name}]
  /\ UNCHANGED registry

Unsubscribe(fd, name) ==
  /\ CommandFrom(fd)
  /\ Table!unsubscribe_client(ClientOf(fd), name)
  /\ outbox' = <<Confirmation(fd, "Unsubscribed", name)>>
  /\ UNCHANGED <<registry, asked>>

\* Two words, the first of which is no command.
BadCommand(fd) ==
  /\ CommandFrom(fd)
  /\ Registry!DIE
  /\ outbox' = <<>>
  /\ UNCHANGED <<topics, asked>>

\* A line that is not two words, any line of a connection outside the maps, and
\* a packet without a valid type or without bytes: dropped without a trace.
Dropped ==
  /\ Running
  /\ outbox' = <<>>
  /\ UNCHANGED <<registry, topics, asked>>

-----------------------------------------------------------------------------
(* Packets of the UDP clients.                                             *)

PacketTo(fd, name) == [to |-> fd, what |-> "packet", name |-> name]

\* The writes of send_udp_packet, one per entry of an online client.
Forwarded(name) ==
  LET to == Table!Receivers(name) IN [k \in DOMAIN to |-> PacketTo(to[k], name)]

Publish(name) ==
  /\ Running
  /\ outbox' = Forwarded(name)
  /\ Table!send_udp_packet(name)
  /\ UNCHANGED <<registry, asked>>

-----------------------------------------------------------------------------
(* The end of the server.                                                  *)

\* What close_clients makes each online client of the id map read: the "exit"
\* line, or only the end of the stream if the line was empty.  Its order is that
\* of the hash table: any.
Farewells ==
  LET told == {p \in Registry!Registered : clients[p].is_online}
  IN  UNION {SetToSeqs({[to |-> clients[p].socket, what |-> line] : p \in told}) :
               line \in {"exit", "end"}}

Stop ==
  /\ Registry!close_clients
  /\ outbox' \in Farewells
  /\ UNCHANGED <<topics, asked>>

\* A send of a handler fails: the ones before it have gone out, and what the
\* handler has changed dies with the process.
SendFails(messages) ==
  \E sent \in 0..Len(messages) - 1 :
    /\ Registry!SocketError
    /\ outbox' = SubSeq(messages, 1, sent)
    /\ UNCHANGED <<topics, asked>>

PublishFails(name) == SendFails(Forwarded(name))

StopFails == \E messages \in Farewells : SendFails(messages)

\* A confirmation or a refusal that cannot be sent, or a read that fails, that
\* of the id on a connection just accepted included.
ReadOrReplyFails ==
  /\ Registry!SocketError
  /\ outbox' = <<>>
  /\ UNCHANGED <<topics, asked>>

AcceptFails ==
  /\ Registry!AcceptFails
  /\ outbox' = <<>>
  /\ UNCHANGED <<topics, asked>>

Next ==
  \/ \E id \in ID, fd \in FD : Accept(id, fd)
  \/ \E fd \in FD : Leave(fd) \/ BadCommand(fd)
  \/ \E fd \in FD, name \in Name : Subscribe(fd, name) \/ Unsubscribe(fd, name)
  \/ \E name \in Published : Publish(name) \/ PublishFails(name)
  \/ Dropped
  \/ Stop
  \/ StopFails
  \/ ReadOrReplyFails
  \/ AcceptFails

Spec == Init /\ [][Next]_vars

-----------------------------------------------------------------------------
(* Properties.                                                             *)

\* A name is in the vector of topics once, whether a subscription or a packet
\* put it there (WithTopic searches by name, send_udp_packet by match).
UniqueNames ==
  \A i, j \in DOMAIN topics : topics[i].name = topics[j].name => i = j

\* All the entries of a topic are of one id, its first subscriber's: the search
\* of subscribe_client finds, and stops at, an entry of any other id.
SingleOwner ==
  Running =>
    \A i \in DOMAIN topics :
      \A p, q \in Range(topics[i].subscribers) : clients[p].id = clients[q].id

\* A packet goes only to connections that are open and whose present session
\* has subscribed to a name the topic matches, although entries of clients that
\* have left stay in the table and their descriptors are used again.
OnlyAsked ==
  Running =>
    \A k \in DOMAIN outbox :
      outbox[k].what = "packet" =>
        /\ ClientOf(outbox[k].to) # NULL
        /\ \E name \in asked[outbox[k].to] : Matches(outbox[k].name, name)

\* The topic a packet is routed to never changes once there is one: later
\* subscriptions, departures and packets leave it in place.
RouteStable ==
  [][\A name \in Published :
       Table!matching_topic_index(name) # 0 =>
         Table!matching_topic_index(name)' = Table!matching_topic_index(name)]_vars

\* On an orderly stop every registered connection has been told to exit, once:
\* close_clients goes through the ids, the commands went through the sockets.
StopReachesEveryone ==
  server = "stopped" =>
    /\ {outbox[k].to : k \in DOMAIN outbox} = {fd \in FD : ClientOf(fd) # NULL}
    /\ \A j, k \in DOMAIN outbox : outbox[j].to = outbox[k].to => j = k

-----------------------------------------------------------------------------
(* The refinement.                                                         *)

\* Each connection with the id it is registered for.
HolderOf ==
  [fd \in FD |-> IF Running /\ ClientOf(fd) # NULL THEN clients[ClientOf(fd)].id ELSE NULL]

\* Each topic with the id of its entries (SingleOwner), and whether one of them
\* is an object that is online.
RoutesOf ==
  IF ~Running THEN <<>>
  ELSE [i \in DOMAIN topics |->
          LET entries == topics[i].subscribers
          IN  [name   |-> topics[i].name,
               owner  |-> IF entries = <<>> THEN NULL ELSE clients[entries[1]].id,
               served |-> \E p \in Range(entries) : clients[p].is_online]]

Abstract == INSTANCE PubSub
              WITH up <- Running, holder <- HolderOf, routes <- RoutesOf, sent <- outbox

\* The server implements PubSub: a packet has one receiver at most, the session
\* that owns the first name it matches, and is sent to it if it is served.
ImplementsPubSub == Abstract!Spec

-----------------------------------------------------------------------------
(* What the repository says of the server and the code does not do.        *)

\* readme.txt:64-65 "Altfel adaug clientul la vectorul de subscriberi" and
\* readme.txt:69 "sterg clientul din vectorul de subscriberi": when a client is
\* told it is subscribed it has an entry, and when it is told it is not it has none.
ConfirmationIsTrue ==
  Running =>
    \A k \in DOMAIN outbox, i \in DOMAIN topics :
      LET entered == ClientOf(outbox[k].to) \in Range(topics[i].subscribers)
      IN  /\ outbox[k] = Confirmation(outbox[k].to, "Subscribed", topics[i].name) => entered
          /\ outbox[k] = Confirmation(outbox[k].to, "Unsubscribed", topics[i].name) => ~entered

\* readme.txt:31-32 "Acest mesaj este trimis catre toti clientii care sunt
\* abonati la topicul respectiv": a packet reaches every client with an entry
\* for a name its topic matches.
SentToAllSubscribers ==
  [][\A name \in Published :
       Publish(name) =>
         \A fd \in FD, i \in DOMAIN topics :
           /\ Matches(name, topics[i].name)
           /\ ClientOf(fd) \in Range(topics[i].subscribers)
           => \E k \in DOMAIN outbox' : outbox'[k] = PacketTo(fd, name)]_vars
=============================================================================
