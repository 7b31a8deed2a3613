----------------------------- MODULE TopicTable -----------------------------
(***************************************************************************)
(* The server's vector of topics, each with the vector of its subscribers, *)
(* and the three functions that search and change it.  A subscriber is a   *)
(* pointer to a client object, so the heap of the registry is a variable   *)
(* here too: the functions read the ids and online flags of the objects.   *)
(* Indices start at 1, and 0 stands for the -1 of the searches.            *)
(***************************************************************************)
EXTENDS Naturals, Sequences, SequencesExt, Selection

CONSTANTS
  Client,         \* addresses of client objects
  Name,           \* names of topics, with or without wildcards
  Matches(_, _)   \* matches_wildcard_path(topic, wildcard_topic)

VARIABLES
  clients,   \* the heap: the client object at each address
  topics     \* std::vector<topic>: records of a name and its subscribers

Topic == [name : Name, subscribers : Seq(Client)]

TypeOK == topics \in Seq(Topic)

Init == topics = <<>>

-----------------------------------------------------------------------------
(* The searches.                                                           *)

\* The first subscriber whose id differs from the given one.
get_subscriber_index(client_id, topic) ==
  SelectInSeq(topic.subscribers, LAMBDA p : clients[p].id # client_id)

\* get_topic_index(name, topics, true): subscribe and unsubscribe.
exact_topic_index(name) == SelectInSeq(topics, LAMBDA t : t.name = name)

\* get_topic_index(name, topics, false): the first topic a packet matches.
matching_topic_index(name) == SelectInSeq(topics, LAMBDA t : Matches(name, t.name))

-----------------------------------------------------------------------------
(* The changes.                                                            *)

\* The vector in which a subscription looks for its topic: a new topic is
\* pushed before the search for the subscriber.
WithTopic(name) ==
  IF exact_topic_index(name) = 0
  THEN Append(topics, [name |-> name, subscribers |-> <<>>])
  ELSE topics

IndexWithTopic(name) ==
  IF exact_topic_index(name) = 0 THEN Len(topics) + 1 ELSE exact_topic_index(name)

\* Slip: no early return for a subscriber that is found.
subscribe_client_Always(p, name) ==
  topics' = [WithTopic(name) EXCEPT ![IndexWithTopic(name)].subscribers = Append(@, p)]

subscribe_client(p, name) ==
  LET table == WithTopic(name)
      i     == IndexWithTopic(name)
  IN  topics' = IF get_subscriber_index(clients[p].id, table[i]) # 0
                THEN table
                ELSE [table EXCEPT ![i].subscribers = Append(@, p)]

\* Slip: a topic without subscribers is dropped from the vector.
unsubscribe_client_Drops(p, name) ==
  LET i == exact_topic_index(name)
  IN  topics' = IF i = 0 THEN topics
                ELSE IF topics[i].subscribers = <<>> THEN RemoveAt(topics, i) ELSE topics

unsubscribe_client(p, name) ==
  LET i == exact_topic_index(name)
      s == IF i = 0 THEN 0 ELSE get_subscriber_index(clients[p].id, topics[i])
  IN  topics' = IF s = 0 THEN topics
                ELSE [topics EXCEPT ![i].subscribers = RemoveAt(@, s)]

\* Slip: the search before the push is left out.
send_udp_packet_Pushes(name) ==
  topics' = Append(topics, [name |-> name, subscribers |-> <<>>])

\* A packet nobody asked for leaves a topic of its name at the end.
send_udp_packet(name) ==
  topics' = IF matching_topic_index(name) = 0
            THEN Append(topics, [name |-> name, subscribers |-> <<>>])
            ELSE topics

\* Slip: the online flag is not consulted.
Receivers_AnyState(name) ==
  LET i == matching_topic_index(name)
  IN  IF i = 0 THEN <<>> ELSE [k \in DOMAIN topics[i].subscribers |->
                                 clients[topics[i].subscribers[k]].socket]

\* The sockets send_udp_packet writes a packet to, in the order of its loop.
Receivers(name) ==
  LET i      == matching_topic_index(name)
      online == Filter(topics[i].subscribers, {p \in Client : clients[p].is_online})
  IN  IF i = 0 THEN <<>> ELSE [k \in DOMAIN online |-> clients[online[k]].socket]
=============================================================================
