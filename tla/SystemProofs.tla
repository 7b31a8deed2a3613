---------------------------- MODULE SystemProofs ----------------------------
(***************************************************************************)
(* Proofs about System, for every instance of its constants.               *)
(***************************************************************************)
EXTENDS System, SelectionProofs

-----------------------------------------------------------------------------
(* The invariant.                                                          *)

\* What a subscriber and the server may send each other.
UserID == UNION {{s.id[p] : p \in Process} : s \in Scenario}
Bytes  == Line \cup {<<"id", i>> : i \in UserID} \cup {<<"echo">>}
Answer == {<<"exit">>} \cup {<<what, name>> : what \in {"Subscribed", "Unsubscribed", "packet"},
                                            name \in Name}

Typed ==
  /\ id \in [Process -> UserID]
  /\ user \in [Process -> [comes : BOOLEAN, lines : SUBSET Line, max : Nat]]
  /\ pc \in [Process -> {"start", "connected", "looping", "ended"}]
  /\ typed \in [Process -> Seq(Line)]
  /\ eof \in [Process -> BOOLEAN]
  /\ to_server \in [Process -> Seq(Bytes)]
  /\ from_server \in [Process -> Seq(Answer)]
  /\ gone \in [Process -> {"open", "closed", "reset"}]
  /\ backlog \in Seq(Process)
  /\ peer \in [FD -> Process \cup {NULL}]
  /\ ready \subseteq {STDIN_FILENO, socket_TCP, socket_UDP} \cup FD
  /\ stdin \in Seq(ServerLine) /\ stdio \in Seq(ServerLine)
  /\ datagrams \in Seq(Published)

\* A connection waits in the backlog or has a descriptor, once.
Connections ==
  /\ \A i, j \in DOMAIN backlog : backlog[i] = backlog[j] => i = j
  /\ \A fd \in FD : peer[fd] \notin Range(backlog)
  /\ \A f, g \in FD : peer[f] = peer[g] /\ peer[f] # NULL => f = g
  /\ \A p \in Process : pc[p] = "start" =>
       p \notin Range(backlog) /\ \A fd \in FD : peer[fd] # p
  /\ \A fd \in read_fds : peer[fd] # NULL

\* What is in the snapshot is still there.
Snapshot ==
  /\ STDIN_FILENO \in ready => stdin # <<>>
  /\ socket_TCP \in ready => backlog # <<>>
  /\ socket_UDP \in ready => datagrams # <<>>
  /\ ReadNeverBlocks
  /\ ~Running => ready = {} /\ backlog = <<>>

\* What a process has sent and received, until it is accepted.
Pending(p) == pc[p] = "start" \/ p \in Range(backlog)
Waiting ==
  \A p \in Process :
    /\ pc[p] \in {"start", "connected"} =>
         to_server[p] = <<>> /\ typed[p] = <<>> /\ ~eof[p] /\ gone[p] = "open"
    /\ Len(typed[p]) <= user[p].max
    /\ typed[p] \in Seq(user[p].lines)
    /\ Range(to_server[p]) \subseteq user[p].lines \cup {<<"id", id[p]>>, <<"echo">>}
    /\ Texts(id[p], user[p]) \subseteq ID
    /\ Pending(p) =>
         /\ from_server[p] = <<>>
         /\ pc[p] = "looping" => ~eof[p] /\ to_server[p] = <<<<"id", id[p]>>>> \o typed[p]
         /\ pc[p] = "ended" => to_server[p] \in Texts(id[p], user[p])

\* What a process that runs has sent, it has typed; what it is served, it has
\* asked for.
AskedFor(p, name) == \E i \in DOMAIN typed[p] : typed[p][i][1] = "subscribe" /\ typed[p][i][2] = name
Wants(p, name) ==
  \E i \in DOMAIN typed[p] : typed[p][i][1] = "subscribe" /\ Matches(name, typed[p][i][2])
Requests ==
  /\ \A p \in Process : pc[p] # "ended" =>
       \A k \in DOMAIN to_server[p] :
          /\ to_server[p][k] # <<"exit">>
          /\ to_server[p][k][1] = "subscribe" => to_server[p][k] \in Range(typed[p])
  /\ \A fd \in FD : peer[fd] # NULL /\ pc[peer[fd]] # "ended" =>
       \A name \in asked[fd] : AskedFor(peer[fd], name)
  /\ \A p \in Process : pc[p] # "ended" =>
       \A k \in DOMAIN from_server[p] :
          from_server[p][k][1] = "packet" => Wants(p, from_server[p][k][2])

SInv == Typed /\ Connections /\ Snapshot /\ Waiting /\ Requests

-----------------------------------------------------------------------------
(* The handlers are those of Broker, of which BrokerProofs speaks under an *)
(* instance of its own.                                                    *)

B == INSTANCE BrokerProofs

LEMMA SameAccept ==
  ASSUME NEW text, NEW fd, Broker!Accept(text, fd)
  PROVE  B!Accept(text, fd)
BY DEF Broker!Accept, B!Accept, Broker!Refusal, B!Refusal, Broker!ExitTo, B!ExitTo,
       Broker!Registry!IsDuplicate, B!Registry!IsDuplicate,
       Broker!Registry!AcceptClient, B!Registry!AcceptClient,
       Broker!Registry!connect_client, B!Registry!connect_client,
       Broker!Registry!CreateClient, B!Registry!CreateClient,
       Broker!Registry!ReviveClient, B!Registry!ReviveClient, Broker!Registry!Allocated,
       B!Registry!Allocated, Broker!Registry!Unused, B!Registry!Unused,
       Broker!Registry!NewClient, B!Registry!NewClient, Broker!Registry!Insert,
       B!Registry!Insert, Broker!Registry!Erase, B!Registry!Erase,
       Broker!Registry!LowestFree, B!Registry!LowestFree

LEMMA SameLeave ==
  ASSUME NEW fd, Broker!Leave(fd)
  PROVE  B!Leave(fd)
BY DEF Broker!Leave, B!Leave, Broker!Registry!ClientLeaves, B!Registry!ClientLeaves,
       Broker!Registry!disconnect_client, B!Registry!disconnect_client,
       Broker!Registry!Erase, B!Registry!Erase

LEMMA SameBadCommand ==
  ASSUME NEW fd, Broker!BadCommand(fd)
  PROVE  B!BadCommand(fd)
BY DEF Broker!BadCommand, B!BadCommand, Broker!CommandFrom, B!CommandFrom,
       Broker!Running, B!Running, Broker!ClientOf, B!ClientOf, Broker!Registry!DIE,
       B!Registry!DIE

LEMMA SameSubscribe ==
  ASSUME NEW fd, NEW name, Broker!Subscribe(fd, name)
  PROVE  B!Subscribe(fd, name)
BY DEF Broker!Subscribe, B!Subscribe, Broker!registry, B!registry, Broker!CommandFrom,
       B!CommandFrom, Broker!Running, B!Running, Broker!ClientOf, B!ClientOf,
       Broker!Confirmation, B!Confirmation, Broker!WithinBound, B!WithinBound,
       Broker!Table!subscribe_client, B!Table!subscribe_client, Broker!Table!WithTopic,
       B!Table!WithTopic, Broker!Table!IndexWithTopic, B!Table!IndexWithTopic,
       Broker!Table!exact_topic_index, B!Table!exact_topic_index,
       Broker!Table!get_subscriber_index, B!Table!get_subscriber_index,
       Broker!Table!SelectInSeq, B!Table!SelectInSeq, Broker!Table!Min, B!Table!Min

LEMMA SameUnsubscribe ==
  ASSUME NEW fd, NEW name, Broker!Unsubscribe(fd, name)
  PROVE  B!Unsubscribe(fd, name)
BY DEF Broker!Unsubscribe, B!Unsubscribe, Broker!registry, B!registry,
       Broker!CommandFrom, B!CommandFrom, Broker!Running, B!Running, Broker!ClientOf,
       B!ClientOf, Broker!Confirmation, B!Confirmation, Broker!Table!unsubscribe_client,
       B!Table!unsubscribe_client, Broker!Table!exact_topic_index,
       B!Table!exact_topic_index, Broker!Table!get_subscriber_index,
       B!Table!get_subscriber_index, Broker!Table!SelectInSeq, B!Table!SelectInSeq,
       Broker!Table!Min, B!Table!Min, Broker!Table!RemoveAt, B!Table!RemoveAt

LEMMA SamePublish ==
  ASSUME NEW name, Broker!Publish(name)
  PROVE  B!Publish(name)
BY DEF Broker!Publish, B!Publish, Broker!registry, B!registry, Broker!Running,
       B!Running, Broker!Forwarded, B!Forwarded, Broker!PacketTo, B!PacketTo,
       Broker!Table!Receivers, B!Table!Receivers, Broker!Table!send_udp_packet,
       B!Table!send_udp_packet, Broker!Table!matching_topic_index,
       B!Table!matching_topic_index, Broker!Table!SelectInSeq, B!Table!SelectInSeq,
       Broker!Table!Min, B!Table!Min, Broker!Table!Filter, B!Table!Filter

LEMMA SamePublishFails ==
  ASSUME NEW name, Broker!PublishFails(name)
  PROVE  B!PublishFails(name)
BY DEF Broker!PublishFails, B!PublishFails, Broker!SendFails, B!SendFails,
       Broker!registry, B!registry, Broker!Running, B!Running, Broker!Forwarded,
       B!Forwarded, Broker!PacketTo, B!PacketTo, Broker!Registry!SocketError,
       B!Registry!SocketError, Broker!Registry!DIE, B!Registry!DIE,
       Broker!Table!Receivers, B!Table!Receivers, Broker!Table!matching_topic_index,
       B!Table!matching_topic_index, Broker!Table!SelectInSeq, B!Table!SelectInSeq,
       Broker!Table!Min, B!Table!Min, Broker!Table!Filter, B!Table!Filter

LEMMA SameDropped ==
  ASSUME Broker!Dropped
  PROVE  B!Dropped
BY DEF Broker!Dropped, B!Dropped, Broker!Running, B!Running, Broker!registry, B!registry

LEMMA SameStop ==
  ASSUME Broker!Stop
  PROVE  B!Stop
BY DEF Broker!Stop, B!Stop, Broker!Registry!close_clients, B!Registry!close_clients,
       Broker!Registry!Unused, B!Registry!Unused, Broker!Registry!Registered,
       B!Registry!Registered, Broker!Farewells, B!Farewells, Broker!SetToSeqs,
       B!SetToSeqs, Broker!Cardinality, B!Cardinality

LEMMA SameStopFails ==
  ASSUME Broker!StopFails
  PROVE  B!StopFails
BY DEF Broker!StopFails, B!StopFails, Broker!SendFails, B!SendFails,
       Broker!Registry!SocketError, B!Registry!SocketError, Broker!Registry!DIE,
       B!Registry!DIE, Broker!Registry!Registered, B!Registry!Registered,
       Broker!Farewells, B!Farewells, Broker!SetToSeqs, B!SetToSeqs, Broker!Cardinality,
       B!Cardinality

LEMMA SameReadOrReplyFails ==
  ASSUME Broker!ReadOrReplyFails
  PROVE  B!ReadOrReplyFails
BY DEF Broker!ReadOrReplyFails, B!ReadOrReplyFails, Broker!Registry!SocketError,
       B!Registry!SocketError, Broker!Registry!DIE, B!Registry!DIE

LEMMA SameAcceptFails ==
  ASSUME Broker!AcceptFails
  PROVE  B!AcceptFails
BY DEF Broker!AcceptFails, B!AcceptFails, Broker!Registry!AcceptFails,
       B!Registry!AcceptFails, Broker!Registry!DIE, B!Registry!DIE

LEMMA SameInit == Broker!Init => B!Init
BY DEF Broker!Init, B!Init, Broker!Registry!Init, B!Registry!Init, Broker!Registry!Unused,
       B!Registry!Unused, Broker!Table!Init, B!Table!Init

LEMMA SameHandlers == Broker!Next => B!Next
BY SameAccept, SameLeave, SameBadCommand, SameSubscribe, SameUnsubscribe, SamePublish,
   SamePublishFails, SameDropped, SameStop, SameStopFails, SameReadOrReplyFails,
   SameAcceptFails DEF Broker!Next, B!Next

LEMMA SameNext == [Broker!Next]_(Broker!vars) => [B!Next]_(B!vars)
<1>1. UNCHANGED Broker!vars => UNCHANGED B!vars
  BY DEF Broker!vars, B!vars, Broker!registry, B!registry
<1>2. QED  BY <1>1, SameHandlers

LEMMA BrokerConstants ==
  B!NullAssumption /\ B!FdAssumption /\ B!LimitAssumption /\ B!PublishedAssumption /\ B!MatchesAssumption
BY BrokerAssumption
   DEF Broker!NullAssumption, B!NullAssumption, Broker!FdAssumption, B!FdAssumption,
       Broker!LimitAssumption, B!LimitAssumption, Broker!IsFiniteSet, B!IsFiniteSet,
       Broker!PublishedAssumption, B!PublishedAssumption,
       Broker!MatchesAssumption, B!MatchesAssumption

\* What is proved of the server by itself is kept by its handlers here.
LEMMA ServerStays ==
  ASSUME B!ServerInv, [Broker!Next]_(Broker!vars)
  PROVE  B!ServerInv'
BY SameNext, BrokerConstants, B!ServerStep

-----------------------------------------------------------------------------
(* select and send.                                                        *)

LEMMA MinOf ==
  ASSUME NEW S \in SUBSET Nat, S # {}
  PROVE  Min(S) \in S
<1>1. PICK m \in S : \A n \in S : ~(<<n, m>> \in OpToRel(<, Nat))
  BY NatLessThanWellFounded, WFMin
<1>2. \A n \in S : ~(n < m)
  BY <1>1, Zenon DEF OpToRel
<1>3. \A n \in S : m <= n
  BY <1>2
<1>4. QED  BY <1>3, Zenon DEF Min

LEMMA ServedIsReady ==
  ASSUME Typed, NEW d, Serves(d)
  PROVE  d \in ready /\ Running
<1>1. FD \subseteq Nat
  BY BrokerConstants DEF B!FdAssumption
<1>2. ready \in SUBSET Nat
  BY <1>1 DEF Typed, STDIN_FILENO, socket_TCP, socket_UDP
<1>3. QED  BY <1>2, MinOf DEF Serves

\* What a process is sent is made of the messages to its descriptors.
LEMMA SentProperties ==
  ASSUME outbox' \in Seq(B!Message), NEW p \in Process
  PROVE  /\ Sent(p) \in Seq(Answer)
         /\ \A k \in DOMAIN Sent(p) : \E j \in DOMAIN outbox' :
              peer'[outbox'[j].to] = p /\ Sent(p)[k] = Piece(outbox'[j])
<1> DEFINE good == {m \in Range(outbox') : peer'[m.to] = p /\ m.what # "end"}
           mine == Filter(outbox', good)
<1>1. mine \in Seq(B!Message) /\ Range(mine) = Range(outbox') \cap good
  BY FilterProperties
<1>2. Sent(p) = [k \in DOMAIN mine |-> Piece(mine[k])]
  BY DEF Sent
<1> HIDE DEF mine
<1>3. \A k \in DOMAIN mine : mine[k] \in good
  BY <1>1 DEF Range
<1>4. ASSUME NEW m \in good
      PROVE  /\ Piece(m) \in Answer
             /\ \E j \in DOMAIN outbox' : peer'[outbox'[j].to] = p /\ Piece(m) = Piece(outbox'[j])
  <2>1. PICK j \in DOMAIN outbox' : m = outbox'[j]
    BY DEF Range
  <2>2. m \in B!Message
    BY <2>1
  <2>3. Piece(m) \in Answer
    BY <2>2 DEF B!Message, Piece, Answer
  <2>4. QED  BY <2>1, <2>3
<1>5. Sent(p) \in Seq(Answer)
  BY <1>1, <1>2, <1>3, <1>4
<1>6. QED  BY <1>2, <1>3, <1>4, <1>5

LEMMA DeliverEffect ==
  ASSUME Typed, outbox' \in Seq(B!Message), Deliver
  PROVE  /\ from_server' \in [Process -> Seq(Answer)]
         /\ gone' \in [Process -> {"open", "closed", "reset"}]
         /\ UNCHANGED <<id, user, pc, typed, eof>>
         /\ \A p \in Process :
              /\ gone'[p] = "open" <=> gone[p] = "open"
              /\ (\A j \in DOMAIN outbox' : peer'[outbox'[j].to] # p)
                   => from_server'[p] = from_server[p]
              /\ \A k \in DOMAIN from_server'[p] :
                   \/ k \in DOMAIN from_server[p] /\ from_server'[p][k] = from_server[p][k]
                   \/ \E j \in DOMAIN outbox' :
                        peer'[outbox'[j].to] = p /\ from_server'[p][k] = Piece(outbox'[j])
<1>1. \A p \in Process : Sent(p) \in Seq(Answer) /\ from_server[p] \in Seq(Answer)
  BY SentProperties DEF Typed
<1>2. /\ from_server' \in [Process -> Seq(Answer)]
      /\ \A p \in Process : from_server'[p] = IF gone[p] = "open" THEN from_server[p] \o Sent(p)
                                                                ELSE from_server[p]
  BY <1>1 DEF Deliver
<1>3. /\ gone' \in [Process -> {"open", "closed", "reset"}]
      /\ \A p \in Process : gone'[p] = "open" <=> gone[p] = "open"
  BY DEF Deliver, Typed
<1>4. ASSUME NEW p \in Process, \A j \in DOMAIN outbox' : peer'[outbox'[j].to] # p
      PROVE  from_server'[p] = from_server[p]
  <2>1. DOMAIN Sent(p) = {}
    BY <1>4, SentProperties
  <2>2. Sent(p) = <<>>
    BY <1>1, <2>1
  <2>3. from_server[p] \o <<>> = from_server[p]
    BY <1>1
  <2>4. QED  BY <1>2, <2>2, <2>3
<1>5. ASSUME NEW p \in Process, NEW k \in DOMAIN from_server'[p]
      PROVE  \/ k \in DOMAIN from_server[p] /\ from_server'[p][k] = from_server[p][k]
             \/ \E j \in DOMAIN outbox' :
                  peer'[outbox'[j].to] = p /\ from_server'[p][k] = Piece(outbox'[j])
  <2>1. CASE gone[p] # "open"
    BY <1>2, <2>1
  <2>2. CASE gone[p] = "open"
    <3>1. from_server'[p] = from_server[p] \o Sent(p)
      BY <1>2, <2>2
    <3>2. \/ k \in DOMAIN from_server[p] /\ from_server'[p][k] = from_server[p][k]
          \/ k - Len(from_server[p]) \in DOMAIN Sent(p)
             /\ from_server'[p][k] = Sent(p)[k - Len(from_server[p])]
      <4> DEFINE a == from_server[p]
                 b == Sent(p)
      <4>1. a \in Seq(Answer) /\ b \in Seq(Answer) /\ k \in DOMAIN (a \o b)
        BY <1>1, <3>1
      <4> HIDE DEF a, b
      <4>2. \/ k \in DOMAIN a /\ (a \o b)[k] = a[k]
            \/ k - Len(a) \in DOMAIN b /\ (a \o b)[k] = b[k - Len(a)]
        BY <4>1
      <4>3. QED  BY <3>1, <4>2 DEF a, b
    <3>3. QED  BY <3>2, SentProperties
  <2>3. QED  BY <2>1, <2>2
<1>6. UNCHANGED <<id, user, pc, typed, eof>>
  BY DEF Deliver
<1>7. QED  BY <1>2, <1>3, <1>4, <1>5, <1>6
-----------------------------------------------------------------------------
(* The handlers of the loop are handlers of Broker: what they are called   *)
(* with has the type it has there.                                         *)

LEMMA TextsOf ==
  ASSUME NEW i, NEW u, u.max \in Nat, NEW lines \in Seq(u.lines), Len(lines) <= u.max
  PROVE  <<<<"id", i>>>> \o lines \in Texts(i, u) /\ <<>> \in Texts(i, u)
<1>1. lines \in [1..Len(lines) -> u.lines] /\ Len(lines) \in 0..u.max
  OBVIOUS
<1>2. lines \in UNION {[1..n -> u.lines] : n \in 0..u.max}
  BY <1>1
<1>3. QED  BY <1>2 DEF Texts

\* What the recv after accept returns is an id of the server's.
LEMMA AcceptedText ==
  ASSUME Typed, Connections, Waiting, NEW p \in Range(backlog)
  PROVE  p \in Process /\ to_server[p] \in Texts(id[p], user[p]) /\ to_server[p] \in ID
<1>1. p \in Process /\ pc[p] # "start" /\ Pending(p)
  BY DEF Typed, Connections, Range, Pending
<1>2. user[p] \in [comes : BOOLEAN, lines : SUBSET Line, max : Nat] /\ pc[p] \in {"connected", "looping", "ended"}
  BY <1>1 DEF Typed
<1>3. user[p].max \in Nat /\ typed[p] \in Seq(user[p].lines) /\ Len(typed[p]) <= user[p].max
  BY <1>1, <1>2 DEF Waiting
<1>4. CASE pc[p] = "connected"
  <2>1. to_server[p] = <<>>
    BY <1>1, <1>4 DEF Waiting
  <2>2. QED  BY <1>1, <1>3, <2>1, TextsOf DEF Waiting
<1>5. CASE pc[p] = "looping"
  <2>1. to_server[p] = <<<<"id", id[p]>>>> \o typed[p]
    BY <1>1, <1>5 DEF Waiting
  <2>2. QED  BY <1>1, <1>3, <2>1, TextsOf DEF Waiting
<1>6. CASE pc[p] = "ended"
  BY <1>1, <1>6 DEF Waiting
<1>7. QED  BY <1>2, <1>4, <1>5, <1>6

LEMMA NamesKnown ==
  ASSUME NEW text \in Seq(Bytes), NEW w \in {"subscribe", "unsubscribe"}, text # <<>>,
         IsCommand(text, {w})
  PROVE  NameIn(text) \in Name
<1>1. text[1] \in Bytes /\ text[1][1] = w
  BY DEF IsCommand, Is
<1>2. text[1] \in Line
  BY <1>1 DEF Bytes
<1>3. QED  BY <1>1, <1>2, LineAssumption DEF NameIn

LEMMA HeadAndTail ==
  ASSUME NEW S, NEW s \in Seq(S), s # <<>>
  PROVE  /\ Head(s) = s[1] /\ Head(s) \in S /\ Head(s) \in Range(s) /\ 1 \in DOMAIN s
         /\ Tail(s) \in Seq(S)
         /\ \A i \in DOMAIN Tail(s) : i + 1 \in DOMAIN s /\ Tail(s)[i] = s[i + 1]
<1>1. 1 \in DOMAIN s /\ Head(s) = s[1] /\ Head(s) \in S /\ Tail(s) \in Seq(S)
  OBVIOUS
<1>2. \A i \in DOMAIN Tail(s) : i + 1 \in DOMAIN s /\ Tail(s)[i] = s[i + 1]
  OBVIOUS
<1>3. QED  BY <1>1, <1>2 DEF Range

LEMMA HandleTcpIsAccept ==
  ASSUME SInv, HandleTcp
  PROVE  /\ Head(backlog) \in Range(backlog) /\ backlog # <<>>
         /\ \E fd \in FD : Broker!Accept(to_server[Head(backlog)], fd)
         /\ to_server[Head(backlog)] \in ID
<1>1. backlog # <<>>
  BY ServedIsReady DEF HandleTcp, SInv, Snapshot
<1>2. Head(backlog) \in Range(backlog)
  BY <1>1, HeadAndTail DEF SInv, Typed
<1>3. QED  BY <1>1, <1>2, AcceptedText DEF HandleTcp, SInv

LEMMA HandleUdpIsPublish ==
  ASSUME SInv, HandleUdp
  PROVE  /\ Head(datagrams) \in Published /\ datagrams # <<>>
         /\ Broker!Publish(Head(datagrams)) \/ Broker!PublishFails(Head(datagrams))
<1>1. datagrams # <<>>
  BY ServedIsReady DEF HandleUdp, SInv, Snapshot
<1>2. Head(datagrams) \in Published
  BY <1>1 DEF SInv, Typed
<1>3. QED  BY <1>1, <1>2 DEF HandleUdp

\* recv on a connection: what the handlers of Broker have to do with its text.
LEMMA HandleClientCases ==
  ASSUME SInv, NEW fd \in FD, HandleClient(fd)
  PROVE  \/ Broker!Leave(fd)
         \/ Broker!ReadOrReplyFails
         \/ Broker!Dropped
         \/ Broker!BadCommand(fd)
         \/ /\ to_server[peer[fd]] # <<>>
            /\ NameIn(to_server[peer[fd]]) \in Name
            /\ \/ /\ IsCommand(to_server[peer[fd]], {"subscribe"})
                  /\ Broker!Subscribe(fd, NameIn(to_server[peer[fd]]))
               \/ Broker!Unsubscribe(fd, NameIn(to_server[peer[fd]]))
<1> DEFINE text == to_server[peer[fd]]
<1>1. fd \in ready /\ fd \in read_fds
  BY ServedIsReady DEF HandleClient, SInv, Snapshot, ReadNeverBlocks
<1>2. peer[fd] \in Process
  BY <1>1 DEF SInv, Typed, Connections
<1>3. text \in Seq(Bytes)
  BY <1>2 DEF SInv, Typed
<1>4. ~IsLeave(text) => text # <<>>
  BY DEF IsLeave
<1>5. \/ Broker!Leave(fd)
      \/ Broker!ReadOrReplyFails
      \/ ~IsLeave(text) /\ Executed(fd, text)
  BY DEF HandleClient
<1> HIDE DEF text
<1>6. QED  BY <1>3, <1>4, <1>5, NamesKnown DEF Executed, text

LEMMA ServerIsBrokerStep ==
  ASSUME SInv, Server
  PROVE  Broker!Next
<1>1. CASE Select
  BY <1>1 DEF Select, Broker!Next
<1>2. CASE HandleStdin
  BY <1>2 DEF HandleStdin, Broker!Next
<1>3. CASE HandleTcp
  BY <1>3, HandleTcpIsAccept DEF Broker!Next
<1>4. CASE HandleUdp
  BY <1>4, HandleUdpIsPublish DEF Broker!Next
<1>5. ASSUME NEW fd \in FD, HandleClient(fd)
      PROVE  Broker!Next
  BY <1>5, HandleClientCases DEF Broker!Next
<1>6. CASE HandleTcpFails
  BY <1>6 DEF HandleTcpFails, Broker!Next
<1>7. QED  BY <1>1, <1>2, <1>3, <1>4, <1>5, <1>6 DEF Server

LEMMA StepIsBrokerStep ==
  ASSUME SInv, [Next]_vars
  PROVE  [Broker!Next]_(Broker!vars)
<1>1. CASE Server
  BY <1>1, ServerIsBrokerStep
<1>2. CASE ~Server
  <2>1. UNCHANGED broker
    BY <1>2 DEF Next, vars, Connect, Proceeds, UserOf, TypeAtServer, SendDatagram
  <2>2. QED  BY <2>1 DEF broker, Broker!vars, Broker!registry
<1>3. QED  BY <1>1, <1>2
-----------------------------------------------------------------------------
(* Steps of the server.                                                    *)

\* What a step of the server does to the subscribers.
Delivered ==
  /\ UNCHANGED <<id, user, pc, typed, eof>>
  /\ from_server' \in [Process -> Seq(Answer)]
  /\ gone' \in [Process -> {"open", "closed", "reset"}]
  /\ \A p \in Process :
       /\ gone'[p] = "open" <=> gone[p] = "open"
       /\ (\A j \in DOMAIN outbox' : peer'[outbox'[j].to] # p)
            => from_server'[p] = from_server[p]
       /\ \A k \in DOMAIN from_server'[p] :
            \/ k \in DOMAIN from_server[p] /\ from_server'[p][k] = from_server[p][k]
            \/ \E j \in DOMAIN outbox' :
                 peer'[outbox'[j].to] = p /\ from_server'[p][k] = Piece(outbox'[j])

LEMMA ServerDelivers ==
  ASSUME SInv, B!ServerInv, Server
  PROVE  Delivered /\ outbox' \in Seq(B!Message) /\ B!ServerInv' /\ Running
<1>1. B!ServerInv'
  BY StepIsBrokerStep, ServerStays DEF Next
<1>2. outbox' \in Seq(B!Message)
  BY <1>1 DEF B!ServerInv
<1>3. ASSUME Select PROVE Delivered
  <2>1. Typed /\ UNCHANGED <<id, user, pc, typed, eof, from_server, gone>>
    BY <1>3 DEF Select, subscribers, SInv
  <2>2. QED  BY <2>1 DEF Delivered, Typed
<1>4. ASSUME Deliver PROVE Delivered
  <2>1. Typed
    BY DEF SInv
  <2>2. QED  BY <1>2, <1>4, <2>1, DeliverEffect DEF Delivered
<1>5. Select \/ Deliver
  BY DEF Server, HandleStdin, HandleTcp, HandleTcpFails, HandleUdp, HandleClient
<1>6. Running
  BY DEF Server, Select, HandleStdin, HandleTcp, HandleTcpFails, HandleUdp, HandleClient, Serves
<1>7. Delivered
  BY <1>3, <1>4, <1>5
<1>8. QED  BY <1>1, <1>2, <1>6, <1>7

\* A handler that accepts nothing.
Quiet ==
  Select \/ HandleStdin \/ HandleTcpFails \/ HandleUdp \/ \E fd \in FD : HandleClient(fd)

\* A descriptor that has just been accepted was in nobody's use.
LEMMA AcceptedIsNew ==
  ASSUME SInv, B!ServerInv, NEW text, NEW fd \in FD, Broker!Accept(text, fd)
  PROVE  /\ fd \notin read_fds /\ map_connected_clients[fd] = NULL /\ asked[fd] = {}
         /\ read_fds' = read_fds \cup {fd} /\ Running /\ Running' /\ asked' = asked
<1>1. /\ fd \in FD \ open_fds /\ read_fds' = read_fds \cup {fd} /\ Running /\ Running'
      /\ asked' = asked
  BY DEF Broker!Accept, Broker!Registry!AcceptClient, Broker!Registry!LowestFree, Running
<1>2. /\ \A f \in FD : map_connected_clients[f] # NULL => f \in read_fds
      /\ read_fds \subseteq open_fds
  BY <1>1 DEF B!ServerInv, B!IInv, B!R!IInv, B!R!WatchIsSound, B!R!Running, Running
<1>3. map_connected_clients[fd] = NULL => asked[fd] = {}
  BY DEF B!ServerInv, B!AskedInv, B!ClientOf
<1>4. QED  BY <1>1, <1>2, <1>3

\* A failing accept ends the server.
LEMMA TcpFailsStep ==
  ASSUME SInv, HandleTcpFails
  PROVE  /\ Running /\ ~Running' /\ peer' = peer /\ read_fds' = read_fds /\ asked' = asked
         /\ to_server' = Silence /\ ready' = {} /\ backlog' = <<>> /\ datagrams' = <<>>
         /\ UNCHANGED <<stdin, stdio>>
<1>1. Running /\ Broker!AcceptFails
  BY DEF HandleTcpFails, Serves
<1>2. ~Running' /\ read_fds' = read_fds /\ asked' = asked
  BY <1>1 DEF Broker!AcceptFails, Broker!Registry!AcceptFails, Broker!Registry!DIE, Running
<1>3. QED  BY <1>1, <1>2 DEF HandleTcpFails, Leaves, Kept, Running, console

\* The end of a handler that has ended the server, or has not.
LEMMA QuietStep ==
  ASSUME SInv, Quiet
  PROVE  /\ Running /\ peer' = peer /\ read_fds' \subseteq read_fds
         /\ to_server' \in [Process -> Seq(Bytes)]
         /\ \A p \in Process : to_server'[p] \in {to_server[p], <<>>}
         /\ \/ ~Running' /\ ready' = {} /\ backlog' = <<>>
            \/ /\ Running' /\ backlog' = backlog
               /\ \A p \in Range(backlog) : to_server'[p] = to_server[p]
<1>1. CASE Select
  BY <1>1 DEF Select, Broker!Dropped, Broker!registry, Running, subscribers, SInv, Typed, Range
<1>2. CASE HandleStdin
  <2>1. read_fds' \subseteq read_fds /\ Running
    BY <1>2 DEF HandleStdin, Serves, Broker!Dropped, Broker!registry, Broker!Stop, Broker!StopFails,
       Broker!SendFails, Broker!Registry!close_clients, Broker!Registry!SocketError,
       Broker!Registry!DIE
  <2>2. /\ to_server' = Kept(to_server, Silence) /\ ready' = Kept({}, {})
        /\ backlog' = Kept(backlog, <<>>) /\ peer' = peer
    BY <1>2 DEF HandleStdin, Leaves
  <2>3. to_server \in [Process -> Seq(Bytes)] /\ \A p \in Range(backlog) : p \in Process
    BY DEF SInv, Typed, Range
  <2>4. QED  BY <2>1, <2>2, <2>3 DEF Kept, Silence, Running
<1>3. CASE HandleUdp
  <2>1. read_fds' \subseteq read_fds /\ Running
    BY <1>3 DEF HandleUdp, Serves, Broker!Publish, Broker!registry, Broker!PublishFails,
       Broker!SendFails, Broker!Registry!SocketError, Broker!Registry!DIE
  <2>2. QED  BY <1>3, <2>1 DEF HandleUdp, Leaves, Kept, Silence, Running, SInv, Typed, Range
<1>4. ASSUME NEW fd \in FD, HandleClient(fd)
      PROVE  /\ Running /\ peer' = peer /\ read_fds' \subseteq read_fds
             /\ to_server' \in [Process -> Seq(Bytes)]
             /\ \A p \in Process : to_server'[p] \in {to_server[p], <<>>}
             /\ \/ ~Running' /\ ready' = {} /\ backlog' = <<>>
                \/ /\ Running' /\ backlog' = backlog
                   /\ \A p \in Range(backlog) : to_server'[p] = to_server[p]
  <2>1. read_fds' \subseteq read_fds /\ Running
    <3>1. Running
      BY <1>4 DEF HandleClient, Serves
    <3>2. QED
      BY <1>4, <3>1, HandleClientCases
         DEF Broker!Leave, Broker!Registry!ClientLeaves, Broker!ReadOrReplyFails, Broker!Dropped,
             Broker!registry, Broker!BadCommand, Broker!Subscribe, Broker!Unsubscribe,
             Broker!Registry!SocketError, Broker!Registry!DIE
  <2>2. peer[fd] \in Process /\ peer[fd] \notin Range(backlog)
    <3>1. fd \in read_fds
      BY <1>4, ServedIsReady DEF HandleClient, SInv, Snapshot, ReadNeverBlocks
    <3>2. QED  BY <3>1 DEF SInv, Typed, Connections
  <2>3. \A p \in Range(backlog) : p \in Process
    BY DEF SInv, Typed, Range
  <2>4. /\ to_server' = Kept(Drained(peer[fd]), Silence) /\ ready' = Kept(ready \ {fd}, {})
        /\ backlog' = Kept(backlog, <<>>) /\ peer' = peer
    BY <1>4 DEF HandleClient, Leaves
  <2>5. to_server \in [Process -> Seq(Bytes)]
    BY DEF SInv, Typed
  <2>6. QED  BY <2>1, <2>2, <2>3, <2>4, <2>5 DEF Kept, Silence, Drained, Running
<1>5. CASE HandleTcpFails
  <2>1. Silence \in [Process -> Seq(Bytes)] /\ \A p \in Process : Silence[p] = <<>>
    BY DEF Silence
  <2>2. QED  BY <1>5, <2>1, TcpFailsStep
<1>6. QED  BY <1>1, <1>2, <1>3, <1>4, <1>5 DEF Quiet

LEMMA WatchedInFD ==
  ASSUME B!ServerInv
  PROVE  read_fds \subseteq FD
BY DEF B!ServerInv, B!IInv, B!R!IInv, B!R!TypeOK

\* What accepting the head of the backlog does.
LEMMA TcpStep ==
  ASSUME SInv, B!ServerInv, HandleTcp
  PROVE  LET p == Head(backlog)
         IN  /\ p \in Process /\ p \in Range(backlog) /\ backlog # <<>>
             /\ backlog' = Tail(backlog) /\ Running /\ Running'
             /\ ready' = ready \ {socket_TCP}
             /\ to_server' = [to_server EXCEPT ![p] = <<>>]
             /\ to_server[p] # <<>> \/ gone[p] # "open"
             /\ UNCHANGED <<stdin, stdio, datagrams, asked>>
             /\ \E fd \in FD : /\ peer' = [peer EXCEPT ![fd] = p]
                              /\ read_fds' = read_fds \cup {fd} /\ fd \notin read_fds
                              /\ map_connected_clients[fd] = NULL /\ asked[fd] = {}
<1> DEFINE p == Head(backlog)
<1>1. p \in Range(backlog) /\ backlog # <<>>
  BY HandleTcpIsAccept
<1>2. p \in Process
  BY <1>1 DEF SInv, Typed, Range
<1>3. PICK fd \in FD : peer' = [peer EXCEPT ![fd] = p] /\ Broker!Accept(to_server[p], fd)
  BY DEF HandleTcp
<1>4. /\ fd \notin read_fds /\ map_connected_clients[fd] = NULL /\ asked[fd] = {}
      /\ read_fds' = read_fds \cup {fd} /\ Running /\ Running' /\ asked' = asked
  BY <1>3, AcceptedIsNew
<1>5. /\ backlog' = Tail(backlog) /\ ready' = ready \ {socket_TCP}
      /\ to_server' = [to_server EXCEPT ![p] = <<>>]
      /\ UNCHANGED <<stdin, stdio, datagrams>>
  BY <1>4 DEF HandleTcp, Leaves, Kept, Drained, Running, console, network
<1>6. to_server[p] # <<>> \/ gone[p] # "open"
  BY DEF HandleTcp
<1> HIDE DEF p
<1>7. QED  BY <1>1, <1>2, <1>3, <1>4, <1>5, <1>6 DEF p

LEMMA TypedServer ==
  ASSUME SInv, B!ServerInv, Server
  PROVE  Typed'
<1>1. Delivered
  BY ServerDelivers
<1>2. /\ id' \in [Process -> UserID]
      /\ user' \in [Process -> [comes : BOOLEAN, lines : SUBSET Line, max : Nat]]
      /\ pc' \in [Process -> {"start", "connected", "looping", "ended"}]
      /\ typed' \in [Process -> Seq(Line)]
      /\ eof' \in [Process -> BOOLEAN]
      /\ from_server' \in [Process -> Seq(Answer)]
      /\ gone' \in [Process -> {"open", "closed", "reset"}]
  BY <1>1 DEF Delivered, SInv, Typed
<1>3. Typed
  BY DEF SInv
<1> DEFINE Kinds == {STDIN_FILENO, socket_TCP, socket_UDP} \cup FD
<1>0. /\ stdin \in Seq(ServerLine) /\ stdio \in Seq(ServerLine)
      /\ datagrams \in Seq(Published) /\ <<>> \in Seq(Published)
      /\ ready \subseteq Kinds
  BY <1>3 DEF Typed
<1> HIDE DEF Kinds
<1>4. CASE Quiet
  <2>1. /\ peer' = peer /\ to_server' \in [Process -> Seq(Bytes)]
        /\ backlog' = backlog \/ backlog' = <<>>
    BY <1>4, QuietStep
  <2>2. /\ ready' \subseteq Kinds
        /\ stdin' \in Seq(ServerLine) /\ stdio' \in Seq(ServerLine)
        /\ datagrams' \in Seq(Published)
    <3>1. CASE Select
      <4>1. ready' \subseteq Kinds /\ UNCHANGED <<stdin, stdio, datagrams>>
        BY <3>1, WatchedInFD DEF Select, SelectReady, console, network, Kinds
      <4>2. QED  BY <1>0, <4>1
    <3>2. CASE HandleStdin
      <4>1. STDIN_FILENO \in ready
        BY <1>3, <3>2, ServedIsReady DEF HandleStdin
      <4>2. stdin # <<>>
        BY <4>1 DEF SInv, Snapshot
      <4>3. stdin' \in Seq(ServerLine) /\ stdio' \in Seq(ServerLine)
        <5>1. Tail(stdin) \in Seq(ServerLine) /\ (stdio # <<>> => Tail(stdio) \in Seq(ServerLine))
          BY <1>0, <4>2, HeadAndTail
        <5>2. QED  BY <1>0, <3>2, <5>1 DEF HandleStdin, fgets
      <4>4. ready' = {} /\ (datagrams' = datagrams \/ datagrams' = <<>>)
        BY <3>2 DEF HandleStdin, Leaves, Kept
      <4>5. QED  BY <1>0, <4>3, <4>4
    <3>3. CASE HandleUdp
      <4>1. datagrams # <<>>
        BY <3>3, HandleUdpIsPublish
      <4>2. Tail(datagrams) \in Seq(Published)
        BY <1>0, <4>1, HeadAndTail
      <4>3. /\ datagrams' = Tail(datagrams) \/ datagrams' = <<>>
            /\ ready' \subseteq ready /\ UNCHANGED <<stdin, stdio>>
        BY <3>3 DEF HandleUdp, Leaves, Kept, console
      <4>4. QED  BY <1>0, <4>2, <4>3
    <3>4. CASE \E fd \in FD : HandleClient(fd)
      <4>1. /\ datagrams' = datagrams \/ datagrams' = <<>>
            /\ ready' \subseteq ready /\ UNCHANGED <<stdin, stdio>>
        BY <3>4 DEF HandleClient, Leaves, Kept, console
      <4>2. QED  BY <1>0, <4>1
    <3>5. CASE HandleTcpFails
      BY <1>0, <3>5, TcpFailsStep
    <3>6. QED  BY <1>4, <3>1, <3>2, <3>3, <3>4, <3>5 DEF Quiet
  <2>3. backlog' \in Seq(Process) /\ peer' \in [FD -> Process \cup {NULL}]
    <3>1. backlog \in Seq(Process) /\ <<>> \in Seq(Process) /\ peer \in [FD -> Process \cup {NULL}]
      BY <1>3 DEF Typed
    <3>2. QED  BY <2>1, <3>1
  <2>4. QED  BY <1>2, <2>1, <2>2, <2>3 DEF Typed, Kinds
<1>5. CASE HandleTcp
  <2>1. /\ backlog' = Tail(backlog) /\ backlog # <<>> /\ Head(backlog) \in Process
        /\ ready' \subseteq ready /\ UNCHANGED <<stdin, stdio, datagrams>>
        /\ to_server' = [to_server EXCEPT ![Head(backlog)] = <<>>]
        /\ \E fd \in FD : peer' = [peer EXCEPT ![fd] = Head(backlog)]
    BY <1>5, TcpStep
  <2>2. backlog' \in Seq(Process) /\ to_server' \in [Process -> Seq(Bytes)]
        /\ peer' \in [FD -> Process \cup {NULL}]
    BY <1>3, <2>1, HeadAndTail DEF Typed
  <2>3. QED  BY <1>0, <1>2, <2>1, <2>2 DEF Typed, Kinds
<1>6. QED  BY <1>4, <1>5 DEF Server, Quiet

LEMMA ConnectionsServer ==
  ASSUME SInv, B!ServerInv, Server
  PROVE  Connections'
<1>1. pc' = pc
  BY ServerDelivers DEF Delivered
<1>2. Typed /\ Connections
  BY DEF SInv
<1>3. CASE Quiet
  <2>1. /\ peer' = peer /\ read_fds' \subseteq read_fds
        /\ backlog' = backlog \/ backlog' = <<>>
    BY <1>3, QuietStep
  <2>2. CASE backlog' = backlog
    BY <1>1, <1>2, <2>1, <2>2 DEF Connections
  <2>3. CASE backlog' = <<>>
    <3>1. DOMAIN backlog' = {} /\ Range(backlog') = {}
      BY <2>3 DEF Range
    <3>2. QED  BY <1>1, <1>2, <2>1, <3>1 DEF Connections
  <2>4. QED  BY <2>1, <2>2, <2>3
<1>4. CASE HandleTcp
  <2> DEFINE p == Head(backlog)
  <2>1. /\ p \in Process /\ p \in Range(backlog) /\ backlog # <<>> /\ backlog' = Tail(backlog)
    BY <1>4, TcpStep
  <2>2. PICK fd \in FD : peer' = [peer EXCEPT ![fd] = p] /\ read_fds' = read_fds \cup {fd}
    BY <1>4, TcpStep
  <2>3. /\ p = backlog[1] /\ 1 \in DOMAIN backlog
        /\ \A i \in DOMAIN backlog' : i + 1 \in DOMAIN backlog /\ backlog'[i] = backlog[i + 1]
        /\ \A i \in DOMAIN backlog' : i \in Nat /\ i + 1 # 1
    <3>1. backlog' \in Seq(Process)
      BY <1>2, <2>1, HeadAndTail DEF Typed
    <3>2. \A i \in DOMAIN backlog' : i \in Nat /\ i + 1 # 1
      BY <3>1
    <3>3. QED  BY <1>2, <2>1, <3>2, HeadAndTail DEF Typed
  <2> HIDE DEF p
  <2>4. \A i, j \in DOMAIN backlog' : backlog'[i] = backlog'[j] => i = j
    BY <1>2, <2>3 DEF Connections
  <2>5. p \notin Range(backlog') /\ Range(backlog') \subseteq Range(backlog)
    BY <1>2, <2>3 DEF Connections, Range
  <2>6. NULL \notin Range(backlog)
    BY <1>2, ProcessAssumption DEF Typed, Range
  <2>7. \A f \in FD : peer'[f] = IF f = fd THEN p ELSE peer[f]
    BY <1>2, <2>2 DEF Typed
  <2>8. \A f \in FD : peer[f] # p
    BY <1>2, <2>1 DEF Connections
  <2>9. \A f, g \in FD : peer'[f] = peer'[g] /\ peer'[f] # NULL => f = g
    BY <1>2, <2>7, <2>8 DEF Connections
  <2>10. \A q \in Process : pc'[q] = "start" =>
           q \notin Range(backlog') /\ \A f \in FD : peer'[f] # q
    BY <1>1, <1>2, <2>1, <2>5, <2>7 DEF Connections
  <2>11. \A f \in read_fds' : peer'[f] # NULL
    BY <1>2, <2>1, <2>2, <2>6, <2>7, WatchedInFD DEF Connections
  <2>12. \A f \in FD : peer'[f] \notin Range(backlog')
    BY <1>2, <2>5, <2>7 DEF Connections
  <2>13. QED  BY <2>4, <2>9, <2>10, <2>11, <2>12 DEF Connections
<1>5. QED  BY <1>3, <1>4 DEF Server, Quiet

LEMMA SnapshotServer ==
  ASSUME SInv, B!ServerInv, Server
  PROVE  Snapshot'
<1>1. \A p \in Process : gone'[p] = "open" <=> gone[p] = "open"
  BY ServerDelivers DEF Delivered
<1>2. Typed /\ Connections /\ Snapshot /\ Running
  BY ServerDelivers DEF SInv
<1>3. CASE HandleTcp
  <2> DEFINE p == Head(backlog)
  <2>1. /\ p \in Process /\ p \in Range(backlog) /\ Running' /\ ready' = ready \ {socket_TCP}
        /\ to_server' = [to_server EXCEPT ![p] = <<>>] /\ UNCHANGED <<stdin, datagrams>>
    BY <1>3, TcpStep
  <2>2. PICK fd \in FD : /\ peer' = [peer EXCEPT ![fd] = p] /\ read_fds' = read_fds \cup {fd}
                         /\ fd \notin read_fds
    BY <1>3, TcpStep
  <2> HIDE DEF p
  <2>3. ASSUME NEW f \in ready' \cap FD
        PROVE  f \in read_fds' /\ Readable(f)'
    <3>1. f \in read_fds /\ Readable(f)
      BY <1>2, <2>1, <2>3 DEF Snapshot, ReadNeverBlocks
    <3>2. f # fd /\ f \in read_fds' /\ peer'[f] = peer[f]
      BY <1>2, <2>2, <2>3, <3>1 DEF Typed
    <3>3. peer[f] \in Process /\ peer[f] # p
      BY <1>2, <2>1, <2>3, <3>1 DEF Typed, Connections
    <3>4. to_server'[peer[f]] = to_server[peer[f]]
      BY <1>2, <2>1, <3>3 DEF Typed
    <3>5. QED  BY <1>1, <3>1, <3>2, <3>3, <3>4 DEF Readable
  <2>4. QED  BY <1>2, <2>1, <2>3 DEF Snapshot, ReadNeverBlocks
<1>4. CASE Quiet
  <2>1. /\ peer' = peer
        /\ \/ ~Running' /\ ready' = {} /\ backlog' = <<>>
           \/ Running' /\ backlog' = backlog
    BY <1>4, QuietStep
  <2>2. CASE ready' = {}
    BY <2>1, <2>2 DEF Snapshot, ReadNeverBlocks
  <2>3. CASE Select
    <3>1. UNCHANGED <<to_server, backlog, stdin, datagrams, read_fds>> /\ ready' = SelectReady
      BY <2>3 DEF Select, subscribers, console, network, Broker!Dropped, Broker!registry
    <3>2. read_fds \subseteq FD /\ STDIN_FILENO \notin FD /\ socket_TCP \notin FD /\ socket_UDP \notin FD
      BY WatchedInFD, DescriptorAssumption
    <3>3. /\ STDIN_FILENO \in ready' => stdin # <<>>
          /\ socket_TCP \in ready' => backlog # <<>>
          /\ socket_UDP \in ready' => datagrams # <<>>
          /\ \A f \in ready' \cap FD : f \in read_fds /\ Readable(f)
      BY <3>1, <3>2 DEF SelectReady, STDIN_FILENO, socket_TCP, socket_UDP
    <3>4. \A f \in read_fds : Readable(f) => Readable(f)'
      BY <1>1, <1>2, <2>1, <3>1, <3>2 DEF Readable, Typed, Connections
    <3>5. Running'
      BY <2>3 DEF Select, Broker!Dropped, Broker!registry, Running
    <3>6. QED  BY <3>1, <3>3, <3>4, <3>5 DEF Snapshot, ReadNeverBlocks
  <2>4. CASE HandleStdin
    <3>1. ready' = {}
      BY <2>4 DEF HandleStdin, Leaves, Kept
    <3>2. QED  BY <2>2, <3>1
  <2>5. CASE HandleUdp /\ Running'
    <3>1. /\ ready' = ready \ {socket_UDP} /\ UNCHANGED <<stdin, to_server>>
          /\ read_fds' = read_fds
      BY <2>5 DEF HandleUdp, Leaves, Kept, console, Running, Broker!Publish, Broker!registry,
         Broker!PublishFails, Broker!SendFails, Broker!Registry!SocketError, Broker!Registry!DIE
    <3>2. \A f \in ready' \cap FD : f \in read_fds /\ Readable(f)
      BY <1>2, <3>1 DEF Snapshot, ReadNeverBlocks
    <3>3. \A f \in read_fds \cap FD : Readable(f) => Readable(f)'
      BY <1>1, <1>2, <2>1, <3>1 DEF Readable, Typed, Connections
    <3>4. QED  BY <1>2, <2>1, <2>5, <3>1, <3>2, <3>3 DEF Snapshot, ReadNeverBlocks
  <2>6. ASSUME NEW fd \in FD, HandleClient(fd), Running'
        PROVE  Snapshot'
    <3>1. /\ ready' = ready \ {fd} /\ UNCHANGED <<stdin, datagrams>>
          /\ to_server' = [to_server EXCEPT ![peer[fd]] = <<>>]
      BY <2>6 DEF HandleClient, Leaves, Kept, Drained, console, Running
    <3>2. read_fds \ {fd} \subseteq read_fds'
      BY <2>6, HandleClientCases
         DEF Broker!Leave, Broker!Registry!ClientLeaves, Broker!ReadOrReplyFails, Broker!Dropped,
             Broker!registry, Broker!BadCommand, Broker!Subscribe, Broker!Unsubscribe,
             Broker!Registry!SocketError, Broker!Registry!DIE
    <3>3. fd \in read_fds
      BY <1>2, <2>6, ServedIsReady DEF HandleClient, Snapshot, ReadNeverBlocks
    <3>4. ASSUME NEW f \in ready' \cap FD
          PROVE  f \in read_fds' /\ Readable(f)'
      <4>1. f # fd /\ f \in read_fds /\ Readable(f)
        BY <1>2, <3>1 DEF Snapshot, ReadNeverBlocks
      <4>2. peer[f] \in Process /\ peer[f] # peer[fd]
        BY <1>2, <3>3, <4>1 DEF Typed, Connections
      <4>3. to_server'[peer[f]] = to_server[peer[f]]
        BY <1>2, <3>1, <4>2 DEF Typed
      <4>4. QED  BY <1>1, <2>1, <3>2, <4>1, <4>2, <4>3 DEF Readable
    <3>5. QED  BY <1>2, <2>1, <2>6, <3>1, <3>4 DEF Snapshot, ReadNeverBlocks
  <2>7. CASE HandleTcpFails
    <3>1. ready' = {}
      BY <2>7, TcpFailsStep
    <3>2. QED  BY <2>2, <3>1
  <2>8. QED  BY <1>4, <2>1, <2>2, <2>3, <2>4, <2>5, <2>6, <2>7 DEF Quiet
<1>5. QED  BY <1>3, <1>4 DEF Server, Quiet

LEMMA WaitingServer ==
  ASSUME SInv, B!ServerInv, Server
  PROVE  Waiting'
<1>1. UNCHANGED <<id, user, pc, typed, eof>>
  BY ServerDelivers DEF Delivered
<1>2. Typed /\ Connections /\ Waiting
  BY DEF SInv
<1>3. /\ \A p \in Process : to_server'[p] \in {to_server[p], <<>>}
      /\ Range(backlog') \subseteq Range(backlog)
      /\ \A p \in Range(backlog') : to_server'[p] = to_server[p]
      /\ \A p \in Process : Pending(p)' => \A f \in FD : peer'[f] # p
  <2>1. CASE Quiet
    <3>1. Range(<<>>) = {}
      BY DEF Range
    <3>2. /\ peer' = peer /\ \A p \in Process : to_server'[p] \in {to_server[p], <<>>}
          /\ \/ backlog' = <<>>
             \/ backlog' = backlog /\ \A p \in Range(backlog) : to_server'[p] = to_server[p]
      BY <2>1, QuietStep
    <3>3. QED  BY <1>1, <1>2, <3>1, <3>2 DEF Connections, Pending
  <2>2. CASE HandleTcp
    <3> DEFINE p == Head(backlog)
    <3>1. /\ p \in Process /\ p \in Range(backlog) /\ backlog # <<>> /\ backlog' = Tail(backlog)
          /\ to_server' = [to_server EXCEPT ![p] = <<>>]
          /\ \E fd \in FD : peer' = [peer EXCEPT ![fd] = p]
      BY <2>2, TcpStep
    <3>2. p \notin Range(backlog') /\ Range(backlog') \subseteq Range(backlog)
      <4>1. /\ p = backlog[1] /\ 1 \in DOMAIN backlog
            /\ \A i \in DOMAIN backlog' : i + 1 \in DOMAIN backlog /\ backlog'[i] = backlog[i + 1]
        BY <1>2, <3>1, HeadAndTail DEF Typed
      <4>2. \A i \in DOMAIN backlog' : i \in Nat /\ i + 1 # 1
        <5>1. backlog' \in Seq(Process)
          BY <1>2, <3>1, HeadAndTail DEF Typed
        <5>2. QED  BY <5>1
      <4> HIDE DEF p
      <4>3. QED  BY <1>2, <4>1, <4>2 DEF Connections, Range
    <3> HIDE DEF p
    <3>3. Connections'
      BY ConnectionsServer
    <3>4. Range(backlog) \subseteq Process
      BY <1>2 DEF Typed, Range
    <3>5. QED  BY <1>1, <1>2, <3>1, <3>2, <3>3, <3>4 DEF Connections, Typed, Pending
  <2>3. QED  BY <2>1, <2>2 DEF Server, Quiet
<1>4. ASSUME NEW p \in Process, Pending(p)'
      PROVE  from_server'[p] = from_server[p] /\ Pending(p) /\ to_server'[p] = to_server[p]
  <2>1. \A j \in DOMAIN outbox' : outbox'[j].to \in FD
    <3>1. outbox' \in Seq(B!Message)
      BY ServerDelivers
    <3>2. \A m \in B!Message : m.to \in FD
      BY DEF B!Message
    <3>3. QED  BY <3>1, <3>2
  <2>2. from_server'[p] = from_server[p]
    BY <1>3, <1>4, <2>1, ServerDelivers DEF Delivered
  <2>3. Pending(p)
    BY <1>1, <1>3, <1>4 DEF Pending
  <2>4. pc[p] = "start" => to_server[p] = <<>>
    BY <1>2 DEF Waiting
  <2>5. QED  BY <1>1, <1>3, <1>4, <2>2, <2>3, <2>4 DEF Pending
<1>5. ASSUME NEW p \in Process
      PROVE  /\ pc'[p] \in {"start", "connected"} =>
                  to_server'[p] = <<>> /\ typed'[p] = <<>> /\ ~eof'[p] /\ gone'[p] = "open"
             /\ Range(to_server'[p]) \subseteq user'[p].lines \cup {<<"id", id'[p]>>, <<"echo">>}
  <2>1. gone'[p] = "open" <=> gone[p] = "open"
    BY ServerDelivers DEF Delivered
  <2>2. Range(<<>>) = {}
    BY DEF Range
  <2>3. Range(to_server'[p]) \subseteq Range(to_server[p])
    BY <1>3, <2>2
  <2>4. QED  BY <1>1, <1>2, <1>3, <2>1, <2>3 DEF Waiting
<1>6. QED  BY <1>1, <1>2, <1>4, <1>5 DEF Waiting

\* What a handler adds to the history of a session, its process has typed.
LEMMA AskedByTyping ==
  ASSUME SInv, B!ServerInv, Server, NEW fd \in FD, peer'[fd] # NULL, pc[peer'[fd]] # "ended",
         NEW name \in asked'[fd]
  PROVE  AskedFor(peer'[fd], name)
<1>1. Typed /\ Connections /\ Snapshot /\ Waiting /\ Requests
  BY DEF SInv
<1>2. asked \in [FD -> SUBSET Name]
  BY DEF B!ServerInv, B!AskedInv
<1>3. CASE HandleTcp
  <2>1. PICK f \in FD : peer' = [peer EXCEPT ![f] = Head(backlog)] /\ asked[f] = {} /\ asked' = asked
    BY <1>3, TcpStep
  <2>2. fd # f /\ peer'[fd] = peer[fd]
    BY <1>1, <2>1 DEF Typed
  <2>3. QED  BY <1>1, <2>1, <2>2 DEF Requests
<1>4. CASE Quiet
  <2>1. peer' = peer
    BY <1>4, QuietStep
  <2>2. CASE name \in asked[fd]
    BY <1>1, <2>1, <2>2 DEF Requests
  <2>3. CASE name \notin asked[fd]
    <3> DEFINE text == to_server[peer[fd]]
    <3>1. /\ HandleClient(fd) /\ text # <<>> /\ name = NameIn(text)
          /\ IsCommand(text, {"subscribe"})
      <4>1. CASE Select \/ HandleStdin \/ HandleUdp
        BY <2>3, <4>1 DEF Select, HandleStdin, HandleUdp, Broker!Dropped, Broker!Stop, Broker!StopFails,
           Broker!SendFails, Broker!Publish, Broker!PublishFails
      <4>2. ASSUME NEW f \in FD, HandleClient(f)
            PROVE  /\ HandleClient(fd) /\ text # <<>> /\ name = NameIn(text)
                   /\ IsCommand(text, {"subscribe"})
        <5>1. \/ asked' = asked
              \/ asked' = [asked EXCEPT ![f] = {}]
              \/ /\ to_server[peer[f]] # <<>> /\ IsCommand(to_server[peer[f]], {"subscribe"})
                 /\ asked' = [asked EXCEPT ![f] = @ \cup {NameIn(to_server[peer[f]])}]
          BY <4>2, HandleClientCases
             DEF Broker!Leave, Broker!ReadOrReplyFails, Broker!Dropped, Broker!BadCommand,
                 Broker!Subscribe, Broker!Unsubscribe
        <5>2. QED  BY <1>2, <2>3, <4>2, <5>1
      <4>3. CASE HandleTcpFails
        BY <2>3, <4>3, TcpFailsStep
      <4>4. QED  BY <1>4, <4>1, <4>2, <4>3 DEF Quiet
    <3>2. peer[fd] \in Process /\ text \in Seq(Bytes)
      BY <1>1, <2>1 DEF Typed
    <3>3. \A k \in DOMAIN text : text[k] # <<"exit">>
                                 /\ (text[k][1] = "subscribe" => text[k] \in Range(typed[peer[fd]]))
      BY <1>1, <2>1, <3>2 DEF Requests
    <3> HIDE DEF text
    <3>4. Len(text) = 1 /\ text[1][1] = "subscribe" /\ 1 \in DOMAIN text
      <4>1. TwoWords(text) /\ text[1][1] = "subscribe"
        BY <3>1 DEF IsCommand, Is
      <4>2. Len(text) = 2 => 2 \in DOMAIN text
        BY <3>2
      <4>3. Len(text) = 1
        BY <3>3, <4>1, <4>2 DEF TwoWords
      <4>4. QED  BY <3>2, <4>1, <4>3
    <3>5. name = text[1][2]
      BY <3>1, <3>4 DEF NameIn
    <3>6. PICK i \in DOMAIN typed[peer[fd]] : typed[peer[fd]][i] = text[1]
      BY <3>3, <3>4 DEF Range
    <3>7. QED  BY <2>1, <3>4, <3>5, <3>6 DEF AskedFor
  <2>4. QED  BY <2>2, <2>3
<1>5. QED  BY <1>3, <1>4 DEF Server, Quiet

\* The packets a process is sent it has asked for.
LEMMA SentIsWanted ==
  ASSUME SInv, B!ServerInv, Server, NEW p \in Process, pc[p] # "ended",
         NEW j \in DOMAIN outbox', peer'[outbox'[j].to] = p, outbox'[j].what = "packet"
  PROVE  Wants(p, outbox'[j].name)
<1> DEFINE fd == outbox'[j].to
<1>1. /\ asked' = asked /\ fd \in FD /\ map_connected_clients[fd] # NULL
      /\ \E name \in asked[fd] : Matches(outbox'[j].name, name)
  <2>1. B!Next
    BY ServerIsBrokerStep, SameHandlers
  <2>2. QED  BY <2>1, B!PacketsSent, BrokerConstants DEF B!ClientOf
<1>2. peer'[fd] # NULL
  BY ProcessAssumption
<1>3. \A name \in asked[fd] : AskedFor(p, name)
  BY <1>1, <1>2, AskedByTyping
<1>4. QED  BY <1>1, <1>3 DEF AskedFor, Wants

LEMMA RequestsServer ==
  ASSUME SInv, B!ServerInv, Server
  PROVE  Requests'
<1>1. UNCHANGED <<typed, pc>> /\ Delivered /\ outbox' \in Seq(B!Message)
  BY ServerDelivers DEF Delivered
<1>2. Typed /\ Requests /\ Typed'
  BY TypedServer DEF SInv
<1>3. \A p \in Process : to_server'[p] \in {to_server[p], <<>>}
  <2>1. CASE Quiet
    BY <2>1, QuietStep
  <2>2. CASE HandleTcp
    BY <1>2, <2>2, TcpStep DEF Typed
  <2>3. QED  BY <2>1, <2>2 DEF Server, Quiet
<1>4. ASSUME NEW p \in Process, pc'[p] # "ended", NEW k \in DOMAIN to_server'[p]
      PROVE  /\ to_server'[p][k] # <<"exit">>
             /\ to_server'[p][k][1] = "subscribe" => to_server'[p][k] \in Range(typed'[p])
  <2>1. to_server'[p] = to_server[p]
    BY <1>3, <1>4
  <2>2. QED  BY <1>1, <1>2, <1>4, <2>1 DEF Requests
<1>5. ASSUME NEW fd \in FD, peer'[fd] # NULL, pc'[peer'[fd]] # "ended", NEW name \in asked'[fd]
      PROVE  AskedFor(peer[fd], name)'
  <2>1. AskedFor(peer'[fd], name)
    BY <1>1, <1>5, AskedByTyping
  <2>2. QED  BY <1>1, <2>1 DEF AskedFor
<1>6. ASSUME NEW p \in Process, pc'[p] # "ended", NEW k \in DOMAIN from_server'[p],
             from_server'[p][k][1] = "packet"
      PROVE  Wants(p, from_server[p][k][2])'
  <2>1. CASE k \in DOMAIN from_server[p] /\ from_server'[p][k] = from_server[p][k]
    BY <1>1, <1>2, <1>6, <2>1 DEF Requests, Wants
  <2>2. ASSUME NEW j \in DOMAIN outbox',
               peer'[outbox'[j].to] = p, from_server'[p][k] = Piece(outbox'[j])
        PROVE  Wants(p, from_server[p][k][2])'
    <3>1. outbox'[j].what = "packet" /\ from_server'[p][k][2] = outbox'[j].name
      <4>1. outbox'[j] \in B!Message
        BY <1>1
      <4>2. QED  BY <1>6, <2>2, <4>1 DEF Piece, B!Message
    <3>2. Wants(p, outbox'[j].name)
      BY <1>1, <1>6, <2>2, <3>1, SentIsWanted
    <3>3. QED  BY <1>1, <3>1, <3>2 DEF Wants
  <2>3. QED  BY <1>1, <1>6, <2>1, <2>2 DEF Delivered
<1>7. QED  BY <1>4, <1>5, <1>6 DEF Requests

-----------------------------------------------------------------------------
(* Steps of the subscribers.                                               *)

\* What is sent arrives while the server runs.
Goes(p, piece) ==
  to_server'[p] = IF Running THEN Append(to_server[p], piece) ELSE to_server[p]

Ends(p) == pc'[p] = "ended" /\ typed'[p] = <<>> /\ ~eof'[p] /\ gone'[p] # "open"

\* The ways stdin can be handled.
TypesLine(p) ==
  \E line \in user[p].lines :
    /\ line # <<"exit">> /\ Goes(p, line) /\ typed'[p] = Append(typed[p], line)
    /\ pc'[p] = pc[p] /\ eof'[p] = eof[p] /\ gone'[p] = gone[p]
    /\ ~eof[p] /\ Len(typed[p]) < user[p].max

TypesExit(p) ==
  /\ <<"exit">> \in user[p].lines /\ Goes(p, <<"exit">>) /\ Ends(p)
  /\ ~eof[p] /\ Len(typed[p]) < user[p].max

SendsBack(p) ==
  /\ Goes(p, <<"echo">>) /\ eof'[p]
  /\ pc'[p] = pc[p] /\ typed'[p] = typed[p] /\ gone'[p] = gone[p]

JustEnds(p) == Ends(p) /\ to_server'[p] = to_server[p]

\* And the ways a process can take a step.
Turn(p) ==
     \/ /\ pc[p] = "start" /\ pc'[p] = "connected"
        /\ typed'[p] = typed[p] /\ eof'[p] = eof[p] /\ gone'[p] = gone[p]
        /\ to_server'[p] = to_server[p]
     \/ /\ pc[p] = "connected" /\ pc'[p] = "looping"
        /\ typed'[p] = typed[p] /\ eof'[p] = eof[p] /\ gone'[p] = gone[p]
        /\ Goes(p, <<"id", id[p]>>)
     \/ /\ pc[p] = "looping" /\ pc'[p] = "looping"
        /\ typed'[p] = typed[p] /\ eof'[p] = eof[p] /\ gone'[p] = gone[p]
        /\ to_server'[p] = to_server[p]
     \/ pc[p] \in {"connected", "looping"} /\ JustEnds(p)
     \/ pc[p] = "looping" /\ (TypesLine(p) \/ TypesExit(p))
     \/ pc[p] = "looping" /\ from_server[p] # <<>> /\ SendsBack(p)

\* Such a step keeps the types and leaves the other processes alone.
Moved(p) ==
  /\ pc' \in [Process -> {"start", "connected", "looping", "ended"}]
  /\ typed' \in [Process -> Seq(Line)]
  /\ eof' \in [Process -> BOOLEAN]
  /\ gone' \in [Process -> {"open", "closed", "reset"}]
  /\ \A q \in Process \ {p} :
       pc'[q] = pc[q] /\ typed'[q] = typed[q] /\ eof'[q] = eof[q] /\ gone'[q] = gone[q]

Streamed(p) ==
  to_server' \in [Process -> Seq(Bytes)] /\ \A q \in Process \ {p} : to_server'[q] = to_server[q]

Received(p) ==
  /\ from_server' \in [Process -> Seq(Answer)] /\ from_server'[p] \in {from_server[p], <<>>}
  /\ \A q \in Process \ {p} : from_server'[q] = from_server[q]

Local ==
  /\ pc \in [Process -> {"start", "connected", "looping", "ended"}]
  /\ typed \in [Process -> Seq(Line)]
  /\ eof \in [Process -> BOOLEAN]
  /\ to_server \in [Process -> Seq(Bytes)]
  /\ from_server \in [Process -> Seq(Answer)]
  /\ gone \in [Process -> {"open", "closed", "reset"}]

LEMMA SendTyped ==
  ASSUME Local, NEW p \in Process, NEW piece \in Bytes, Subscriber!Send(p, piece)
  PROVE  Streamed(p) /\ Goes(p, piece)
<1>1. Append(to_server[p], piece) \in Seq(Bytes)
  BY DEF Local
<1>2. CASE Running
  <2>1. to_server' = [to_server EXCEPT ![p] = Append(to_server[p], piece)]
    BY <1>2 DEF Subscriber!Send, Running
  <2>2. QED  BY <1>1, <1>2, <2>1 DEF Local, Goes, Streamed
<1>3. CASE ~Running
  BY <1>3 DEF Subscriber!Send, Running, Local, Goes, Streamed
<1>4. QED  BY <1>2, <1>3

LEMMA CloseTyped ==
  ASSUME Local, NEW p \in Process, NEW unread, Subscriber!Close(p, unread)
  PROVE  Moved(p) /\ Ends(p)
<1>1. /\ pc' \in [Process -> {"start", "connected", "looping", "ended"}] /\ pc'[p] = "ended"
      /\ \A q \in Process \ {p} : pc'[q] = pc[q]
  BY DEF Local, Subscriber!Close
<1>2. /\ typed' \in [Process -> Seq(Line)] /\ typed'[p] = <<>>
      /\ \A q \in Process \ {p} : typed'[q] = typed[q]
  BY DEF Local, Subscriber!Close
<1>3. /\ eof' \in [Process -> BOOLEAN] /\ ~eof'[p]
      /\ \A q \in Process \ {p} : eof'[q] = eof[q]
  BY Zenon DEF Local, Subscriber!Close
<1>4. /\ gone' \in [Process -> {"open", "closed", "reset"}] /\ gone'[p] # "open"
      /\ \A q \in Process \ {p} : gone'[q] = gone[q]
  BY DEF Local, Subscriber!Close
<1>5. QED  BY <1>1, <1>2, <1>3, <1>4 DEF Ends, Moved

LEMMA StdinCases ==
  ASSUME Typed, NEW p \in Process, NEW buffer, NEW unread,
         Subscriber!HandleStdin(p, buffer, unread)
  PROVE  /\ Moved(p) /\ Streamed(p)
         /\ TypesLine(p) \/ TypesExit(p) \/ JustEnds(p) \/ (buffer # <<>> /\ SendsBack(p))
<1>1. Local /\ user[p].lines \subseteq Line /\ Line \subseteq Bytes /\ <<"echo">> \in Bytes
  BY DEF Typed, Local, Bytes
<1>2. \/ \E line \in user[p].lines :
           /\ ~eof[p] /\ Len(typed[p]) < user[p].max /\ Subscriber!Send(p, line)
           /\ \/ line = <<"exit">> /\ Subscriber!Close(p, unread)
              \/ /\ line # <<"exit">> /\ typed' = [typed EXCEPT ![p] = Append(typed[p], line)]
                 /\ UNCHANGED <<pc, eof, gone>>
      \/ Subscriber!Close(p, unread) /\ UNCHANGED to_server
      \/ /\ buffer # <<>> /\ Subscriber!Send(p, <<"echo">>) /\ eof' = [eof EXCEPT ![p] = TRUE]
         /\ UNCHANGED <<pc, typed, gone>>
  BY DEF Subscriber!HandleStdin
<1>3. ASSUME NEW line \in user[p].lines, Subscriber!Send(p, line)
      PROVE  Streamed(p) /\ Goes(p, line)
  BY <1>1, <1>3, SendTyped
<1>4. ASSUME Subscriber!Close(p, unread)
      PROVE  Moved(p) /\ Ends(p)
  BY <1>1, <1>4, CloseTyped
<1>5. ASSUME NEW line \in user[p].lines,
             ~eof[p], Len(typed[p]) < user[p].max, Subscriber!Send(p, line), line # <<"exit">>,
             typed' = [typed EXCEPT ![p] = Append(typed[p], line)], UNCHANGED <<pc, eof, gone>>
      PROVE  Moved(p) /\ TypesLine(p)
  <2>1. Append(typed[p], line) \in Seq(Line)
    BY <1>1 DEF Local
  <2>2. Goes(p, line)
    BY <1>3, <1>5
  <2>3. /\ typed' \in [Process -> Seq(Line)] /\ typed'[p] = Append(typed[p], line)
        /\ \A q \in Process \ {p} : typed'[q] = typed[q]
    BY <1>1, <1>5, <2>1 DEF Local
  <2>4. UNCHANGED <<pc, eof, gone>>
    BY <1>5
  <2>5. TypesLine(p)
    BY <1>5, <2>2, <2>3 DEF TypesLine
  <2>6. QED  BY <1>1, <2>3, <2>4, <2>5 DEF Local, Moved
<1>6. ASSUME UNCHANGED to_server
      PROVE  Streamed(p) /\ to_server'[p] = to_server[p]
  BY <1>1, <1>6 DEF Local, Streamed
<1>7. ASSUME buffer # <<>>, Subscriber!Send(p, <<"echo">>), eof' = [eof EXCEPT ![p] = TRUE],
             UNCHANGED <<pc, typed, gone>>
      PROVE  Moved(p) /\ Streamed(p) /\ SendsBack(p)
  <2>1. Streamed(p) /\ Goes(p, <<"echo">>)
    BY <1>1, <1>7, SendTyped
  <2>2. /\ eof' \in [Process -> BOOLEAN] /\ eof'[p]
        /\ \A q \in Process \ {p} : eof'[q] = eof[q]
    BY <1>1, <1>7, Zenon DEF Local
  <2>3. UNCHANGED <<pc, typed, gone>>
    BY <1>7
  <2>4. SendsBack(p)
    BY <2>1, <2>2, <2>3 DEF SendsBack
  <2>5. QED  BY <1>1, <2>1, <2>2, <2>3, <2>4 DEF Local, Moved
<1>8. CASE \E line \in user[p].lines :
             /\ ~eof[p] /\ Len(typed[p]) < user[p].max /\ Subscriber!Send(p, line)
             /\ line = <<"exit">> /\ Subscriber!Close(p, unread)
  BY <1>3, <1>4, <1>8 DEF TypesExit
<1>9. CASE Subscriber!Close(p, unread) /\ UNCHANGED to_server
  BY <1>4, <1>6, <1>9 DEF JustEnds
<1>10. QED  BY <1>2, <1>3, <1>5, <1>7, <1>8, <1>9

LEMMA TurnCases ==
  ASSUME Typed, NEW p \in Process,
         Subscriber!Connect(p) \/ Subscriber!Proceeds(p) \/ Subscriber!UserOf(p)
  PROVE  /\ UNCHANGED <<id, user>> /\ Moved(p) /\ Streamed(p) /\ Received(p) /\ Turn(p)
<1>1. Local
  BY DEF Typed, Local
<1>2. CASE Subscriber!Connect(p)
  BY <1>1, <1>2 DEF Subscriber!Connect, Local, Moved, Streamed, Received, Turn
<1>3. CASE Subscriber!SendId(p)
  <2>1. <<"id", id[p]>> \in Bytes
    BY DEF Typed, Bytes
  <2>2. Streamed(p) /\ Goes(p, <<"id", id[p]>>)
    BY <1>1, <1>3, <2>1, SendTyped DEF Subscriber!SendId
  <2>3. QED  BY <1>1, <1>3, <2>2 DEF Subscriber!SendId, Local, Moved, Received, Turn
<1>4. CASE Subscriber!Kill(p)
  <2>1. Moved(p) /\ Ends(p)
    BY <1>1, <1>4, CloseTyped DEF Subscriber!Kill
  <2>2. QED  BY <1>1, <1>4, <2>1 DEF Subscriber!Kill, Local, Streamed, Received, JustEnds, Turn
<1>5. ASSUME NEW too, Subscriber!ReadServer(p, too)
      PROVE  UNCHANGED <<id, user>> /\ Moved(p) /\ Streamed(p) /\ Received(p) /\ Turn(p)
  <2>1. Received(p) /\ pc[p] = "looping" /\ UNCHANGED <<id, user>>
    BY <1>1, <1>5 DEF Subscriber!ReadServer, Local, Received
  <2>2. CASE Subscriber!Close(p, <<>>) /\ UNCHANGED to_server
    BY <1>1, <2>1, <2>2, CloseTyped DEF Local, Streamed, JustEnds, Turn
  <2>3. CASE UNCHANGED <<pc, typed, eof, to_server, gone>>
    BY <1>1, <2>1, <2>3 DEF Local, Moved, Streamed, Turn
  <2>4. CASE Subscriber!HandleStdin(p, from_server[p], <<>>)
    BY <2>1, <2>4, StdinCases DEF Turn
  <2>5. QED  BY <1>5, <2>2, <2>3, <2>4 DEF Subscriber!ReadServer
<1>6. CASE Subscriber!ReadStdin(p)
  <2>1. Received(p) /\ pc[p] = "looping" /\ UNCHANGED <<id, user>>
    BY <1>1, <1>6 DEF Subscriber!ReadStdin, Local, Received
  <2>2. Subscriber!HandleStdin(p, <<>>, from_server[p])
    BY <1>6 DEF Subscriber!ReadStdin
  <2>3. QED  BY <2>1, <2>2, StdinCases DEF Turn
<1>7. QED  BY <1>2, <1>3, <1>4, <1>5, <1>6 DEF Subscriber!Proceeds, Subscriber!UserOf

\* A step of one process, and what it leaves alone besides the other processes.
Turns(p) ==
  /\ UNCHANGED <<broker, id, user, peer, ready, stdin, stdio, datagrams>>
  /\ Moved(p) /\ Streamed(p) /\ Received(p) /\ Turn(p)
  /\ \/ pc[p] = "start" /\ Running /\ backlog' = Append(backlog, p)
     \/ pc[p] # "start" /\ UNCHANGED backlog

LEMMA ProcessTurns ==
  ASSUME Typed, NEW p \in Process, Connect(p) \/ Proceeds(p) \/ UserOf(p)
  PROVE  Turns(p)
<1>1. /\ UNCHANGED <<id, user>> /\ Moved(p) /\ Streamed(p) /\ Received(p) /\ Turn(p)
  BY TurnCases DEF Connect, Proceeds, UserOf
<1>2. UNCHANGED <<broker, peer, ready, stdin, stdio, datagrams>>
  BY DEF Connect, Proceeds, UserOf, console, network
<1>3. CASE Connect(p)
  BY <1>1, <1>2, <1>3 DEF Connect, Subscriber!Connect, Turns, Running
<1>4. CASE Proceeds(p) \/ UserOf(p)
  BY <1>1, <1>2, <1>4
     DEF Proceeds, UserOf, Subscriber!Proceeds, Subscriber!UserOf, Subscriber!SendId,
         Subscriber!ReadServer, Subscriber!ReadStdin, Subscriber!Kill, Turns
<1>5. QED  BY <1>3, <1>4

LEMMA RangeGrows ==
  ASSUME NEW S, NEW s \in Seq(S), NEW e \in S
  PROVE  /\ Append(s, e) \in Seq(S) /\ Append(s, e) # <<>> /\ Len(Append(s, e)) = Len(s) + 1
         /\ Range(Append(s, e)) = Range(s) \cup {e}
         /\ \A k \in DOMAIN Append(s, e) :
              \/ k \in DOMAIN s /\ Append(s, e)[k] = s[k]
              \/ k \notin DOMAIN s /\ k = Len(s) + 1 /\ Append(s, e)[k] = e
         /\ \A k \in DOMAIN s : k \in DOMAIN Append(s, e) /\ Append(s, e)[k] = s[k]
<1>1. Append(s, e) \in Seq(S) /\ Append(s, e) # <<>>
  <2>1. Append(s, e) \in Seq(S) /\ Len(Append(s, e)) = Len(s) + 1 /\ Len(s) \in Nat
    OBVIOUS
  <2>2. Len(<<>>) # Len(s) + 1
    BY <2>1
  <2>3. QED  BY <2>1, <2>2
<1>2. /\ \A k \in DOMAIN Append(s, e) :
           \/ k \in DOMAIN s /\ Append(s, e)[k] = s[k]
           \/ k \notin DOMAIN s /\ k = Len(s) + 1 /\ Append(s, e)[k] = e
      /\ \A k \in DOMAIN s : k \in DOMAIN Append(s, e) /\ Append(s, e)[k] = s[k]
  <2> DEFINE t == Append(s, e)
             n == Len(s)
  <2>1. /\ n \in Nat /\ DOMAIN s = 1..n /\ DOMAIN t = 1..n + 1
        /\ t[n + 1] = e /\ \A k \in 1..n : t[k] = s[k]
    OBVIOUS
  <2> HIDE DEF t, n
  <2>2. QED  BY <2>1 DEF t, n
<1>3. QED  BY <1>1, <1>2, RangeOfAppend

LEMMA TypedProcess ==
  ASSUME SInv, NEW p \in Process, Turns(p)
  PROVE  Typed'
<1>1. backlog' \in Seq(Process)
  <2>1. backlog \in Seq(Process) /\ Append(backlog, p) \in Seq(Process)
    BY RangeGrows DEF SInv, Typed
  <2>2. QED  BY <2>1 DEF Turns
<1>2. /\ id' \in [Process -> UserID]
      /\ user' \in [Process -> [comes : BOOLEAN, lines : SUBSET Line, max : Nat]]
      /\ peer' \in [FD -> Process \cup {NULL}]
      /\ ready' \subseteq {STDIN_FILENO, socket_TCP, socket_UDP} \cup FD
      /\ stdin' \in Seq(ServerLine) /\ stdio' \in Seq(ServerLine)
      /\ datagrams' \in Seq(Published)
  BY DEF Turns, SInv, Typed
<1>3. QED  BY <1>1, <1>2 DEF Turns, Moved, Streamed, Received, Typed

LEMMA ConnectionsProcess ==
  ASSUME SInv, NEW p \in Process, Turns(p)
  PROVE  Connections'
<1>1. Typed /\ Connections /\ UNCHANGED <<peer, read_fds>>
  BY DEF SInv, Turns, broker
<1>2. \A q \in Process : pc'[q] = "start" => pc[q] = "start" /\ q # p
  BY DEF Turns, Moved, Turn, TypesLine, TypesExit, SendsBack, JustEnds, Ends
<1>3. CASE UNCHANGED backlog
  BY <1>1, <1>2, <1>3 DEF Connections
<1>4. CASE pc[p] = "start" /\ backlog' = Append(backlog, p)
  <2>1. p \notin Range(backlog) /\ \A fd \in FD : peer[fd] # p
    BY <1>1, <1>4 DEF Connections
  <2>2. /\ Range(backlog') = Range(backlog) \cup {p}
        /\ \A k \in DOMAIN backlog' :
             \/ k \in DOMAIN backlog /\ backlog'[k] = backlog[k]
             \/ k = Len(backlog) + 1 /\ backlog'[k] = p
    BY <1>1, <1>4, RangeGrows DEF Typed
  <2>3. \A k \in DOMAIN backlog : backlog[k] # p
    BY <2>1 DEF Range
  <2>4. \A i, j \in DOMAIN backlog' : backlog'[i] = backlog'[j] => i = j
    BY <1>1, <2>2, <2>3 DEF Connections
  <2>5. QED  BY <1>1, <1>2, <2>1, <2>2, <2>4 DEF Connections
<1>5. QED  BY <1>3, <1>4 DEF Turns

LEMMA SnapshotProcess ==
  ASSUME SInv, NEW p \in Process, Turns(p)
  PROVE  Snapshot'
<1>1. /\ Typed /\ Connections /\ Snapshot
      /\ UNCHANGED <<peer, read_fds, server, ready, stdin, datagrams>>
  BY DEF SInv, Turns, broker
<1>2. ASSUME NEW q \in Process
      PROVE  /\ to_server[q] # <<>> => to_server'[q] # <<>>
             /\ gone[q] # "open" => gone'[q] # "open"
  <2>1. CASE q # p
    BY <2>1 DEF Turns, Moved, Streamed
  <2>2. CASE q = p
    <3>1. \A piece : Append(to_server[p], piece) # <<>>
      <4>1. to_server[p] \in Seq(Bytes)
        BY <1>1 DEF Typed
      <4>2. QED  BY <4>1
    <3>2. QED  BY <2>2, <3>1
               DEF Turns, Turn, Goes, TypesLine, TypesExit, SendsBack, JustEnds, Ends
  <2>3. QED  BY <2>1, <2>2
<1>3. backlog # <<>> => backlog' # <<>>
  BY <1>1 DEF Turns, Typed
<1>4. ASSUME NEW fd \in ready \cap FD
      PROVE  fd \in read_fds /\ Readable(fd)'
  <2>1. fd \in read_fds /\ Readable(fd) /\ peer[fd] \in Process
    BY <1>1 DEF Snapshot, ReadNeverBlocks, Connections, Typed
  <2>2. QED  BY <1>1, <1>2, <2>1 DEF Readable
<1>5. ~Running' => ready' = {} /\ backlog' = <<>>
  BY <1>1 DEF Running, Snapshot, Turns
<1>6. QED  BY <1>1, <1>3, <1>4, <1>5 DEF Snapshot, ReadNeverBlocks

LEMMA WaitingProcess ==
  ASSUME SInv, NEW p \in Process, Turns(p)
  PROVE  Waiting'
<1>1. Typed /\ Connections /\ Snapshot /\ Waiting /\ UNCHANGED <<id, user, server>>
  BY DEF SInv, Turns, broker
<1> DEFINE Own(q) == user[q].lines \cup {<<"id", id[q]>>, <<"echo">>}
<1>2. \A q \in Process : Pending(q)' => Pending(q)
  <2>1. CASE UNCHANGED backlog
    BY <2>1 DEF Turns, Moved, Turn, TypesLine, TypesExit, SendsBack, JustEnds, Ends, Pending
  <2>2. CASE pc[p] = "start" /\ backlog' = Append(backlog, p)
    <3>1. Range(backlog') = Range(backlog) \cup {p}
      BY <1>1, <2>2, RangeGrows DEF Typed
    <3>2. QED  BY <2>2, <3>1 DEF Turns, Moved, Pending
  <2>3. QED  BY <2>1, <2>2 DEF Turns
<1>3. ASSUME NEW q \in Process, q # p
      PROVE  /\ UNCHANGED <<pc[q], typed[q], eof[q], to_server[q], from_server[q], gone[q]>>
  BY <1>3 DEF Turns, Moved, Streamed, Received
<1>4. /\ typed[p] \in Seq(user[p].lines) /\ Len(typed[p]) <= user[p].max /\ user[p].max \in Nat
      /\ to_server[p] \in Seq(Bytes) /\ Range(to_server[p]) \subseteq Own(p) /\ Len(typed[p]) \in Nat
  <2>1. /\ typed[p] \in Seq(user[p].lines) /\ Len(typed[p]) <= user[p].max
        /\ Range(to_server[p]) \subseteq Own(p)
    BY <1>1 DEF Waiting
  <2>2. user[p].max \in Nat /\ to_server[p] \in Seq(Bytes) /\ typed[p] \in Seq(Line)
    BY <1>1 DEF Typed
  <2>3. Len(typed[p]) \in Nat
    BY <2>2
  <2>4. QED  BY <2>1, <2>2, <2>3
<1>line. ASSUME NEW line \in user[p].lines, Len(typed[p]) < user[p].max
      PROVE  /\ Append(typed[p], line) \in Seq(user[p].lines)
             /\ Len(Append(typed[p], line)) <= user[p].max
  <2> DEFINE S == user[p].lines
             s == typed[p]
             n == Len(s)
             m == user[p].max
  <2>1. s \in Seq(S) /\ line \in S /\ n \in Nat /\ m \in Nat /\ n < m
    BY <1>4, <1>line
  <2> HIDE DEF S, s, m
  <2>2. Append(s, line) \in Seq(S) /\ Len(Append(s, line)) = n + 1
    BY <2>1, RangeGrows
  <2> HIDE DEF n
  <2>3. n + 1 <= m
    BY <2>1
  <2>4. Append(s, line) \in Seq(S) /\ Len(Append(s, line)) <= m
    BY <2>2, <2>3
  <2>5. QED  BY <2>4 DEF S, s, m
<1>5. /\ typed'[p] \in Seq(user[p].lines) /\ Len(typed'[p]) <= user[p].max
  <2>1. CASE typed'[p] = typed[p]
    BY <1>4, <2>1
  <2>2. CASE typed'[p] = <<>>
    BY <1>4, <2>2
  <2>3. CASE TypesLine(p)
    <3>1. PICK line \in user[p].lines :
            typed'[p] = Append(typed[p], line) /\ Len(typed[p]) < user[p].max
      BY <2>3 DEF TypesLine
    <3>2. QED  BY <1>line, <3>1
  <2>4. QED  BY <2>1, <2>2, <2>3 DEF Turns, Turn, TypesExit, SendsBack, JustEnds, Ends
<1>6. Range(to_server'[p]) \subseteq Own(p)
  <2>1. to_server'[p] = to_server[p] \/ \E piece \in Own(p) \cap Bytes : to_server'[p] = Append(to_server[p], piece)
    <3>1. user[p].lines \subseteq Bytes /\ <<"id", id[p]>> \in Bytes /\ <<"echo">> \in Bytes
      BY <1>1 DEF Typed, Bytes
    <3>2. \A piece : Goes(p, piece) => to_server'[p] = to_server[p] \/ to_server'[p] = Append(to_server[p], piece)
      BY DEF Goes
    <3>3. QED  BY <3>1, <3>2 DEF Turns, Turn, TypesLine, TypesExit, SendsBack, JustEnds
  <2>2. ASSUME NEW piece \in Own(p) \cap Bytes
        PROVE  Range(Append(to_server[p], piece)) \subseteq Own(p)
    BY <1>4, RangeGrows
  <2>3. QED  BY <1>4, <2>1, <2>2
<1>7. pc'[p] \in {"start", "connected"} =>
        to_server'[p] = <<>> /\ typed'[p] = <<>> /\ ~eof'[p] /\ gone'[p] = "open"
  <2>1. pc[p] \in {"start", "connected"} => to_server[p] = <<>> /\ typed[p] = <<>> /\ ~eof[p] /\ gone[p] = "open"
    BY <1>1 DEF Waiting
  <2>2. CASE /\ pc[p] = "start" /\ pc'[p] = "connected"
             /\ typed'[p] = typed[p] /\ eof'[p] = eof[p] /\ gone'[p] = gone[p]
             /\ to_server'[p] = to_server[p]
    BY <2>1, <2>2, Zenon
  <2>3. pc'[p] \in {"start", "connected"} =>
             /\ pc[p] = "start" /\ pc'[p] = "connected"
             /\ typed'[p] = typed[p] /\ eof'[p] = eof[p] /\ gone'[p] = gone[p]
             /\ to_server'[p] = to_server[p]
    BY DEF Turns, Turn, TypesLine, TypesExit, SendsBack, JustEnds, Ends
  <2>4. QED  BY <2>2, <2>3
<1>8. ASSUME Pending(p)'
      PROVE  /\ from_server'[p] = <<>>
             /\ pc'[p] = "looping" => ~eof'[p] /\ to_server'[p] = <<<<"id", id[p]>>>> \o typed'[p]
             /\ pc'[p] = "ended" => to_server'[p] \in Texts(id[p], user[p])
  <2>1. Pending(p) /\ from_server[p] = <<>> /\ from_server'[p] = <<>>
    BY <1>1, <1>2, <1>8 DEF Waiting, Turns, Received
  <2>2. pc[p] # "start" => Running
    BY <1>1, <2>1 DEF Pending, Snapshot, Range
  <2>3. /\ pc[p] = "looping" => ~eof[p] /\ to_server[p] = <<<<"id", id[p]>>>> \o typed[p]
        /\ pc[p] = "connected" => ~eof[p] /\ to_server[p] = <<>> /\ typed[p] = <<>>
    BY <1>1, <2>1 DEF Waiting
  <2>4. \A piece : Goes(p, piece) /\ Running => to_server'[p] = Append(to_server[p], piece)
    BY DEF Goes
  <2>5. \A e : Append(<<<<"id", id[p]>>>> \o typed[p], e) = <<<<"id", id[p]>>>> \o Append(typed[p], e)
    BY <1>4
  <2>6. CASE pc[p] = "start" /\ pc'[p] = "connected"
    BY <2>1, <2>6
  <2>7. CASE pc[p] = "connected" /\ pc'[p] = "looping" /\ typed'[p] = typed[p] /\ eof'[p] = eof[p]
             /\ Goes(p, <<"id", id[p]>>)
    <3>1. to_server'[p] = Append(<<>>, <<"id", id[p]>>)
      BY <2>2, <2>3, <2>4, <2>7
    <3>2. Append(<<>>, <<"id", id[p]>>) = <<<<"id", id[p]>>>> \o <<>>
      OBVIOUS
    <3>3. QED  BY <2>1, <2>3, <2>7, <3>1, <3>2
  <2>8. CASE pc[p] = "looping" /\ pc'[p] = "looping" /\ typed'[p] = typed[p] /\ eof'[p] = eof[p]
             /\ to_server'[p] = to_server[p]
    BY <2>1, <2>3, <2>8
  <2>9. CASE pc[p] \in {"connected", "looping"} /\ JustEnds(p)
    <3>1. pc'[p] = "ended" /\ to_server'[p] = to_server[p]
      BY <2>9 DEF JustEnds, Ends
    <3>2. to_server[p] \in Texts(id[p], user[p])
      BY <1>4, <2>3, <2>9, TextsOf
    <3>3. QED  BY <2>1, <3>1, <3>2
  <2>10. CASE pc[p] = "looping" /\ TypesLine(p)
    BY <2>1, <2>2, <2>3, <2>4, <2>5, <2>10 DEF TypesLine
  <2>11. CASE pc[p] = "looping" /\ TypesExit(p)
    <3>1. /\ pc'[p] = "ended" /\ <<"exit">> \in user[p].lines /\ Len(typed[p]) < user[p].max
          /\ to_server'[p] = <<<<"id", id[p]>>>> \o Append(typed[p], <<"exit">>)
      BY <2>2, <2>3, <2>4, <2>5, <2>11 DEF TypesExit, Ends
    <3>2. Append(typed[p], <<"exit">>) \in Seq(user[p].lines)
          /\ Len(Append(typed[p], <<"exit">>)) <= user[p].max
      BY <1>line, <3>1
    <3>3. QED  BY <1>4, <2>1, <3>1, <3>2, TextsOf
  <2>12. QED  BY <2>1, <2>6, <2>7, <2>8, <2>9, <2>10, <2>11 DEF Turns, Turn
<1>9. ASSUME NEW q \in Process, q # p, Pending(q)'
      PROVE  /\ from_server'[q] = <<>>
             /\ pc'[q] = "looping" => ~eof'[q] /\ to_server'[q] = <<<<"id", id[q]>>>> \o typed'[q]
             /\ pc'[q] = "ended" => to_server'[q] \in Texts(id[q], user[q])
  BY <1>1, <1>2, <1>3, <1>9 DEF Waiting
<1>10. ASSUME NEW q \in Process, q # p
       PROVE  /\ pc'[q] \in {"start", "connected"} =>
                    to_server'[q] = <<>> /\ typed'[q] = <<>> /\ ~eof'[q] /\ gone'[q] = "open"
              /\ Len(typed'[q]) <= user[q].max /\ typed'[q] \in Seq(user[q].lines)
              /\ Range(to_server'[q]) \subseteq Own(q)
  BY <1>1, <1>3, <1>10 DEF Waiting
<1>11. QED  BY <1>1, <1>5, <1>6, <1>7, <1>8, <1>9, <1>10 DEF Waiting

LEMMA RequestsProcess ==
  ASSUME SInv, NEW p \in Process, Turns(p)
  PROVE  Requests'
<1>1. Typed /\ Waiting /\ Requests /\ UNCHANGED <<peer, asked>>
  BY DEF SInv, Turns, broker
<1>2. ASSUME NEW q \in Process, q # p
      PROVE  UNCHANGED <<pc[q], typed[q], to_server[q], from_server[q]>>
  BY <1>2 DEF Turns, Moved, Streamed, Received
<1>3. ASSUME pc'[p] # "ended"
      PROVE  /\ pc[p] # "ended"
             /\ \A k \in DOMAIN typed[p] : k \in DOMAIN typed'[p] /\ typed'[p][k] = typed[p][k]
             /\ \/ to_server'[p] = to_server[p]
                \/ \E piece \in Bytes :
                     /\ to_server'[p] = Append(to_server[p], piece) /\ piece # <<"exit">>
                     /\ piece[1] = "subscribe" => piece \in Range(typed'[p])
  <2>1. typed[p] \in Seq(Line) /\ user[p].lines \subseteq Line
    BY <1>1 DEF Typed
  <2>2. \A piece : Goes(p, piece) => \/ to_server'[p] = to_server[p]
                                    \/ to_server'[p] = Append(to_server[p], piece)
    BY DEF Goes
  <2>3. CASE TypesLine(p)
    <3>1. PICK line \in user[p].lines : /\ line # <<"exit">> /\ Goes(p, line) /\ pc'[p] = pc[p]
                                        /\ typed'[p] = Append(typed[p], line)
      BY <2>3 DEF TypesLine
    <3>2. /\ line \in Range(typed'[p]) /\ line \in Bytes
          /\ \A k \in DOMAIN typed[p] : k \in DOMAIN typed'[p] /\ typed'[p][k] = typed[p][k]
      BY <2>1, <3>1, RangeGrows DEF Bytes
    <3>3. QED  BY <1>3, <2>2, <3>1, <3>2
  <2>4. CASE \/ Goes(p, <<"id", id[p]>>) /\ typed'[p] = typed[p] /\ pc[p] # "ended"
             \/ Goes(p, <<"echo">>) /\ typed'[p] = typed[p] /\ pc[p] # "ended"
    <3>1. <<"id", id[p]>> \in Bytes /\ <<"echo">> \in Bytes
      BY <1>1 DEF Typed, Bytes
    <3>2. /\ <<"id", id[p]>> # <<"exit">> /\ <<"id", id[p]>>[1] # "subscribe"
          /\ <<"echo">> # <<"exit">> /\ <<"echo">>[1] # "subscribe"
      OBVIOUS
    <3>3. QED  BY <2>2, <2>4, <3>1, <3>2
  <2>5. CASE to_server'[p] = to_server[p] /\ typed'[p] = typed[p] /\ pc[p] # "ended"
    BY <2>5
  <2>6. QED  BY <1>3, <2>3, <2>4, <2>5 DEF Turns, Turn, TypesExit, SendsBack, JustEnds, Ends
<1>4. ASSUME NEW q \in Process, pc'[q] # "ended", NEW k \in DOMAIN to_server'[q]
      PROVE  /\ to_server'[q][k] # <<"exit">>
             /\ to_server'[q][k][1] = "subscribe" => to_server'[q][k] \in Range(typed'[q])
  <2>1. CASE q # p
    BY <1>1, <1>2, <1>4, <2>1 DEF Requests
  <2>2. CASE q = p
    <3>1. Range(typed[p]) \subseteq Range(typed'[p])
      BY <1>3, <1>4, <2>2 DEF Range
    <3>2. \A j \in DOMAIN to_server[p] :
             /\ to_server[p][j] # <<"exit">>
             /\ to_server[p][j][1] = "subscribe" => to_server[p][j] \in Range(typed'[p])
      BY <1>1, <1>3, <1>4, <2>2, <3>1 DEF Requests
    <3>3. CASE to_server'[p] = to_server[p]
      BY <1>4, <2>2, <3>2, <3>3
    <3>4. ASSUME NEW piece \in Bytes, to_server'[p] = Append(to_server[p], piece)
          PROVE  \/ k \in DOMAIN to_server[p] /\ to_server'[p][k] = to_server[p][k]
                 \/ to_server'[p][k] = piece
      <4>1. to_server[p] \in Seq(Bytes)
        BY <1>1 DEF Typed
      <4>2. QED  BY <1>4, <2>2, <3>4, <4>1, RangeGrows
    <3>5. QED  BY <1>3, <1>4, <2>2, <3>2, <3>3, <3>4
  <2>3. QED  BY <2>1, <2>2
<1>5. ASSUME NEW q \in Process, pc'[q] # "ended"
      PROVE  /\ pc[q] # "ended"
             /\ \A k \in DOMAIN typed[q] : k \in DOMAIN typed'[q] /\ typed'[q][k] = typed[q][k]
  BY <1>2, <1>3, <1>5
<1>6. ASSUME NEW fd \in FD, peer'[fd] # NULL, pc'[peer'[fd]] # "ended", NEW name \in asked'[fd]
      PROVE  AskedFor(peer[fd], name)'
  <2>1. peer[fd] \in Process /\ peer'[fd] = peer[fd] /\ name \in asked[fd]
    BY <1>1, <1>6 DEF Typed
  <2>2. AskedFor(peer[fd], name)
    BY <1>1, <1>5, <1>6, <2>1 DEF Requests
  <2>3. QED  BY <1>5, <1>6, <2>1, <2>2 DEF AskedFor
<1>7. ASSUME NEW q \in Process, pc'[q] # "ended", NEW k \in DOMAIN from_server'[q],
             from_server'[q][k][1] = "packet"
      PROVE  Wants(q, from_server[q][k][2])'
  <2>1. k \in DOMAIN from_server[q] /\ from_server'[q][k] = from_server[q][k]
    <3>1. from_server'[q] \in {from_server[q], <<>>}
      BY DEF Turns, Received
    <3>2. QED  BY <1>7, <3>1
  <2>2. Wants(q, from_server[q][k][2])
    BY <1>1, <1>5, <1>7, <2>1 DEF Requests
  <2>3. QED  BY <1>5, <1>7, <2>1, <2>2 DEF Wants
<1>8. QED  BY <1>4, <1>6, <1>7 DEF Requests

-----------------------------------------------------------------------------
(* Everybody else, and the whole.                                          *)

LEMMA ArrivalKeepsSInv ==
  ASSUME SInv, TypeAtServer \/ SendDatagram
  PROVE  SInv'
<1>1. UNCHANGED <<broker, subscribers, backlog, peer, ready>>
  BY DEF TypeAtServer, SendDatagram
<1>2. Typed /\ Connections /\ Snapshot /\ Waiting /\ Requests
  BY DEF SInv
<1>3. /\ stdin' \in Seq(ServerLine) /\ stdio' \in Seq(ServerLine)
      /\ stdin # <<>> => stdin' # <<>>
      /\ datagrams' \in Seq(Published)
      /\ datagrams # <<>> => datagrams' # <<>>
  <2>1. CASE TypeAtServer
    <3>1. PICK line \in ServerLine : stdin' = Append(stdin, line)
      BY <2>1 DEF TypeAtServer
    <3>2. stdin' \in Seq(ServerLine) /\ stdin' # <<>>
      BY <1>2, <3>1, RangeGrows DEF Typed
    <3>3. UNCHANGED <<stdio, datagrams>>
      BY <2>1 DEF TypeAtServer, network
    <3>4. QED  BY <1>2, <3>2, <3>3 DEF Typed
  <2>2. CASE SendDatagram
    <3>1. PICK name \in Published : datagrams' = Append(datagrams, name)
      BY <2>2 DEF SendDatagram
    <3>2. datagrams' \in Seq(Published) /\ datagrams' # <<>>
      <4>1. datagrams \in Seq(Published)
        BY <1>2 DEF Typed
      <4>2. Append(datagrams, name) \in Seq(Published) /\ Append(datagrams, name) # <<>>
        BY <4>1, RangeGrows
      <4>3. QED  BY <3>1, <4>2
    <3>3. UNCHANGED <<stdin, stdio>>
      BY <2>2 DEF SendDatagram, console
    <3>4. QED  BY <1>2, <3>2, <3>3 DEF Typed
  <2>3. QED  BY <2>1, <2>2
<1>4. UNCHANGED <<read_fds, server, asked, id, user, pc, typed, eof, to_server, from_server,
                  gone, backlog, peer, ready>>
  BY <1>1 DEF broker, subscribers
<1>5. Typed'
  BY <1>2, <1>3, <1>4 DEF Typed
<1>6. Connections'
  BY <1>2, <1>4 DEF Connections
<1>7. Snapshot'
  BY <1>2, <1>3, <1>4 DEF Snapshot, ReadNeverBlocks, Readable, Running
<1>8. Waiting'
  BY <1>2, <1>4 DEF Waiting, Pending
<1>9. Requests'
  BY <1>2, <1>4 DEF Requests, AskedFor, Wants
<1>10. QED  BY <1>5, <1>6, <1>7, <1>8, <1>9 DEF SInv

LEMMA StutterKeepsSInv ==
  ASSUME SInv, UNCHANGED vars
  PROVE  SInv'
<1>1. UNCHANGED <<read_fds, server, asked, id, user, pc, typed, eof, to_server, from_server,
                  gone, backlog, peer, ready, stdin, stdio, datagrams>>
  BY DEF vars, broker, subscribers, console, network
<1>2. Typed /\ Connections /\ Snapshot /\ Waiting /\ Requests
  BY DEF SInv
<1>3. Typed' /\ Connections'
  BY <1>1, <1>2 DEF Typed, Connections
<1>4. Snapshot'
  BY <1>1, <1>2 DEF Snapshot, ReadNeverBlocks, Readable, Running
<1>5. Waiting' /\ Requests'
  BY <1>1, <1>2 DEF Waiting, Pending, Requests, AskedFor, Wants
<1>6. QED  BY <1>3, <1>4, <1>5 DEF SInv

LEMMA InitSInv == Init => SInv /\ B!ServerInv
<1> SUFFICES ASSUME Init
             PROVE  SInv /\ B!ServerInv
  OBVIOUS
<1>1. B!ServerInv
  BY SameInit, BrokerConstants, B!ServerInit DEF Init
<1>2. PICK s \in Scenario : id = s.id /\ user = s.user
  BY DEF Init
<1>3. /\ id \in [Process -> UserID]
      /\ user \in [Process -> [comes : BOOLEAN, lines : SUBSET Line, max : Nat]]
      /\ \A p \in Process : Texts(id[p], user[p]) \subseteq ID
  BY <1>2, ScenarioAssumption DEF UserID
<1>4. /\ \A p \in Process : /\ pc[p] = "start" /\ typed[p] = <<>> /\ ~eof[p]
                            /\ to_server[p] = <<>> /\ from_server[p] = <<>> /\ gone[p] = "open"
      /\ backlog = <<>> /\ ready = {} /\ stdin = <<>> /\ stdio = <<>> /\ datagrams = <<>>
      /\ \A fd \in FD : peer[fd] = NULL
  BY DEF Init, Subscriber!Init
<1>5. read_fds = {} /\ \A fd \in FD : asked[fd] = {}
  BY DEF Init, Broker!Init, Broker!Registry!Init
<1>6. Typed
  BY <1>3 DEF Init, Subscriber!Init, Typed
<1>7. Connections
  BY <1>4, <1>5, ProcessAssumption DEF Connections, Range
<1>8. Snapshot
  BY <1>4 DEF Snapshot, ReadNeverBlocks
<1>9. Waiting
  <2>1. ASSUME NEW p \in Process
        PROVE  /\ Len(typed[p]) <= user[p].max
               /\ typed[p] \in Seq(user[p].lines)
               /\ Range(to_server[p]) = {}
    <3>1. user[p].max \in Nat
      BY <1>3
    <3>2. typed[p] = <<>> /\ to_server[p] = <<>>
      BY <1>4
    <3>3. Len(<<>>) = 0 /\ <<>> \in Seq(user[p].lines) /\ DOMAIN <<>> = {}
      OBVIOUS
    <3>4. QED  BY <3>1, <3>2, <3>3 DEF Range
  <2>2. QED  BY <1>3, <1>4, <2>1 DEF Waiting
<1>10. Requests
  BY <1>4, <1>5 DEF Requests
<1>11. QED  BY <1>1, <1>6, <1>7, <1>8, <1>9, <1>10 DEF SInv

LEMMA StepSInv == SInv /\ B!ServerInv /\ [Next]_vars => SInv' /\ B!ServerInv'
<1> SUFFICES ASSUME SInv, B!ServerInv, [Next]_vars
             PROVE  SInv' /\ B!ServerInv'
  OBVIOUS
<1>1. B!ServerInv'
  BY StepIsBrokerStep, ServerStays
<1>2. ASSUME Server
      PROVE  SInv'
  BY <1>2, TypedServer, ConnectionsServer, SnapshotServer, WaitingServer, RequestsServer
     DEF SInv
<1>3. ASSUME NEW p \in Process, Connect(p) \/ Proceeds(p) \/ UserOf(p)
      PROVE  SInv'
  <2>1. Turns(p)
    BY <1>3, ProcessTurns DEF SInv
  <2>2. QED  BY <2>1, TypedProcess, ConnectionsProcess, SnapshotProcess, WaitingProcess,
                RequestsProcess DEF SInv
<1>4. ASSUME TypeAtServer \/ SendDatagram
      PROVE  SInv'
  BY <1>4, ArrivalKeepsSInv
<1>5. ASSUME UNCHANGED vars
      PROVE  SInv'
  BY <1>5, StutterKeepsSInv
<1>6. QED  BY <1>1, <1>2, <1>3, <1>4, <1>5 DEF Next

LEMMA Inductive == Spec => [](SInv /\ B!ServerInv)
<1>1. QED  BY InitSInv, StepSInv, PTL DEF Spec

\* Whatever the subscribers do and however the bytes arrive, the loop calls the
\* handlers as Broker says, with what Broker says: all that is proved of Broker by
\* itself holds of the server among its subscribers (main's loop, server.cpp:58-177).
THEOREM SystemImplementsBroker == Spec => Broker!Spec
<1>1. Init => Broker!Init
  BY DEF Init
<1>2. SInv /\ [Next]_vars => [Broker!Next]_(Broker!vars)
  BY StepIsBrokerStep
<1>3. QED  BY <1>1, <1>2, Inductive, PTL DEF Spec, Broker!Spec

\* Every variable keeps its type: an id that arrives is one the registry can hold and a
\* name in a command one the table can hold, even when several lines came in one recv.
THEOREM SystemTypeCorrect == Spec => []TypeOK
<1>1. SInv /\ B!ServerInv => TypeOK
  <2> SUFFICES ASSUME SInv, B!ServerInv
               PROVE  TypeOK
    OBVIOUS
  <2>1. B!TypeOK
    BY BrokerConstants, B!ServerTyped
  <2>2. Broker!TypeOK
    BY <2>1 DEF Broker!TypeOK, B!TypeOK, Broker!Registry!TypeOK, B!Registry!TypeOK,
                Broker!Registry!Unused, B!Registry!Unused, Broker!Table!TypeOK,
                B!Table!TypeOK, Broker!Table!Topic, B!Table!Topic, Broker!Message, B!Message
  <2>3. Subscriber!TypeOK
    <3>1. Typed /\ Waiting
      BY DEF SInv
    <3>2. ASSUME NEW p \in Process
          PROVE  /\ typed[p] \in Seq(user[p].lines)
                 /\ Range(to_server[p]) \subseteq Line \cup {<<"id", id[p]>>, <<"echo">>}
      <4>1. user[p].lines \subseteq Line
        BY <3>1 DEF Typed
      <4>2. QED  BY <3>1, <4>1 DEF Waiting
    <3>3. /\ user \in [Process -> [comes : BOOLEAN, lines : SUBSET Line, max : Nat]]
          /\ pc \in [Process -> {"start", "connected", "looping", "ended"}]
          /\ eof \in [Process -> BOOLEAN]
          /\ gone \in [Process -> {"open", "closed", "reset"}]
      BY <3>1 DEF Typed
    <3>4. QED  BY <3>2, <3>3 DEF Subscriber!TypeOK, Subscriber!Range, Range
  <2>4. QED  BY <2>2, <2>3 DEF TypeOK, SInv, Typed
<1>2. QED  BY <1>1, Inductive, PTL

\* Between select and the recv of a descriptor nothing takes away what it is readable
\* for: no handler earlier in the pass receives, closes or reuses it, so the recv of
\* server.cpp:162 does not wait.
THEOREM ReadsNeverBlock == Spec => []ReadNeverBlocks
<1>1. SInv => ReadNeverBlocks
  BY DEF SInv, Snapshot
<1>2. QED  BY <1>1, Inductive, PTL

LEMMA ShownIsReceived ==
  ASSUME NEW text \in Seq(Answer)
  PROVE  Range(Subscriber!Shown(text)) \subseteq Range(text)
<1> DEFINE I == {i \in 1..Len(text) : text[i][1] \in {"Subscribed", "Unsubscribed"}}
<1>1. CASE I = {}
  BY <1>1 DEF Subscriber!Shown, Subscriber!SelectInSeq
<1>2. CASE I # {}
  <2>1. Min(I) \in 1..Len(text)
    BY <1>2, MinOf
  <2>2. Subscriber!Shown(text) = SubSeq(text, 1, Min(I))
    <3>1. Subscriber!Min(I) = Min(I)
      BY DEF Subscriber!Min, Min
    <3>2. Subscriber!Shown(text) =
            LET n == IF I # {} THEN Subscriber!Min(I) ELSE 0
            IN  IF n = 0 THEN text ELSE SubSeq(text, 1, n)
      BY DEF Subscriber!Shown, Subscriber!SelectInSeq
    <3> HIDE DEF I
    <3>3. QED  BY <1>2, <2>1, <3>1, <3>2
  <2>3. \A i \in DOMAIN SubSeq(text, 1, Min(I)) :
          i \in DOMAIN text /\ SubSeq(text, 1, Min(I))[i] = text[i]
    BY <2>1
  <2>4. QED  BY <2>2, <2>3 DEF Range
<1>3. QED  BY <1>1, <1>2

\* What a subscriber prints of the packets, its own user has asked for: the descriptor
\* and the entry in the registry that an earlier process had bring it nothing, nor does
\* what another process with the same id has typed (server.cpp:94-177, subscriber.cpp's
\* loop).
THEOREM PrintsOnlyWhatWasAsked == Spec => PrintsOnlyAsked
<1>1. ASSUME SInv, NEW p \in Process, NEW name \in Published, Reads(p),
             <<"packet", name>> \in Range(Subscriber!Prints(p))
      PROVE  \E i \in DOMAIN typed[p] :
               typed[p][i][1] = "subscribe" /\ Matches(name, typed[p][i][2])
  <2>1. pc[p] = "looping"
    BY <1>1 DEF Reads, Subscriber!ReadServer
  <2>2. <<"packet", name>> \in Range(from_server[p])
    BY <1>1, ShownIsReceived DEF SInv, Typed, Subscriber!Prints
  <2>3. PICK k \in DOMAIN from_server[p] : from_server[p][k] = <<"packet", name>>
    BY <2>2 DEF Range
  <2>4. Wants(p, from_server[p][k][2]) /\ from_server[p][k][2] = name
    BY <1>1, <2>1, <2>3 DEF SInv, Requests
  <2>5. QED  BY <2>4 DEF Wants
<1>2. SInv => [\A p \in Process, name \in Published :
                 /\ Reads(p)
                 /\ <<"packet", name>> \in Range(Subscriber!Prints(p))
                 => \E i \in DOMAIN typed[p] :
                      typed[p][i][1] = "subscribe" /\ Matches(name, typed[p][i][2])]_vars
  BY <1>1
<1>3. QED  BY <1>2, Inductive, PTL DEF PrintsOnlyAsked
=============================================================================
