------------------------------- MODULE System -------------------------------
(***************************************************************************)
(* The server's select loop, the subscribers and the streams and datagrams *)
(* between them.  select takes a snapshot of what is ready; a pass of the  *)
(* loop then serves it, descriptor by descriptor, while the others go on.  *)
(* The handlers are those of Broker, run on what has been received.        *)
(***************************************************************************)
EXTENDS Naturals, Sequences, SequencesExt, FiniteSetsExt, Selection

CONSTANTS
  ID, FD, Client, ListenFd, NULL, Name, Matches(_, _), Published, MaxEntries,  \* Broker
  Process, Line,   \* Subscriber
  ServerLine,      \* what is typed at the server: "stop" (exit or an empty line), "other"
  Scenario         \* who takes part, how much is typed and published: a bound

VARIABLES
  clients, map_id_clients, map_connected_clients,
  open_fds, read_fds, max_nr_fd, server, topics, outbox, asked,             \* Broker
  id, user, pc, typed, eof, to_server, from_server, gone,          \* Subscriber
  backlog,    \* connections the kernel has made and accept has not taken
  peer,       \* the process at the other end of each descriptor
  ready,      \* temp_fds: what is left of the snapshot in this pass
  stdin,      \* lines the server's stdin holds
  stdio,      \* lines fgets has read ahead
  ahead,      \* how many lines may wait at the server: a bound
  datagrams,  \* what the UDP socket holds
  nr_packets  \* how many will yet come

broker      == <<clients, map_id_clients, map_connected_clients,
                 open_fds, read_fds, max_nr_fd, server, topics, outbox, asked>>
subscribers == <<id, user, pc, typed, eof, to_server, from_server, gone>>
console     == <<stdin, stdio, ahead>>
network     == <<datagrams, nr_packets>>
vars        == <<broker, subscribers, backlog, peer, ready, console, network>>

Broker     == INSTANCE Broker
Subscriber == INSTANCE Subscriber WITH closed <- server # "running"

STDIN_FILENO == 0
socket_TCP   == 3
socket_UDP   == 4

\* Every text that can have arrived of a process before it is accepted.
Texts(i, u) ==
  {<<>>} \cup {<<<<"id", i>>>> \o lines : lines \in UNION {[1..n -> u.lines] : n \in 0..u.max}}

ASSUME BrokerAssumption == Broker!NullAssumption /\ Broker!FdAssumption /\ Broker!LimitAssumption
                           /\ Broker!PublishedAssumption /\ Broker!MatchesAssumption
ASSUME ProcessAssumption == NULL \notin Process
\* stdin and the two sockets of the server have their descriptors first.
ASSUME DescriptorAssumption == FD \cap {STDIN_FILENO, socket_TCP, socket_UDP} = {}
ASSUME LineAssumption ==
  \A line \in Line : line[1] \in {"subscribe", "unsubscribe"} =>
                      line[2] \in Name /\ Append(line[2], "exit") \in Name
ASSUME ScenarioAssumption ==
  \A s \in Scenario :
    /\ s.id \in [Process -> {s.id[p] : p \in Process}]
    /\ s.user \in [Process -> [comes : BOOLEAN, lines : SUBSET Line, max : Nat]]
    /\ \A p \in Process : Texts(s.id[p], s.user[p]) \subseteq ID

Running == server = "running"

TypeOK ==
  /\ Broker!TypeOK
  /\ Subscriber!TypeOK
  /\ backlog \in Seq(Process)
  /\ peer \in [FD -> Process \cup {NULL}]
  /\ ready \subseteq {STDIN_FILENO, socket_TCP, socket_UDP} \cup FD
  /\ stdin \in Seq(ServerLine) /\ stdio \in Seq(ServerLine)
  /\ datagrams \in Seq(Published)

Init ==
  /\ Broker!Init
  /\ Subscriber!Init
  /\ \E s \in Scenario :
       id = s.id /\ user = s.user /\ ahead = s.ahead /\ nr_packets = s.nr_packets
  /\ backlog = <<>>
  /\ peer = [fd \in FD |-> NULL]
  /\ ready = {}
  /\ stdin = <<>> /\ stdio = <<>>
  /\ datagrams = <<>>

-----------------------------------------------------------------------------
(* select.                                                                 *)

\* A connection can be read: there are bytes, or the other end is gone.
Readable(fd) == to_server[peer[fd]] # <<>> \/ gone[peer[fd]] # "open"

\* Slip: select is told the highest descriptor and not the number after it.
SelectReady_OffByOne ==
  IF stdin # <<>>
  THEN {STDIN_FILENO}
  ELSE {d \in {socket_TCP} : backlog # <<>>}
       \cup {d \in {socket_UDP} : datagrams # <<>>}
       \cup {fd \in read_fds : fd < max_nr_fd /\ Readable(fd)}

\* When stdin is ready the rest of the snapshot is not looked at.
SelectReady ==
  IF stdin # <<>>
  THEN {STDIN_FILENO}
  ELSE {d \in {socket_TCP} : backlog # <<>>}
       \cup {d \in {socket_UDP} : datagrams # <<>>}
       \cup {fd \in read_fds : fd <= max_nr_fd /\ Readable(fd)}

\* At the end of a pass, when something is ready.
Select ==
  /\ Running /\ ready = {}
  /\ SelectReady # {}
  /\ ready' = SelectReady
  /\ Broker!Dropped
  /\ UNCHANGED <<subscribers, backlog, peer, console, network>>

\* The next descriptor of the pass: the lowest.
Serves(d) == Running /\ ready # {} /\ d = Min(ready)

-----------------------------------------------------------------------------
(* What a handler sends.                                                   *)

Piece(m) == IF m.what = "exit" THEN <<"exit">> ELSE <<m.what, m.name>>

\* The bytes of outbox' for a process; an empty farewell has none.
Sent(p) ==
  LET mine == Filter(outbox', {m \in Range(outbox') : peer'[m.to] = p /\ m.what # "end"})
  IN  [k \in DOMAIN mine |-> Piece(mine[k])]

\* What is sent to a process that is gone is lost and answered with a reset.
Deliver ==
  /\ from_server' = [p \in Process |-> IF gone[p] = "open" THEN from_server[p] \o Sent(p)
                                                           ELSE from_server[p]]
  /\ gone' = [p \in Process |-> IF gone[p] = "closed" /\ Sent(p) # <<>> THEN "reset"
                                                                        ELSE gone[p]]
  /\ UNCHANGED <<id, user, pc, typed, eof>>

\* A send on a connection that has been reset fails.
IsReset(fd) == gone[peer[fd]] = "reset"
CanSend == \A k \in DOMAIN outbox' : gone[peer'[outbox'[k].to]] # "reset"

\* What the server has not received is lost when it ends.
Kept(queue, nothing) == IF server' = "running" THEN queue ELSE nothing
Silence == [p \in Process |-> <<>>]

\* The server takes all that has arrived from the process of a descriptor, or
\* from none.
Leaves(queues, rest) ==
  /\ to_server' = Kept(queues, Silence)
  /\ ready' = Kept(rest, {})

Drained(p) == [to_server EXCEPT ![p] = <<>>]

-----------------------------------------------------------------------------
(* stdin.                                                                  *)

\* fgets: from what stdio has read ahead, or else all that stdin holds is read
\* and the first line taken.
NextLine == Head(stdio \o stdin)

fgets ==
  \/ stdio # <<>> /\ stdio' = Tail(stdio) /\ UNCHANGED stdin
  \/ stdio = <<>> /\ stdio' = Tail(stdin) /\ stdin' = <<>>

\* Slip: a stop line is taken for the end of this pass only.
HandleStdin_Continues ==
  /\ Serves(STDIN_FILENO)
  /\ fgets
  /\ Broker!Dropped
  /\ Leaves(to_server, {})
  /\ UNCHANGED <<backlog, peer, ahead, network>>
  /\ Deliver

\* Whatever the line is, nothing else of the snapshot is served.
HandleStdin ==
  /\ Serves(STDIN_FILENO)
  /\ fgets
  /\ \/ NextLine = "other" /\ Broker!Dropped
     \/ NextLine = "stop"  /\ Broker!Stop
     \/ /\ NextLine = "stop" /\ Broker!StopFails
        /\ \E fd \in FD : Broker!ClientOf(fd) # NULL /\ IsReset(fd)
  /\ Leaves(to_server, {})
  /\ backlog' = Kept(backlog, <<>>) /\ datagrams' = Kept(datagrams, <<>>)
  /\ UNCHANGED <<peer, ahead, nr_packets>>
  /\ CanSend /\ Deliver

-----------------------------------------------------------------------------
(* The sockets.                                                            *)

\* Addresses are only compared: the lowest that is free stands for all.
LowestAddress == \A a, b \in Client : b < a /\ clients'[a] # clients[a] => Broker!Registry!Allocated(b)

\* accept, and a recv that waits for the id: nothing else is served meanwhile.
\* The id is all that has come by then, commands included, or nothing.
HandleTcp ==
  LET p == Head(backlog)
  IN  /\ Serves(socket_TCP)
      /\ to_server[p] # <<>> \/ gone[p] # "open"
      /\ backlog' = Tail(backlog)
      /\ \E fd \in FD :
           /\ peer' = [peer EXCEPT ![fd] = p]
           /\ Broker!Accept(to_server[p], fd)
      /\ LowestAddress
      /\ Leaves(Drained(p), ready \ {socket_TCP})
      /\ UNCHANGED <<console, network>>
      /\ CanSend /\ Deliver

\* Slip: a failed accept is passed over, and select reports it again.
HandleTcpFails_GoesOn ==
  /\ Serves(socket_TCP)
  /\ FD \subseteq open_fds
  /\ Broker!Dropped
  /\ Leaves(to_server, ready \ {socket_TCP})
  /\ UNCHANGED <<backlog, peer, console, network>>
  /\ Deliver

\* accept has no descriptor left: the server ends, whether the id has come or not.
HandleTcpFails ==
  /\ Serves(socket_TCP)
  /\ Broker!AcceptFails
  /\ Leaves(to_server, {})
  /\ backlog' = Kept(backlog, <<>>) /\ datagrams' = Kept(datagrams, <<>>)
  /\ UNCHANGED <<peer, console, nr_packets>>
  /\ Deliver

\* The send that fails is the first to a connection that has been reset, by an
\* earlier send of the same loop perhaps.
BreaksAt(messages, k) ==
  /\ \A j \in 1..k - 1 : ~IsReset(messages[j].to)
  /\ \/ IsReset(messages[k].to)
     \/ /\ gone[peer[messages[k].to]] = "closed"
        /\ \E j \in 1..k - 1 : messages[j].to = messages[k].to

HandleUdp ==
  LET name == Head(datagrams)
  IN  /\ Serves(socket_UDP)
      /\ UNCHANGED <<peer, console, nr_packets>>
      /\ \/ Broker!Publish(name) /\ CanSend
         \/ /\ Broker!PublishFails(name)
            /\ BreaksAt(Broker!Forwarded(name), Len(outbox') + 1)
      /\ Leaves(to_server, ready \ {socket_UDP})
      /\ datagrams' = Kept(Tail(datagrams), <<>>) /\ backlog' = Kept(backlog, <<>>)
      /\ Deliver

Is(piece, words) == piece[1] \in words

\* Slip: the end of the stream is taken for an empty line.
IsLeave_ExitOnly(text) == text # <<>> /\ Head(text) = <<"exit">>

\* split_message on what one recv has brought.  Only spaces separate the words
\* after the first, so "exit" in the next line becomes part of the name.
IsLeave(text)   == text # <<>> => Head(text) = <<"exit">>
TwoWords(text)  == Len(text) = 1 \/ (Len(text) = 2 /\ text[2] = <<"exit">>)
NameIn(text)    == IF Len(text) = 1 THEN text[1][2] ELSE Append(text[1][2], "exit")
IsCommand(text, words) == TwoWords(text) /\ Is(text[1], words)

\* What execute_subscriber_command does with a text that is not a departure.
Executed(fd, text) ==
  \/ /\ Broker!ClientOf(fd) = NULL \/ ~IsCommand(text, {"subscribe", "unsubscribe", "other"})
     /\ Broker!Dropped
  \/ IsCommand(text, {"other"}) /\ Broker!BadCommand(fd)
  \/ /\ IsCommand(text, {"subscribe"}) /\ ~IsReset(fd)
     /\ Broker!Subscribe(fd, NameIn(text))
  \/ /\ IsCommand(text, {"unsubscribe"}) /\ ~IsReset(fd)
     /\ Broker!Unsubscribe(fd, NameIn(text))
  \/ /\ Broker!ClientOf(fd) # NULL /\ IsReset(fd)
     /\ IsCommand(text, {"subscribe", "unsubscribe"})
     /\ Broker!ReadOrReplyFails

\* Slip: the descriptor is read again in the same pass.
HandleClient_Again(fd) ==
  LET text == to_server[peer[fd]]
  IN  /\ Serves(fd)
      /\ \/ IsLeave(text) /\ Broker!Leave(fd)
         \/ ~IsLeave(text) /\ Executed(fd, text)
      /\ Leaves(Drained(peer[fd]), IF IsLeave(text) THEN ready \ {fd} ELSE ready)
      /\ UNCHANGED <<backlog, peer, console, network>>
      /\ Deliver

\* recv on a connection.  Without bytes: the end of the stream, or the error that
\* a reset leaves.
HandleClient(fd) ==
  LET text == to_server[peer[fd]]
  IN  /\ Serves(fd)
      /\ Readable(fd)
      /\ \/ IsLeave(text) /\ Broker!Leave(fd)
         \/ text = <<>> /\ IsReset(fd) /\ Broker!ReadOrReplyFails
         \/ ~IsLeave(text) /\ Executed(fd, text)
      /\ Leaves(Drained(peer[fd]), ready \ {fd})
      /\ backlog' = Kept(backlog, <<>>) /\ datagrams' = Kept(datagrams, <<>>)
      /\ UNCHANGED <<peer, console, nr_packets>>
      /\ Deliver

Server ==
  \/ Select
  \/ HandleStdin
  \/ HandleTcp
  \/ HandleTcpFails
  \/ HandleUdp
  \/ \E fd \in FD : HandleClient(fd)

-----------------------------------------------------------------------------
(* Everybody else.                                                         *)

Connect(p) ==
  /\ Subscriber!Connect(p)
  /\ backlog' = Append(backlog, p)
  /\ UNCHANGED <<broker, peer, ready, console, network>>

Proceeds(p) ==
  /\ Subscriber!Proceeds(p)
  /\ UNCHANGED <<broker, backlog, peer, ready, console, network>>

UserOf(p) ==
  /\ Subscriber!UserOf(p)
  /\ UNCHANGED <<broker, backlog, peer, ready, console, network>>

\* The operator may go on typing for ever.
TypeAtServer ==
  /\ Running /\ Len(stdio \o stdin) < ahead
  /\ \E line \in ServerLine : stdin' = Append(stdin, line)
  /\ UNCHANGED <<broker, subscribers, backlog, peer, ready, stdio, ahead, network>>

SendDatagram ==
  /\ Running /\ nr_packets > 0
  /\ \E name \in Published : datagrams' = Append(datagrams, name)
  /\ nr_packets' = nr_packets - 1
  /\ UNCHANGED <<broker, subscribers, backlog, peer, ready, console>>

Next ==
  \/ Server
  \/ \E p \in Process : Connect(p) \/ Proceeds(p) \/ UserOf(p)
  \/ TypeAtServer
  \/ SendDatagram

\* The programs run; nobody has to connect, type, publish or be killed.
Spec ==
  /\ Init /\ [][Next]_vars
  /\ WF_vars(Server)
  /\ \A p \in Process : WF_vars(Proceeds(p))

-----------------------------------------------------------------------------
(* Properties.                                                             *)

\* A descriptor of the snapshot can still be read when its turn comes, whatever
\* the handlers before it in the pass have accepted, closed or received: the loop
\* does not block in recv (server.cpp:162) with everybody waiting.
ReadNeverBlocks == \A fd \in ready \cap FD : fd \in read_fds /\ Readable(fd)

Reads(p) == \E stdin_too \in BOOLEAN : Subscriber!ReadServer(p, stdin_too)

\* What a subscriber prints of the packets, it has asked for itself: not the
\* process that had its descriptor before, nor another under the same id.
PrintsOnlyAsked ==
  [][\A p \in Process, name \in Published :
       /\ Reads(p)
       /\ <<"packet", name>> \in Range(Subscriber!Prints(p))
       => \E i \in DOMAIN typed[p] :
            typed[p][i][1] = "subscribe" /\ Matches(name, typed[p][i][2])]_vars

Registered(p) == \E fd \in FD : peer[fd] = p /\ Broker!ClientOf(fd) # NULL

\* From some time on stdin is ready whenever select returns: the sockets are not
\* looked at any more (server.cpp:84-97).
Starved == <>[](ready \subseteq {STDIN_FILENO}) /\ []<>(STDIN_FILENO \in ready)

\* A subscriber that ends, by "exit", at the end of its stdin or killed, in the
\* backlog or in the middle of a pass, is off the server's books for good, unless
\* the operator never stops typing.
EndIsNoticed ==
  Starved \/ \A p \in Process : pc[p] = "ended" ~> [](Running => ~Registered(p))

\* When the server ends, in order or not, no subscriber stays behind.
StopReachesAll == ~Running ~> \A p \in Process : pc[p] \in {"start", "ended"}

\* A connection refused under an id that is taken ends, and its process with it.
RefusedEnds ==
  \A p \in Process :
    (Running /\ pc[p] = "looping" /\ ~Registered(p) /\ p \notin Range(backlog))
      ~> (pc[p] = "ended" \/ ~Running)

\* What a subscriber has sent is received, however the other sockets keep the
\* server busy: no descriptor is left out of select, no handler waits for ever.
\* Only an operator who never stops typing can prevent it.
LinesAreTaken ==
  Starved \/ \A p \in Process : to_server[p] # <<>> ~> (to_server[p] = <<>> \/ ~Running)

\* A connection does not wait for ever in the backlog: it is accepted, or the
\* server, out of descriptors perhaps, ends and with it the connection.
ConnectionsAreTaken ==
  Starved \/ \A p \in Process : p \in Range(backlog) ~> p \notin Range(backlog)

\* A stop line at the head of stdin stops the server, although other lines and all
\* the sockets are ready too (one that stdio has read ahead waits for the next).
StopIsHeeded ==
  (stdin # <<>> /\ stdio = <<>> /\ stdin[1] = "stop") ~> ~Running

-----------------------------------------------------------------------------
\* readme.txt:17 "Cand primesc date de la server, le afisez la stdout": all that a
\* subscriber receives it prints.
ReceivedIsPrinted ==
  [][\A p \in Process :
       Reads(p) => Subscriber!Prints(p) = from_server[p]]_vars
=============================================================================
