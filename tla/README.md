# Verification of the PCom publish/subscribe server

The repository is a small message broker in C++: UDP clients publish typed
values under topics, TCP subscribers ask for topics (with the wildcards `+` and
`*`), and a single-threaded server passes the packets on. This directory holds
TLA+ modules translated from its source, the configurations that check them with
TLC, and proofs checked by TLAPS. Paths below are relative to
`src/homework2-public-main/`.

## 1. Inventory

| Part | State | Operations | Talks to |
|---|---|---|---|
| client registry (`server_helper.hpp`:22-27, 394-511; `server.cpp`:135-170) | client objects on the heap, `map_id_clients`, `map_connected_clients`, `read_fds`, `max_nr_fd` | accept and `connect_client`, `disconnect_client`, `close_clients` | the kernel's descriptors; subscribers, over TCP |
| topic table (`server_helper.hpp`:42-45, 201-211, 226-335) | `topics`: a vector of names, each with a vector of pointers to client objects | `get_topic_index`, `get_subscriber_index`, `subscribe_client`, `unsubscribe_client`, `send_udp_packet` | reads the objects of the registry |
| wildcard matching (`server_helper.hpp`:213-224) | none | `matches_wildcard_path` | called by `get_topic_index` |
| commands (`server_helper.hpp`:337-392) | none | `split_message`, `execute_subscriber_command` | calls the topic table, answers on the socket |
| packet decoding (`server_helper.hpp`:85-199, `server.cpp`:102-131) | none | `get_udp_packet` | called before `send_udp_packet` |
| event loop (`server.cpp`:63-178) | `temp_fds`, `buffer` | one pass: stdin, or every ready descriptor in ascending order | all of the above |
| subscriber (`subscriber.cpp`) | `buffer`, its socket | send the id, then pass stdin to the server and the server to stdout | the server, over TCP |
| UDP client (`pcom_hw2_udp_client/udp_client.py`, `utils/unpriv_port.py`) | its arguments, the list of payloads, a counter | check the arguments, send a payload, report it; three modes: `all_once`, `manual`, `random` | the server, over UDP |
| test driver (`test.py`) | child processes | starts, feeds and reads the programs | standard streams only |

What makes this code hard, with the line where it bites, is the `hazards` list
of `PROJECT.json`. In short:

* *Identity.* A session is described in three places (two maps and a flag in the
  object) and its descriptor in two more (`read_fds`, the kernel). Topic lists
  keep pointers to objects whose owner has left and whose socket number may be
  somebody else's by now. Correct means: the three places agree, select watches
  exactly what is open, and a packet reaches only sessions that asked for it.
* *Routing.* A packet serves the first topic of the vector that matches it, and
  packets themselves append topics. Correct means: names are unique, a route is
  stable, a subscription is served.
* *Failure.* Any failed system call, and any unknown two-word command, ends the
  server (`DIE`), in the middle of whatever loop it was in.
* *Streams.* Nothing marks where a message ends: neither side can tell two
  messages that arrived together from one.
* *Scheduling.* One `select` result serves a whole pass, in which descriptors are
  accepted and closed; stdin takes precedence, for as long as it is ready; `accept`
  is followed by a `recv` that waits. Correct means: the loop never blocks on a
  stale descriptor, and what a client sends, or that it has ended, is eventually
  noticed unless the operator never stops typing.
* *Numbers.* Decoding goes through `float`, ignores the datagram's length and
  forwards contents it has not filled in.
* *The load generator.* A datagram leaves before it is reported and counted, and a
  run can stop anywhere. Correct means: what has left is what the mode says, and
  no more.

## 2. Plan

| Module | Models | State of work |
|---|---|---|
| `Sessions` | abstract: who is logged in over which connection | done |
| `ClientRegistry`, `ClientRegistryProofs` | the registry; implements `Sessions` | done, proved |
| `Wildcard`, `MCWildcard`, `WildcardProofs` | `matches_wildcard_path` against a definition by levels | done, proved |
| `Selection`, `SelectionProofs` | a loop over a vector that takes some of its elements | done, proved |
| `TopicTable`, `TopicTableProofs` | the table's searches and changes, and what they preserve | done, proved |
| `Broker`, `BrokerProofs` | registry and table under the handlers of the loop; implements `ClientRegistry` and `PubSub` | done, proved |
| `PubSub` | abstract: routes owned by at most one id; implemented by `Broker` | done, proved |
| `Payload`, `MCPayload`, `PayloadProofs` | `get_udp_packet` against the format read the other way round | done, proved |
| `UdpClient`, `UdpClientProofs` | the load generator | done, proved |
| `Subscriber` | the subscribers' loop, its shared buffer and its ends | done |
| `System`, `SystemProofs` | the select loop, subscribers and streams; implements `Broker`; what eventually happens | done; safety proved |

Runs: one passing run per component and one run per disagreement with the
documentation.

## 3. Modules and code

**`ClientRegistry`.** Its variables are the variables of `main` and the heap.
`clients[p]` is the object at address `p`, `Unused` when nothing is allocated
there. `open_fds` is the kernel's view (accepted and not closed), `read_fds` the
part of the server's set that concerns connections. `AcceptClient` is the whole
branch of `server.cpp`:135-159, `connect_client` included; `ClientLeaves` that of
lines 160-170 for end of file and `exit`; `close_clients` the orderly end;
`AcceptFails` and `SocketError` the ways a system call ends the process. The loop
is single-threaded, so a handler is one step. `LowestFree` is the kernel's rule
for new descriptors and is what makes reuse happen. The branch of
`connect_client` for a known client that is offline (`ReviveClient`) is
translated although no state reaches it; `OfflineForGood` proves this.

**`Sessions`.** What the registry promises: an id is logged in over one connection
at most. `up` says that the server has not ended: only its end ends everybody's
session at once, and nothing happens afterwards.

**`TopicTable`.** `topics` is the vector. Searches return 0 where the code
returns -1. `get_subscriber_index` has the code's `!=`. `send_udp_packet` is split in
what it writes (`Receivers`) and what it changes.

**`Selection`.** `Filter` is such a loop over a vector: `SelectSeq` with a set in
place of the test, and a recursive function in place of the recursive operator.
`TopicTable` takes the subscribers who are online with it, `System` what of a
handler's messages is for one process, `UdpClient` the valid choices, `Wildcard` the
places where a level ends.

**`Wildcard`.** `Covers` says what the expression put for one character of a
subscription matches, `matches_wildcard_path` cuts the topic into such parts, as
`regex_match` does. `LevelsMatch` is a second definition, by levels between
slashes, that shares nothing with the first. The segment for `*` is `(.*)`, whose
dot does not match the characters of `LineBreaks`, while `([^/]+)` for `+` does: a
`+` can match a topic that a `*` in its place does not. `Ends` are the places where the
levels end, in order.

**`Broker`.** Instances of the two, over the same heap, and one action per
event. `outbox` is what the latest handler has sent, in order. `SendFails` is a
handler that ends in `DIE` after some of its messages. `asked` is a history that
only properties read: the names the session now on a descriptor has sent
`subscribe` for. `Dropped` is every input the code ignores.

**`PubSub`.** What `Broker` amounts to, without objects, lists and searches: a name
is a route to one id at most, the first to enter it; a packet goes to the first route
it matches, and there to the owner's present connection or to nobody; a return
does not bring service back until the owner subscribes again; others cannot
leave the name but can take the owner's entry away. `HolderOf` and `RoutesOf` in
`Broker` are the refinement mapping.

**`Payload`.** `get_udp_packet` on the zeroed buffer. The sizes of topic, integers and
buffer, the values of a byte and the precision of a `float` are constants.
Contents are texts (sequences of bytes) or numbers (sign, digits, how many
of them are decimals), which is what the printed form shows. `to_float` is the
rounding of the cast in line 167; the division by a power of ten and the printing
after it are not spelled out, nor is the `float` of a SHORT_REAL, whose 16 bits it
holds exactly. `encoding` is the format as a publisher writes it. `Power` is `b ^ n` as
a loop, which is what a proof can take apart. `PayloadAssumption` says what the
sizes satisfy: the four types have a byte each, and a value fits behind the longest
head.

**`UdpClient`.** One step per line of the program at which it waits, loops or
can stop: the datagram (`decode_and_send`) and its report and delay
(`ReportSent`) are two. `Raises` is an exception at any point, an interrupt included.
An entry without `payload_base64` is an `Undecodable` one. `argv` holds the
arguments as typed; a value outside `Int` is one that `int()` rejects.

**`Subscriber`.** `to_server` and `from_server` are the two directions of the
stream. They are kept in pieces only to say what a program makes of them; every
`recv` takes all there is. A turn of the loop is `ReadServer` or `ReadStdin`; the
two descriptors share one buffer, so at the end of stdin what was received is sent
back (`<<"echo">>`). `gone` is the kernel's view of the socket: closing it with unread
bytes resets the connection.

**`System`.** `Broker`'s handlers run on what has arrived. `Select` takes the
snapshot `ready`; `Serves` picks its lowest descriptor, which is the order of the
`for` loop; `HandleStdin`, `HandleTcp`, `HandleUdp` and `HandleClient` are its branches.
`HandleTcp` waits for the id, and with it the whole server; `HandleTcpFails` is an
`accept` that finds no free descriptor, which is `DIE`. The operator may type
without end: `ahead` bounds only how many lines wait. A handler's send to a
process that is gone is lost and answered with a reset; a send or `recv` after the
reset fails, which is `DIE`. The id is all that has arrived at the time; a command
is what `split_message` makes of a text (`TwoWords`, `NameIn`). When the server ends,
its queues are emptied: nobody reads them. What the constants have to satisfy is
stated: ids, names and texts are closed under what can arrive in one `recv`
(`ScenarioAssumption`, `LineAssumption`; `Texts` are the possible first ones), and
the listening sockets have descriptors of their own.

Definitions that begin with the name of another and an underscore (such as
`Covers_CrossesSlash`) are slips of the kind a change to the code could make. No
specification uses them; they show that each property can fail.

## 4. Runs

| Run | Checks | Shows |
|---|---|---|
| `registry` | `TypeOK`, `MapsAgree`, `WatchIsSound`, `OneSessionPerId`, `OfflineIsFinal`, `ImplementsSessions` | The bookkeeping of connections is consistent through logins, refusals, departures, reuse and exhaustion of descriptors; an id is logged in over one connection at a time. |
| `wildcard` | `RegexIsLevelwise`, `NameMatchesItself` | The expression accepts what the levels of a subscription describe, empty levels and line breaks included. |
| `broker` | `TypeOK`, `UniqueNames`, `SingleOwner`, `OnlyAsked`, `StopReachesEveryone`, `RouteStable`, `ImplementsPubSub` | A packet reaches only sessions that asked for it; routes never change; all entries of a topic are of one id; an orderly stop tells every registered client, once; taken together, the server implements `PubSub`. |
| `returning_client` | `OneObjectPerId`, violated | A client that returns gets a new object. Its subscriptions stay with the old one (`readme.txt`:50 says otherwise). |
| `refused_duplicate` | `NoForgottenSocket`, violated | The socket of a refused duplicate is never closed (`readme.txt`:49-50 says it is). |
| `confirmation` | `ConfirmationIsTrue`, violated | `Unsubscribed` is sent while the entry stays; likewise `Subscribed` without an entry when another id holds the topic. |
| `delivery` | `SentToAllSubscribers`, violated | A packet misses the subscribers of every matching topic but the first (`readme.txt`:31-32). |
| `udp_client` | `TypeOK`, `AllOnceInOrder`, `RandomCount`, `ManualFollowsChoices`, `AtMostOneUnreported`, `Terminates` | What the load generator sends is what its mode says, whatever stops it; one datagram at most is unreported; a bounded run ends. |
| `payload` | `TypeOK`, `NothingLost`, `FloatIsNearest`, `CutShrinksOrUnscales` | Decoding inverts the encoding; a FLOAT errs by rounding alone; a cut datagram keeps topic, type and sign and its number is no further from zero, but for a FLOAT that has lost its exponent: 1234.4321 is told as 12344321. |
| `negative_zero` | `ZeroHasNoSign`, violated | Sign 1 and value 0 are printed as `-0`; `test.py`:106 expects `0` for such a packet. |
| `system` | `TypeOK`, `ReadNeverBlocks`, `PrintsOnlyAsked`, `EndIsNoticed`, `StopReachesAll`, `RefusedEnds`, `LinesAreTaken`, `ConnectionsAreTaken`, `StopIsHeeded` | No handler blocks on a stale descriptor; nobody prints another's packets; the end of the server, every refusal and every stop is noticed in the end, and so are every line, every waiting connection and every end of a subscriber unless the operator never stops typing. |
| `printed` | `ReceivedIsPrinted`, violated | A packet behind a confirmation in one `recv` is not printed (`readme.txt`:17). |

`SingleOwner` is what the inverted comparison of `get_subscriber_index` amounts
to: the search finds an entry exactly when some *other* id has one, so the first
id to enter a topic keeps it, after it has left too. With `OneSessionPerId` it
follows that a packet has at most one receiver.

## 5. Bounds, symmetry, fairness

* `registry`: three ids, three descriptors, four client addresses. Objects are
  freed only at the end, so the addresses bound the successful logins of a run;
  four allow a client to return twice and another to take its descriptor in
  between. Three descriptors let duplicates use up all of them (`AcceptFails`).
* `broker`: three ids, two descriptors, three addresses, the names `a` and `*`,
  packets for `a`. `MaxEntries` (2) bounds the entries of one topic, which the
  code does not: a client that subscribes again is entered again. Two are enough
  for a duplicate entry and for entries of two objects of one id.
* `wildcard`: the letter `a`, a line break and the slash; topics up to 5 characters,
  subscriptions up to 4, with the two wildcards. Other letters are told apart from
  these only by being equal or not, which `a` and the line break are enough for.
  Five are enough for `*` over three levels, four for two wildcards and the text
  between them.
* `udp_client`: lists of up to two messages, good, undecodable or without a
  description; ports at, below and above both limits; negative, zero and missing
  counts and delays. Two messages give an order and an element to miss. `Bound`
  limits manual entries and the packets of an endless run.
* `payload`: five values of a byte, topics of two bytes, integers of two (both
  kinds), three bits of precision: mantissas that fit, that round up, down and to
  even. Seven bytes are a whole FLOAT, and an INT with one byte behind it. The byte 0 ends
  texts, 0 and 1 are signs, 4 is an unknown type.
* `system`: three processes, two descriptors, one name, at most two lines of one user
  and one of another. `Scenario` is a set of six beginnings, each with a part of the
  environment: two processes of one id and a packet; two lines that can arrive
  together, and a packet; a packet and the end of the server; up to two lines
  waiting at the server; `unsubscribe` and an unknown command; three processes, two
  of one id, for the two descriptors (`AcceptFails`, unless one has left in time).
  Within a scenario everything may interleave, and every process may be killed or
  reach the end of its stdin at any time. All of the parts at once are many times as
  many states. Two processes are enough for a refusal, for a reused descriptor and
  for a second descriptor in a pass. `ahead` does not bound how many lines the
  operator types: where it is not 0, stdin can be ready for ever.
* Ids and addresses are only compared, so both are symmetric in `registry` and `broker`. Descriptors are
  ordered (the kernel takes the lowest) and are not.
* Deadlock is not checked: the programs end, and the growing names of `wildcard` and
  datagrams of `payload` stop at their bounds.
* Fairness. `System!Spec` has `WF(Server)`: the server is one process, the kernel
  runs it, and each handler is straight-line code, so an enabled step is taken. A
  handler that waits (the `recv` of the id) is not enabled and no fairness helps
  it. It also has `WF(Proceeds(p))` for each process: sending the id, reading what
  has arrived, and reading a stdin that is at its end, which is always ready. Users
  who connect, type or kill, the operator and the publisher are not fair: none of
  them has to do anything. No fairness between the handlers is needed: a pass
  serves all of its snapshot. But a pass with stdin in it serves nothing else, so
  behaviours in which from some time on only stdin is ever ready (`Starved`: an
  operator who never stops typing) are excepted by name in `EndIsNoticed`,
  `LinesAreTaken` and `ConnectionsAreTaken`; without the exception TLC finds them.
  `RefusedEnds`, `StopReachesAll` and `StopIsHeeded` hold with them.
  `UdpClient!FairSpec` has `WF(Program)`, the
  program's own steps without the user's choices and without failures.

## 6. Proofs

`ClientRegistryProofs`, for every set of ids, descriptors and addresses. Assumed:
`NullAssumption` (the null pointer is no address, id or descriptor) and
`FdAssumption` (descriptors are natural numbers).

* `IInv` is `TypeOK /\ MapsAgree /\ WatchIsSound`. `MapsAgree` alone is not
  inductive: a login would break it if `accept` returned a descriptor that is
  still registered, because `insert` keeps the old value of a key. It cannot
  (`FreshDescriptor`): what is registered is watched, and what is watched is open.
* One lemma per action (`AcceptPreserves`, `LeavePreserves`, `EndPreserves`) and
  `StepIInv` joins them. `TypeCorrect`, `MapsAlwaysAgree`, `WatchAlwaysSound` and
  `SessionsDisjoint` follow.
* `OfflineForGood`: no known id is offline (`AcceptCreatesOrRefuses`), so the
  branch that would bring an object back is dead.
* `RegistryImplementsSessions`: a login is `Login`, a departure of a registered
  client is `Logout`, either end of the server is `Shutdown`, everything else a
  stutter. The witness is `SessionsOf`, read off the heap.

`TopicTableProofs`, for every set of names and clients and every matching. The
searches are first brought to the least index of a set (`FirstOf`). Then one lemma
per function says what it does to the vector: names stay where they are
(`NamesStay`), none is there twice, and at most one client enters, only a topic of
its own id (`EntersOnly`). `PacketPreserves` is where a name has to match itself:
`send_udp_packet` searches by match and pushes by name. `RouteStays` follows from
`NamesStay`.

`SelectionProofs`. What a recursive function computes is an induction over data,
and the library's induction theorems take an operator, which the provers cannot
instantiate. `Induction` here takes a *set*: one that has 0 and with each number
the next has all of them, since it otherwise has a least one it lacks
(`NatLessThanWellFounded`, `WFMin`). With it `FilterProperties` says of `Filter` that it
takes the elements of the sequence that are in the set and no others, at no more
places than the sequence has; `FilterAppend`, what one more element does.

`BrokerProofs`. Assumed besides: packets have names of `Name`, a name matches
itself (proved of the real matching in `WildcardProofs`), and the descriptors are
finitely many, the limit of a process.

* `BrokerImplementsRegistry`: each handler is a step of the registry or leaves it
  alone. So the registry's theorems hold of the server.
* `IInv` joins the registry's `IInv`, types and names of the table, one owner per
  topic, and `EntriesAllocated`. The last is needed because an entry is a pointer: it
  keeps meaning the client it was made for only while the object is not given back
  (`LiveObjectsStay` in `ClientRegistryProofs`). `NamesAlwaysUnique`,
  `OneOwnerPerTopic` and `RoutesNeverMove` follow.
* `PacketsOnlyAsked`. `OnlyAsked` speaks of messages on their way and is no
  invariant that a step could start from. `AskedInv` is: whenever an entry's client is
  online, the session on the client's descriptor has subscribed to the name. It
  survives a departure because the object goes offline and stays so; a login
  because a new object is in no topic; and an `unsubscribe`, which does not forget
  anything in `asked`, because it only removes entries. A packet then goes to
  online clients among the entries of one matching topic (`ForwardedProperties`),
  and a handler cut short has sent a prefix of it (`PacketsSent`).
* `TypeCorrect`: the types of the messages follow handler by handler (`SendsTyped`).
* `StopTellsAll`: `close_clients` goes through the ids in any order
  (`OrderOfSet`), and the sockets of the clients it tells are those in the other map
  (`ToldSockets`, from `MapsAgree`), each once (`OneSessionPerId` is not needed:
  a client's message is determined by its socket).
* `BrokerImplementsPubSub`. A handler maps to the operation of `PubSub` of its name,
  or to a stutter; a topic to a route whose owner is the id of its first entry, or
  nobody. That the first entry stands for all is `SingleOwner` (`EntriesAreOwners`);
  that a packet served from the vector is one served from the routes needs that a
  topic's entries include an online client exactly when the route is served, which
  login and departure change for all routes of an id at once; that the owner has
  one connection is the registry's `MapsAgree`.

`WildcardProofs`, for names of any length over any characters. `MatchIsCut` turns
the recursive function into what it computes: the topic can be cut into one part
for each character of the subscription, each part covered by it (`CutEnds` and the
steps from one character to the one before it, by `Induction`). A cut is a
witness, so the rest needs no recursion: the cut into single characters gives
`EveryNameMatchesItself`, which discharges `MatchesAssumption` of `Broker`.

`RegexAcceptsLevels` compares this cut with one by levels (`IsLevelCut`), in both
directions. What both need is where levels lie: `EndsInOrder` and `StartsInOrder`
say that they cover the name, in order, with one slash between two of them, and
`LevelKinds` that a level of a subscription is one wildcard or has none.

* `CutGivesLevels`. Each slash of the subscription takes one of the topic, and of the other
  characters only `*` takes any, so what the characters of a level take begins and ends with
  levels of the topic (`PartsStartLevels`). `PartIsNamed` then goes by the kind of
  level: a literal one is copied (`CutCopies`), `+` takes one level because what it
  covers has no slash (`NoSlashOneLevel`), `*` at least one because the slash behind
  it, or the end, comes later, and only levels on one line, since slashes are no line
  breaks (`LevelsShareOneLine`).
* `LevelsGiveCut`. `Cut` gives the characters of a literal level one character each and a
  wildcard all from the first to the last of its levels (`LevelIsPlaced`); the
  slash behind a level gets the slash behind its levels (`SlashIsPlaced`). Its value
  is a `CHOOSE` of the level, of which there is one (`InOneLevel`).

`PayloadProofs`, for every base, all sizes and every precision that satisfy
`PayloadAssumption`, and datagrams shorter than the buffer (`BufferAssumption`: one
that fills it leaves no NUL behind a text). The state is only the datagram, so the
invariant (`Arrived`) says that it is bytes and not too many; the work is in the
operators.

* The loops of `uint` and `Power` are read off step by step (`Reads`, `Powers`), by
  `Induction`. The lemmas that follow are those of positional notation: a number
  fits its bytes (`uintFits`), the first byte splits off (`uintSplits`), one byte
  more never makes it smaller (`uintGrows`), and the bytes of what was read
  are what was read (`bytesOfuint`).
* A text ends at the least NUL (`LeastExists`), and there is one because the buffer is
  longer than the datagram (`textHasNUL`).
* `DecodingLosesNothing` compares `encoding` with the buffer field by field
  (`WritesTopic`, `WritesNumber`, `WritesValue`). `PacketsAreTyped` needs only the
  texts and where the fields lie.
* `FloatRoundsToNearest`. The spacing of the representable numbers around a mantissa is a
  power of two (`IsSpacing`). The multiple of it that `to_float` takes is no further away
  than any other (`RoundsToNearest`). A representable number with a smaller
  power of two has too few digits to get past a multiple that the mantissa has reached
  (`RepresentableIsNotNearer`).
* `TruncationShrinksOrUnscales` is `uintGrows` with the rounding being monotone
  (`to_floatGrows`): the spacing may change from one mantissa to the other. The scale
  stays unless the missing byte is the exponent, which is then read as zero
  (`MissingIsZero`) behind a mantissa that is complete.

`SystemProofs`, for every scenario, process, line and descriptor that satisfies
the assumptions of `System`.

* `SInv` has five parts. `Typed`. `Connections`: a connection is in the backlog or
  has one descriptor, and only once. `Snapshot`: what is left of `temp_fds` is still
  there, which is `ReadNeverBlocks` with the sockets and stdin added.
  `Waiting`: until it is accepted a process has been sent nothing, and what has
  arrived of it is its id and the lines it has typed. `Requests`: a command on
  the stream was typed by the process at its other end; a name in `asked` of a
  descriptor by the process that has the descriptor; a packet on the stream was
  asked for by its receiver.
* Why they need each other: the handler of an earlier descriptor could take a
  later one's bytes only if two descriptors had the same process
  (`Connections`); an accepted process cannot find packets of its predecessor
  on the descriptor because it starts with an empty stream (`Waiting`) and an
  empty `asked`; the id that arrives is one of the registry's (`Typed`, `Waiting`),
  or `Accept` would be outside its type.
* `SystemImplementsBroker`: every branch of the loop runs a handler of `Broker` on
  an argument that `Broker` knows (`HandleTcpIsAccept`, `HandleUdpIsPublish`,
  `HandleClientCases`), and no step of anybody else touches the server. So all
  that is proved of `Broker` and, through it, of `ClientRegistry` and `PubSub` holds
  of the server among its subscribers. In the other direction the proof uses
  `Broker`'s invariant (`ServerInv`), which such steps keep, for where packets go.
* `SystemTypeCorrect`, `ReadsNeverBlock` and `PrintsOnlyWhatWasAsked` follow. The last
  also needs that `Shown`, the cut at the NUL, shows nothing that was not received.
* Subscribers: each of their steps is one of six turns of one process
  (`TurnCases`), and the conjuncts are proved for a turn, not action by action.

`UdpClientProofs`, for every list, command line and bound. Assumed:
`UdpConstants` and `CommandLineAssumption` (the list holds messages). The
invariant has five parts: `TypeOK`; `Phase`, what has been checked by the time
`pc` gets somewhere; `Reports`, how `sent` and `reported` are related at each
`pc`; `AllOnce`, that `sent` is as long as the position of the `for` loop, but for
an element that could not be decoded; `Random`, that the counter is the number of
datagrams, or one behind while a report is due. `AllOnceInOrder` and `RandomCount`
are not inductive without the last two: they say nothing of the position and of
the counter. `UdpTypeCorrect`, `AllOnceSendsTheList`, `RandomSendsTheCount` and
`ReportsFollow` follow. `ManualFollowsChoices` compares what has left
with a `Filter` of all that was entered: `ChoicesAreSent` shows that an entry that is
out of range leaves the filter as it is and a valid one adds its message at the
end.

Every invariant and every action property of the passing runs, and every
refinement's safety, is a theorem. Only model-checked is what needs
fairness, which the provers cannot reach: `EndIsNoticed`, `StopReachesAll`,
`RefusedEnds`, `LinesAreTaken`, `ConnectionsAreTaken` and `StopIsHeeded` of `System`, `Terminates` of
`UdpClient`. The runs that expect a violation are TLC's by nature.

## 7. Not modelled

* `ip`, `port` and printed text: nothing reads them back.
* Regular expression metacharacters in names other than the two wildcards. The
  code does not escape them; an expression that does not parse ends the server.
* Start-up before the loop: straight-line calls that end the program on failure.
* Memory that objects of departed clients keep until the process ends.
* Failures of `select`, `recvfrom` and of the subscriber's calls other than `recv`,
  and interrupts of the server: each ends the process as the modelled failures do.
* A stream cut at any byte: a `recv` returns all that has arrived, whole messages.
  The code assumes the same, and the messages are shorter than its buffers.
* Writes before a buffer (`server.cpp`:88, 164) and reads behind it (a text that
  fills the buffer): what they hit is the compiler's choice.
* stdin of the subscriber through stdio, which reads ahead as the server's does
  (modelled there): lines typed ahead would wait for another line.
* An empty line typed at a subscriber. `readme.txt`:16 says it ends the program; the
  code sends the newline, which the server ignores.
* `test.py`, which starts and reads the programs, and the help texts of the UDP client.
