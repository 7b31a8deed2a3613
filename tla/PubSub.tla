------------------------------- MODULE PubSub -------------------------------
(***************************************************************************)
(* What the server promises its subscribers, with no client objects, lists *)
(* or searches: each name is a route to at most one id, the first to enter *)
(* it, and its packets go to that id's present connection or nowhere.      *)
(* Broker implements this.                                                 *)
(***************************************************************************)
EXTENDS Naturals, Sequences, SequencesExt

CONSTANTS
  ID, FD, NULL,         \* client ids, descriptors, no id
  Name, Matches(_, _),  \* names of topics, and which of them a topic matches
  Published             \* topics of the packets

VARIABLES
  up,      \* the server runs
  holder,  \* the id that is logged in over each connection, or NULL
  routes,  \* the names in the order they came: records of a name, its owner
           \* and whether the owner is served in its present session
  sent     \* the messages of the latest event

vars == <<up, holder, routes, sent>>

Nobody == [fd \in FD |-> NULL]

Init ==
  /\ up = TRUE
  /\ holder = Nobody
  /\ routes = <<>>
  /\ sent = <<>>

-----------------------------------------------------------------------------
(* Sessions.                                                               *)

Login(id, fd) ==
  /\ up
  /\ id \notin Range(holder) /\ holder[fd] = NULL
  /\ holder' = [holder EXCEPT ![fd] = id]
  /\ sent' = <<>>
  /\ UNCHANGED <<up, routes>>

\* An id that is logged in is told so over the new connection.
Refuse(id, fd) ==
  /\ up
  /\ id \in Range(holder) /\ holder[fd] = NULL
  /\ sent' = <<[to |-> fd, what |-> "exit"]>>
  /\ UNCHANGED <<up, holder, routes>>

\* A name stays its owner's, who is not served before it subscribes again.
Logout(fd) ==
  /\ up
  /\ holder[fd] # NULL
  /\ holder' = [holder EXCEPT ![fd] = NULL]
  /\ routes' = [i \in DOMAIN routes |->
                  [routes[i] EXCEPT !.served = @ /\ routes[i].owner # holder[fd]]]
  /\ sent' = <<>>
  /\ UNCHANGED up

-----------------------------------------------------------------------------
(* Subscriptions.                                                          *)

RouteOf(name) == SelectInSeq(routes, LAMBDA r : r.name = name)

\* A name is entered by the first that asks; others are told the same.
Subscribe(fd, name) ==
  LET i    == RouteOf(name)
      mine == [name |-> name, owner |-> holder[fd], served |-> TRUE]
  IN  /\ up
      /\ holder[fd] # NULL
      /\ routes' = IF i = 0 THEN Append(routes, mine)
                   ELSE IF routes[i].owner \in {NULL, holder[fd]}
                        THEN [routes EXCEPT ![i] = mine]
                        ELSE routes
      /\ sent' = <<[to |-> fd, what |-> "Subscribed", name |-> name]>>
      /\ UNCHANGED <<up, holder>>

\* Nobody leaves a name, but one may take an entry of the owner away, and with
\* the last of them the name.
Unsubscribe(fd, name) ==
  LET i == RouteOf(name)
      Left(owner, served) == [name |-> name, owner |-> owner, served |-> served]
  IN  /\ up
      /\ holder[fd] # NULL
      /\ \/ UNCHANGED routes
         \/ /\ i # 0 /\ routes[i].owner \notin {NULL, holder[fd]}
            /\ routes' \in {[routes EXCEPT ![i] = r] :
                             r \in {Left(NULL, FALSE), Left(routes[i].owner, FALSE)}}
      /\ sent' = <<[to |-> fd, what |-> "Unsubscribed", name |-> name]>>
      /\ UNCHANGED <<up, holder>>

-----------------------------------------------------------------------------
(* Packets, and the end.                                                   *)

Route(name) == SelectInSeq(routes, LAMBDA r : Matches(name, r.name))

\* The first route that matches, and it alone; a packet without one makes one.
Publish(name) ==
  LET i == Route(name)
  IN  /\ up
      /\ routes' = IF i = 0
                   THEN Append(routes, [name |-> name, owner |-> NULL, served |-> FALSE])
                   ELSE routes
      /\ (sent' # <<>>) = (i # 0 /\ routes[i].served)
      /\ \A k \in DOMAIN sent' :
           /\ sent'[k] = [to |-> sent'[k].to, what |-> "packet", name |-> name]
           /\ holder[sent'[k].to] = routes[i].owner
      /\ UNCHANGED <<up, holder>>

\* A connection that is nobody's, or a line that is no command.
Quiet ==
  /\ up
  /\ sent' = <<>>
  /\ UNCHANGED <<up, holder, routes>>

Ends ==
  /\ up /\ up' = FALSE
  /\ holder' = Nobody
  /\ routes' = <<>>

\* Everybody who is logged in is told, once.
Stop ==
  /\ Ends
  /\ {sent'[k].to : k \in DOMAIN sent'} = {fd \in FD : holder[fd] # NULL}
  /\ \A j, k \in DOMAIN sent' : sent'[j].to = sent'[k].to => j = k
  /\ \A k \in DOMAIN sent' : sent'[k].what \in {"exit", "end"}

\* The server dies after some of the messages of a packet or of its end.
Die ==
  /\ Ends
  /\ \A k \in DOMAIN sent' :
       sent'[k].what \in {"packet", "exit", "end"} /\ holder[sent'[k].to] # NULL

Next ==
  \/ \E id \in ID, fd \in FD : Login(id, fd) \/ Refuse(id, fd)
  \/ \E fd \in FD : Logout(fd)
  \/ \E fd \in FD, name \in Name : Subscribe(fd, name) \/ Unsubscribe(fd, name)
  \/ \E name \in Published : Publish(name)
  \/ Quiet
  \/ Stop
  \/ Die

Spec == Init /\ [][Next]_vars
=============================================================================
