------------------------------ MODULE MCSystem ------------------------------
(* Two or three runs of ./subscriber, under one id or under two, one topic,  *)
(* and scenarios that each bring a part of what the users, the publisher and *)
(* the operator may do.                                                      *)
EXTENDS System, TLC

CONSTANTS s1, s2, s3

topic       == <<"a">>
subscribe   == <<"subscribe", topic>>
unsubscribe == <<"unsubscribe", topic>>
exit        == <<"exit">>
other       == <<"other">>

MCProcess == {s1, s2, s3}
MCLine    == {subscribe, unsubscribe, exit, other}

\* The ids under which processes are started; who types at most n1 and n2 lines, how
\* many lines may wait at the server, how many packets are sent.
Scene(ids, lines1, n1, lines2, n2, at_server, packets) ==
  [id : {(s1 :> ids[1]) @@ (s2 :> ids[2]) @@ (s3 :> Last(ids))},
   user : {(s1 :> [comes |-> TRUE, lines |-> lines1, max |-> n1]) @@
           (s2 :> [comes |-> TRUE, lines |-> lines2, max |-> n2]) @@
           (s3 :> [comes |-> Len(ids) = 3, lines |-> {}, max |-> 0])},
   ahead : {at_server}, nr_packets : {packets}]

One   == <<"A", "A">>
Two   == <<"A", "B">>
Three == <<"A", "B", "B">>

\* One id twice, and a packet; two lines that come together; a packet and the end
\* of the server; lines typed ahead at the server; the other commands; more
\* processes than descriptors.
MCScenario ==
       Scene(One, {subscribe, exit}, 1, {subscribe}, 1, 0, 1)
  \cup Scene(Two, {subscribe, exit}, 2, {}, 0, 0, 1)
  \cup Scene(Two, {subscribe}, 1, {}, 0, 1, 1)
  \cup Scene(One, {}, 0, {}, 0, 2, 0)
  \cup Scene(Two, {unsubscribe}, 1, {other, exit}, 1, 0, 0)
  \cup Scene(Three, {}, 0, {}, 0, 0, 0)

Beginnings  == {<<>>} \cup {<<<<"id", i>>>> : i \in {"A", "B"}}
MCID        == {b \o l : b \in Beginnings, l \in UNION {[1..n -> MCLine] : n \in 0..2}}
MCFD        == 5..6
MCClient    == 1..3
MCName      == {topic, Append(topic, "exit")}
MCPublished == {topic}
SameName(n, m) == n = m
=============================================================================
