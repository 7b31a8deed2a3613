----------------------------- MODULE MCWildcard -----------------------------
(* matches_wildcard_path on every topic and every subscription up to a
   length: both grow character by character from the empty name.           *)
EXTENDS Wildcard

CONSTANTS
  Letters,       \* the characters without a meaning of their own
  MaxTopic,      \* bound on the length of a topic
  MaxWildcard    \* bound on the length of a subscription

VARIABLES topic, wildcard_topic

Init == topic = <<>> /\ wildcard_topic = <<>>

GrowTopic ==
  /\ Len(topic) < MaxTopic
  /\ \E c \in Letters \cup {"/", "\n"} : topic' = Append(topic, c)
  /\ UNCHANGED wildcard_topic

GrowWildcard ==
  /\ Len(wildcard_topic) < MaxWildcard
  /\ \E c \in Letters \cup {"/", "\n", "+", "*"} : wildcard_topic' = Append(wildcard_topic, c)
  /\ UNCHANGED topic

Next == GrowTopic \/ GrowWildcard

Spec == Init /\ [][Next]_<<topic, wildcard_topic>>

-----------------------------------------------------------------------------

\* Where the wildcards of a subscription stand for whole levels, the regular
\* expression of matches_wildcard_path accepts the topics that its levels
\* describe and no others: no segment runs over a slash, no literal is lost.
RegexIsLevelwise ==
  WellFormed(wildcard_topic) =>
    (matches_wildcard_path(topic, wildcard_topic) <=> LevelsMatch(topic, wildcard_topic))

\* A name matches itself taken as a subscription, wildcards or not: a packet
\* whose topic is in the vector already never adds it again (send_udp_packet).
NameMatchesItself == matches_wildcard_path(wildcard_topic, wildcard_topic)
=============================================================================
