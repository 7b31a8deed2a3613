-------------------------- MODULE TopicTableProofs --------------------------
(***************************************************************************)
(* What the three functions on the vector of topics preserve, for every    *)
(* set of names and of clients and every matching.  The searches are first *)
(* brought to a form without a test as argument: the least index of a set. *)
(***************************************************************************)
EXTENDS TopicTable, SelectionProofs, TLAPS, WellFoundedInduction, SequenceTheorems

\* The names of the vector are distinct.
Unique == \A i, j \in DOMAIN topics : topics[i].name = topics[j].name => i = j

\* All the entries of a topic are of one id.
Owned ==
  \A i \in DOMAIN topics :
    \A p, q \in Range(topics[i].subscribers) : clients[p].id = clients[q].id

\* A step adds no entry but one of p to the topic of a name, and that only if the
\* entries there are of p's id.
EntersOnly(p, name) ==
  \A i \in DOMAIN topics' :
    \A q \in Range(topics'[i].subscribers) :
      \/ i \in DOMAIN topics /\ q \in Range(topics[i].subscribers)
      \/ /\ q = p /\ topics'[i].name = name
         /\ i \in DOMAIN topics =>
              \A r \in Range(topics[i].subscribers) : clients[r].id = clients[p].id

\* A step adds no entry.
EntersNone ==
  \A i \in DOMAIN topics' :
    \A q \in Range(topics'[i].subscribers) :
      i \in DOMAIN topics /\ q \in Range(topics[i].subscribers)

\* A step keeps the names where they are; new ones come after them.
NamesStay ==
  /\ Len(topics) <= Len(topics')
  /\ \A i \in DOMAIN topics : topics'[i].name = topics[i].name

FirstOf(I) == IF I # {} THEN Min(I) ELSE 0

-----------------------------------------------------------------------------
(* The searches.                                                           *)

LEMMA MinOf ==
  ASSUME NEW S \in SUBSET Nat, S # {}
  PROVE  Min(S) \in S /\ \A n \in S : Min(S) <= n
<1>1. PICK m \in S : \A n \in S : ~(<<n, m>> \in OpToRel(<, Nat))
  BY NatLessThanWellFounded, WFMin
<1>2. \A n \in S : ~(n < m)
  BY <1>1, Zenon DEF OpToRel
<1>3. \A n \in S : m <= n
  BY <1>2
<1>4. QED  BY <1>3, Zenon DEF Min

LEMMA FirstOfProperties ==
  ASSUME NEW n \in Nat, NEW I \in SUBSET (1..n)
  PROVE  /\ FirstOf(I) \in 0..n
         /\ FirstOf(I) = 0 <=> I = {}
         /\ FirstOf(I) # 0 => FirstOf(I) \in I /\ \A j \in I : FirstOf(I) <= j
<1>1. I # {} => Min(I) \in I /\ \A j \in I : Min(I) <= j
  BY MinOf
<1>2. CASE I = {}
  BY <1>2 DEF FirstOf
<1>3. CASE I # {}
  <2>1. FirstOf(I) = Min(I)
    BY <1>3 DEF FirstOf
  <2>2. FirstOf(I) \in I /\ \A j \in I : FirstOf(I) <= j
    BY <1>1, <1>3, <2>1
  <2>3. FirstOf(I) \in 1..n
    BY <2>2, Zenon
  <2>4. FirstOf(I) \in 0..n /\ FirstOf(I) # 0
    BY <2>3
  <2>5. QED  BY <1>3, <2>2, <2>4
<1>4. QED  BY <1>2, <1>3

LEMMA ExactIndex ==
  ASSUME TypeOK, NEW name \in Name
  PROVE  /\ exact_topic_index(name) \in 0..Len(topics)
         /\ exact_topic_index(name) = 0 => \A i \in DOMAIN topics : topics[i].name # name
         /\ exact_topic_index(name) # 0 => topics[exact_topic_index(name)].name = name
<1> DEFINE I == {i \in 1..Len(topics) : topics[i].name = name}
<1>1. exact_topic_index(name) = FirstOf(I)
  BY DEF exact_topic_index, SelectInSeq, FirstOf
<1>2. Len(topics) \in Nat /\ DOMAIN topics = 1..Len(topics)
  BY DEF TypeOK
<1> HIDE DEF I
<1>3. I \in SUBSET (1..Len(topics))
  BY DEF I
<1>4. QED  BY <1>1, <1>2, <1>3, FirstOfProperties DEF I

LEMMA MatchingIndex ==
  ASSUME TypeOK, NEW name \in Name
  PROVE  /\ matching_topic_index(name) \in 0..Len(topics)
         /\ matching_topic_index(name) = 0 =>
              \A i \in DOMAIN topics : ~Matches(name, topics[i].name)
         /\ matching_topic_index(name) # 0 =>
              /\ Matches(name, topics[matching_topic_index(name)].name)
              /\ \A i \in DOMAIN topics :
                   Matches(name, topics[i].name) => matching_topic_index(name) <= i
<1> DEFINE I == {i \in 1..Len(topics) : Matches(name, topics[i].name)}
<1>1. matching_topic_index(name) = FirstOf(I)
  BY DEF matching_topic_index, SelectInSeq, FirstOf
<1>2. Len(topics) \in Nat /\ DOMAIN topics = 1..Len(topics)
  BY DEF TypeOK
<1> HIDE DEF I
<1>3. I \in SUBSET (1..Len(topics))
  BY DEF I
<1>4. QED  BY <1>1, <1>2, <1>3, FirstOfProperties DEF I

\* The inverted comparison: what is found is an entry of another id, and nothing
\* is found only when there is no such entry.
LEMMA SubscriberIndex ==
  ASSUME NEW topic \in Topic, NEW client_id
  PROVE  /\ get_subscriber_index(client_id, topic) \in 0..Len(topic.subscribers)
         /\ get_subscriber_index(client_id, topic) = 0 =>
              \A p \in Range(topic.subscribers) : clients[p].id = client_id
         /\ get_subscriber_index(client_id, topic) # 0 =>
              \E p \in Range(topic.subscribers) : clients[p].id # client_id
<1> DEFINE s == topic.subscribers
           I == {i \in 1..Len(s) : clients[s[i]].id # client_id}
<1>1. get_subscriber_index(client_id, topic) = FirstOf(I)
  BY DEF get_subscriber_index, SelectInSeq, FirstOf
<1>2. s \in Seq(Client)
  BY DEF Topic
<1>3. Len(s) \in Nat /\ DOMAIN s = 1..Len(s)
  BY <1>2
<1>4. I \in SUBSET (1..Len(s))
  OBVIOUS
<1>5. FirstOf(I) \in 0..Len(s) /\ (FirstOf(I) = 0 <=> I = {})
  BY <1>3, <1>4, FirstOfProperties
<1>6. I = {} => \A p \in Range(s) : clients[p].id = client_id
  BY <1>3 DEF Range
<1>7. I # {} => \E p \in Range(s) : clients[p].id # client_id
  BY <1>3 DEF Range
<1>8. QED  BY <1>1, <1>5, <1>6, <1>7

-----------------------------------------------------------------------------
(* The changes.                                                            *)

\* RemoveAt leaves a sequence of elements that were there.
LEMMA RemoveAtProperties ==
  ASSUME NEW S, NEW s \in Seq(S), NEW i \in 1..Len(s)
  PROVE  RemoveAt(s, i) \in Seq(S) /\ Range(RemoveAt(s, i)) \subseteq Range(s)
<1> DEFINE a == SubSeq(s, 1, i - 1)
           b == SubSeq(s, i + 1, Len(s))
<1>0. /\ Len(s) \in Nat /\ DOMAIN s = 1..Len(s)
      /\ i \in Nat /\ i >= 1 /\ i <= Len(s)
  OBVIOUS
<1>1. a \in Seq(S) /\ Len(a) = i - 1 /\ \A k \in 1..Len(a) : a[k] = s[k]
  OBVIOUS
<1>2. b \in Seq(S) /\ Len(b) = Len(s) - i /\ \A k \in 1..Len(b) : b[k] = s[k + i]
  OBVIOUS
<1> HIDE DEF a, b
<1>3. /\ a \o b \in Seq(S) /\ Len(a \o b) = Len(a) + Len(b)
      /\ \A k \in 1..Len(a) + Len(b) :
           (a \o b)[k] = IF k <= Len(a) THEN a[k] ELSE b[k - Len(a)]
  BY <1>1, <1>2, ConcatProperties
<1>4. Len(a \o b) = Len(s) - 1 /\ DOMAIN (a \o b) = 1..(Len(s) - 1)
  <2>1. Len(a) + Len(b) = Len(s) - 1
    BY <1>0, <1>1, <1>2
  <2>2. \A t \in Seq(S) : DOMAIN t = 1..Len(t)
    OBVIOUS
  <2>3. QED  BY <1>3, <2>1, <2>2, Zenon
<1>5. ASSUME NEW k \in 1..(Len(s) - 1)
      PROVE  (a \o b)[k] \in Range(s)
  <2>1. CASE k <= Len(a)
    <3>1. (a \o b)[k] = s[k] /\ k \in DOMAIN s
      BY <1>0, <1>1, <1>2, <1>3, <2>1
    <3>2. QED  BY <3>1 DEF Range
  <2>2. CASE k > Len(a)
    <3>1. k - Len(a) \in 1..Len(b) /\ k + 1 \in DOMAIN s /\ (k - Len(a)) + i = k + 1
      BY <1>0, <1>1, <1>2, <2>2
    <3>2. (a \o b)[k] = b[k - Len(a)]
      BY <1>0, <1>1, <1>2, <1>3, <2>2
    <3>3. b[k - Len(a)] = s[(k - Len(a)) + i]
      BY <1>2, <3>1
    <3>4. QED  BY <3>1, <3>2, <3>3 DEF Range
  <2>3. k <= Len(a) \/ k > Len(a)
    BY <1>0, <1>1
  <2>4. QED  BY <2>1, <2>2, <2>3
<1>6. RemoveAt(s, i) = a \o b
  BY DEF RemoveAt, a, b
<1>7. QED  BY <1>3, <1>4, <1>5, <1>6 DEF Range

\* A new topic at the end, or an old vector with the subscribers of one changed.
LEMMA AppendTopic ==
  ASSUME TypeOK, Unique, NEW name \in Name, NEW s \in Seq(Client),
         \A i \in DOMAIN topics : topics[i].name # name,
         topics' = Append(topics, [name |-> name, subscribers |-> s])
  PROVE  TypeOK' /\ Unique' /\ NamesStay
<1>1. [name |-> name, subscribers |-> s] \in Topic
  BY DEF Topic
<1>2. TypeOK'
  BY <1>1 DEF TypeOK
<1>3. /\ Len(topics') = Len(topics) + 1 /\ Len(topics) \in Nat
      /\ DOMAIN topics' = 1..Len(topics') /\ DOMAIN topics = 1..Len(topics)
      /\ \A i \in 1..Len(topics) : topics'[i] = topics[i]
      /\ topics'[Len(topics')].name = name
  BY DEF TypeOK
<1>4. Unique'
  <2> SUFFICES ASSUME NEW i \in DOMAIN topics', NEW j \in DOMAIN topics',
                      topics'[i].name = topics'[j].name
               PROVE  i = j
    BY DEF Unique
  <2>1. CASE i \in DOMAIN topics /\ j \in DOMAIN topics
    BY <1>3, <2>1 DEF Unique
  <2>2. CASE i \notin DOMAIN topics \/ j \notin DOMAIN topics
    BY <1>3, <2>2
  <2>3. QED  BY <2>1, <2>2
<1>5. QED  BY <1>2, <1>3, <1>4 DEF NamesStay

LEMMA ChangeSubscribers ==
  ASSUME TypeOK, Unique, NEW i \in DOMAIN topics, NEW s \in Seq(Client),
         topics' = [topics EXCEPT ![i].subscribers = s]
  PROVE  /\ TypeOK' /\ Unique' /\ NamesStay
         /\ DOMAIN topics' = DOMAIN topics
         /\ topics'[i].subscribers = s
         /\ \A j \in DOMAIN topics : j # i => topics'[j] = topics[j]
<1>1. /\ Len(topics) \in Nat /\ DOMAIN topics = 1..Len(topics)
      /\ \A j \in DOMAIN topics : topics[j] \in Topic
  BY DEF TypeOK
<1>2. /\ DOMAIN topics' = DOMAIN topics
      /\ \A j \in DOMAIN topics : j # i => topics'[j] = topics[j]
      /\ topics'[i] = [topics[i] EXCEPT !.subscribers = s]
  BY <1>1
<1>3. topics'[i] \in Topic /\ topics'[i].name = topics[i].name /\ topics'[i].subscribers = s
  BY <1>1, <1>2 DEF Topic
<1>4. topics' \in Seq(Topic) /\ Len(topics') = Len(topics)
  BY <1>1, <1>2, <1>3 DEF TypeOK
<1>5. \A j \in DOMAIN topics : topics'[j].name = topics[j].name
  BY <1>2, <1>3
<1>6. Unique'
  BY <1>2, <1>5 DEF Unique
<1>7. QED  BY <1>1, <1>2, <1>3, <1>4, <1>5, <1>6 DEF TypeOK, NamesStay

\* A vector that stays as it is.
LEMMA TableUnchanged ==
  ASSUME TypeOK, Unique, topics' = topics
  PROVE  TypeOK' /\ Unique' /\ NamesStay
<1>1. Len(topics) \in Nat
  BY DEF TypeOK
<1>2. QED  BY <1>1 DEF TypeOK, Unique, NamesStay

\* What subscribe_client does: a topic of its own, nothing for a name that is
\* another id's, or one more entry.
LEMMA SubscribeCases ==
  ASSUME TypeOK, NEW p \in Client, NEW name \in Name, subscribe_client(p, name)
  PROVE  LET e == exact_topic_index(name)
         IN  \/ /\ e = 0
                /\ topics' = Append(topics, [name |-> name, subscribers |-> <<p>>])
             \/ /\ e # 0 /\ e \in DOMAIN topics /\ topics[e] \in Topic
                /\ topics[e].name = name
                /\ \/ /\ \E r \in Range(topics[e].subscribers) : clients[r].id # clients[p].id
                      /\ topics' = topics
                   \/ /\ \A r \in Range(topics[e].subscribers) : clients[r].id = clients[p].id
                      /\ topics' = [topics EXCEPT ![e].subscribers = Append(@, p)]
<1> DEFINE table == WithTopic(name)
           i     == IndexWithTopic(name)
           e     == exact_topic_index(name)
           found == get_subscriber_index(clients[p].id, table[i])
<1>0. topics' = IF found # 0 THEN table
                ELSE [table EXCEPT ![i].subscribers = Append(@, p)]
  BY DEF subscribe_client
<1>1. Len(topics) \in Nat /\ DOMAIN topics = 1..Len(topics)
  BY DEF TypeOK
<1>2. CASE e = 0
  <2> DEFINE new == [name |-> name, subscribers |-> <<>>]
  <2>1. new \in Topic /\ Append(topics, new) \in Seq(Topic)
    BY DEF Topic, TypeOK
  <2>2. table = Append(topics, new) /\ i = Len(topics) + 1
    BY <1>2 DEF WithTopic, IndexWithTopic
  <2>3. table[i] = new
    BY <1>1, <2>1, <2>2 DEF TypeOK
  <2>4. found = 0
    BY <2>1, <2>3, SubscriberIndex
  <2>5. [name |-> name, subscribers |-> <<p>>] \in Topic
    BY DEF Topic
  <2>6. topics' = Append(topics, [name |-> name, subscribers |-> <<p>>])
    <3> DEFINE entered == [name |-> name, subscribers |-> <<p>>]
               before  == Append(topics, new)
               after   == Append(topics, entered)
    <3>1. [new EXCEPT !.subscribers = Append(@, p)] = entered
      OBVIOUS
    <3> HIDE DEF new, entered
    <3>2. /\ before \in Seq(Topic) /\ Len(before) = Len(topics) + 1
          /\ DOMAIN before = 1..Len(before) /\ before[Len(topics) + 1] = new
          /\ \A j \in 1..Len(topics) : before[j] = topics[j]
      BY <1>1, <2>1 DEF TypeOK
    <3>3. /\ after \in Seq(Topic) /\ Len(after) = Len(topics) + 1
          /\ DOMAIN after = 1..Len(after) /\ after[Len(topics) + 1] = entered
          /\ \A j \in 1..Len(topics) : after[j] = topics[j]
      BY <1>1, <2>5 DEF TypeOK, entered
    <3> HIDE DEF before, after
    <3>4. topics' = [before EXCEPT ![Len(topics) + 1] = entered]
      BY <1>0, <2>2, <2>4, <3>1, <3>2 DEF before
    <3>5. topics' = [j \in 1..(Len(topics) + 1) |-> after[j]]
      <4>1. DOMAIN topics' = 1..(Len(topics) + 1)
        BY <3>2, <3>4
      <4>2. \A j \in 1..(Len(topics) + 1) :
              topics'[j] = IF j = Len(topics) + 1 THEN entered ELSE before[j]
        BY <3>2, <3>4
      <4>3. \A j \in 1..(Len(topics) + 1) : j = Len(topics) + 1 \/ j \in 1..Len(topics)
        BY <1>1
      <4>4. \A j \in 1..(Len(topics) + 1) : topics'[j] = after[j]
        BY <3>2, <3>3, <4>2, <4>3
      <4>5. topics' = [j \in DOMAIN topics' |-> topics'[j]]
        BY <3>4, Zenon
      <4>6. QED  BY <4>1, <4>4, <4>5
    <3>6. after = [j \in 1..(Len(topics) + 1) |-> after[j]]
      BY <3>3
    <3>7. QED  BY <3>5, <3>6 DEF after, entered
  <2>7. QED  BY <1>2, <2>6
<1>3. CASE e # 0
  <2>1. /\ table = topics /\ i = e /\ i \in DOMAIN topics /\ topics[i] \in Topic
        /\ topics[i].name = name
    BY <1>1, <1>3, ExactIndex DEF WithTopic, IndexWithTopic, TypeOK
  <2>2. CASE found # 0
    <3>1. topics' = topics
      BY <1>0, <2>1, <2>2
    <3>2. \E r \in Range(topics[i].subscribers) : clients[r].id # clients[p].id
      BY <2>1, <2>2, SubscriberIndex
    <3>3. QED  BY <1>3, <2>1, <3>1, <3>2
  <2>3. CASE found = 0
    <3>1. topics' = [topics EXCEPT ![i].subscribers = Append(@, p)]
      BY <1>0, <2>1, <2>3
    <3>2. \A r \in Range(topics[i].subscribers) : clients[r].id = clients[p].id
      BY <2>1, <2>3, SubscriberIndex
    <3>3. QED  BY <1>3, <2>1, <3>1, <3>2
  <2>4. QED  BY <2>2, <2>3
<1>4. QED  BY <1>2, <1>3

\* subscribe_client enters a client only into a topic of its own id: its search
\* for the subscriber stops at an entry of any other.
LEMMA SubscribePreserves ==
  ASSUME TypeOK, Unique, NEW p \in Client, NEW name \in Name,
         subscribe_client(p, name)
  PROVE  TypeOK' /\ Unique' /\ NamesStay /\ EntersOnly(p, name)
<1> DEFINE e == exact_topic_index(name)
<1>1. CASE /\ e = 0
           /\ topics' = Append(topics, [name |-> name, subscribers |-> <<p>>])
  <2>1. [name |-> name, subscribers |-> <<p>>] \in Topic
    BY DEF Topic
  <2>2. \A j \in DOMAIN topics : topics[j].name # name
    BY <1>1, ExactIndex
  <2>3. TypeOK' /\ Unique' /\ NamesStay
    <3>1. <<p>> \in Seq(Client)
      OBVIOUS
    <3>2. QED  BY <1>1, <2>2, <3>1, AppendTopic
  <2>4. EntersOnly(p, name)
    BY <1>1, <2>1 DEF EntersOnly, Range, TypeOK
  <2>5. QED  BY <2>3, <2>4
<1>2. CASE topics' = topics
  BY <1>2, TableUnchanged DEF EntersOnly
<1>3. CASE /\ e \in DOMAIN topics /\ topics[e] \in Topic /\ topics[e].name = name
           /\ \A r \in Range(topics[e].subscribers) : clients[r].id = clients[p].id
           /\ topics' = [topics EXCEPT ![e].subscribers = Append(@, p)]
  <2> DEFINE s == Append(topics[e].subscribers, p)
  <2>1. topics[e].subscribers \in Seq(Client) /\ s \in Seq(Client)
    BY <1>3 DEF Topic
  <2>2. topics' = [topics EXCEPT ![e].subscribers = s]
    BY <1>3
  <2>3. /\ TypeOK' /\ Unique' /\ NamesStay
        /\ DOMAIN topics' = DOMAIN topics
        /\ topics'[e].subscribers = s
        /\ \A j \in DOMAIN topics : j # e => topics'[j] = topics[j]
    BY <1>3, <2>1, <2>2, ChangeSubscribers
  <2>4. \A q \in Range(s) : q = p \/ q \in Range(topics[e].subscribers)
    BY <2>1 DEF Range
  <2>5. topics'[e].name = name
    BY <1>3, <2>3 DEF NamesStay
  <2>6. EntersOnly(p, name)
    BY <1>3, <2>3, <2>4, <2>5 DEF EntersOnly
  <2>7. QED  BY <2>3, <2>6
<1>4. QED  BY <1>1, <1>2, <1>3, SubscribeCases

\* What unsubscribe_client does: nothing, or it takes one entry out of a topic
\* that has an entry of another id.
LEMMA UnsubscribeCases ==
  ASSUME TypeOK, NEW p \in Client, NEW name \in Name, unsubscribe_client(p, name)
  PROVE  LET e == exact_topic_index(name)
         IN  \/ topics' = topics
             \/ /\ e # 0 /\ e \in DOMAIN topics /\ topics[e] \in Topic
                /\ topics[e].name = name
                /\ \E r \in Range(topics[e].subscribers) : clients[r].id # clients[p].id
                /\ \E s \in Seq(Client) :
                     /\ Range(s) \subseteq Range(topics[e].subscribers)
                     /\ topics' = [topics EXCEPT ![e].subscribers = s]
<1> DEFINE i == exact_topic_index(name)
           k == IF i = 0 THEN 0 ELSE get_subscriber_index(clients[p].id, topics[i])
<1>0. topics' = IF k = 0 THEN topics
                ELSE [topics EXCEPT ![i].subscribers = RemoveAt(@, k)]
  BY DEF unsubscribe_client
<1>1. Len(topics) \in Nat /\ DOMAIN topics = 1..Len(topics)
  BY DEF TypeOK
<1>2. CASE k = 0
  BY <1>0, <1>2
<1>3. CASE k # 0
  <2> DEFINE old == topics[i].subscribers
             s   == RemoveAt(old, k)
  <2>1. /\ i # 0 /\ i \in DOMAIN topics /\ topics[i] \in Topic /\ topics[i].name = name
        /\ old \in Seq(Client)
    <3>1. i # 0 /\ i \in 0..Len(topics) /\ topics[i].name = name
      BY <1>3, ExactIndex
    <3> HIDE DEF i
    <3>2. i \in DOMAIN topics
      BY <1>1, <3>1
    <3>3. topics[i] \in Topic
      BY <3>2 DEF TypeOK
    <3>4. QED  BY <3>1, <3>2, <3>3 DEF Topic
  <2>2. k \in 1..Len(old) /\ \E r \in Range(old) : clients[r].id # clients[p].id
    <3>1. k \in 0..Len(old) /\ \E r \in Range(old) : clients[r].id # clients[p].id
      BY <1>3, <2>1, SubscriberIndex
    <3>2. Len(old) \in Nat
      BY <2>1
    <3>3. QED  BY <1>3, <3>1, <3>2
  <2>3. s \in Seq(Client) /\ Range(s) \subseteq Range(old)
    BY <2>1, <2>2, RemoveAtProperties
  <2>4. topics' = [topics EXCEPT ![i].subscribers = s]
    BY <1>0, <1>3
  <2> HIDE DEF s, k
  <2>5. QED  BY <2>1, <2>2, <2>3, <2>4
<1>4. QED  BY <1>2, <1>3

LEMMA UnsubscribePreserves ==
  ASSUME TypeOK, Unique, NEW p \in Client, NEW name \in Name,
         unsubscribe_client(p, name)
  PROVE  TypeOK' /\ Unique' /\ NamesStay /\ EntersNone
<1> DEFINE i == exact_topic_index(name)
<1>1. CASE topics' = topics
  BY <1>1, TableUnchanged DEF EntersNone
<1>2. ASSUME i \in DOMAIN topics,
             NEW s \in Seq(Client), Range(s) \subseteq Range(topics[i].subscribers),
             topics' = [topics EXCEPT ![i].subscribers = s]
      PROVE  TypeOK' /\ Unique' /\ NamesStay /\ EntersNone
  <2>1. /\ TypeOK' /\ Unique' /\ NamesStay
        /\ DOMAIN topics' = DOMAIN topics
        /\ topics'[i].subscribers = s
        /\ \A j \in DOMAIN topics : j # i => topics'[j] = topics[j]
    BY <1>2, ChangeSubscribers
  <2>2. EntersNone
    BY <1>2, <2>1 DEF EntersNone
  <2>3. QED  BY <2>1, <2>2
<1>3. QED  BY <1>1, <1>2, UnsubscribeCases

\* send_udp_packet pushes a name that no topic has: since a name matches itself,
\* one that matches nothing is new.
LEMMA PacketPreserves ==
  ASSUME TypeOK, Unique, NEW name \in Name, Matches(name, name),
         send_udp_packet(name)
  PROVE  TypeOK' /\ Unique' /\ NamesStay /\ EntersNone
<1>1. CASE matching_topic_index(name) = 0
  <2>1. topics' = Append(topics, [name |-> name, subscribers |-> <<>>])
    BY <1>1 DEF send_udp_packet
  <2>2. \A i \in DOMAIN topics : topics[i].name # name
    BY <1>1, MatchingIndex
  <2>3. TypeOK' /\ Unique' /\ NamesStay
    <3>1. <<>> \in Seq(Client)
      OBVIOUS
    <3>2. QED  BY <2>1, <2>2, <3>1, AppendTopic
  <2>4. [name |-> name, subscribers |-> <<>>] \in Topic
    BY DEF Topic
  <2>5. EntersNone
    BY <2>1, <2>4 DEF EntersNone, Range, TypeOK
  <2>6. QED  BY <2>3, <2>5
<1>2. CASE matching_topic_index(name) # 0
  <2>1. topics' = topics
    BY <1>2 DEF send_udp_packet
  <2>2. QED  BY <2>1, TableUnchanged DEF EntersNone
<1>3. QED  BY <1>1, <1>2

-----------------------------------------------------------------------------
(* What follows.                                                           *)

\* One owner stays one owner, if the entries there are keep their ids.
LEMMA OwnerStays ==
  ASSUME Owned, NEW p, NEW name, EntersOnly(p, name), UNCHANGED clients
  PROVE  Owned'
BY DEF Owned, EntersOnly

\* A route stays: the first match of the vector is not overtaken.
LEMMA RouteStays ==
  ASSUME TypeOK, TypeOK', NamesStay, NEW name \in Name,
         matching_topic_index(name) # 0
  PROVE  matching_topic_index(name)' = matching_topic_index(name)
<1> DEFINE I == {i \in 1..Len(topics) : Matches(name, topics[i].name)}
           J == {i \in 1..Len(topics') : Matches(name, topics'[i].name)}
<1>1. matching_topic_index(name) = FirstOf(I)
  BY DEF matching_topic_index, SelectInSeq, FirstOf
<1>2. matching_topic_index(name)' = FirstOf(J)
  BY DEF matching_topic_index, SelectInSeq, FirstOf
<1>3. /\ Len(topics) \in Nat /\ Len(topics') \in Nat /\ Len(topics) <= Len(topics')
      /\ DOMAIN topics = 1..Len(topics)
  BY DEF TypeOK, NamesStay
<1>4. /\ I \in SUBSET (1..Len(topics)) /\ J \in SUBSET (1..Len(topics'))
      /\ I \subseteq J
      /\ \A j \in J : j <= Len(topics) => j \in I
  BY <1>3 DEF NamesStay
<1> HIDE DEF I, J
<1>5. FirstOf(I) \in I /\ \A j \in I : FirstOf(I) <= j
  BY <1>1, <1>3, <1>4, FirstOfProperties
<1>6. J # {}
  BY <1>4, <1>5
<1>7. FirstOf(J) \in J /\ \A j \in J : FirstOf(J) <= j
  BY <1>3, <1>4, <1>6, FirstOfProperties
<1>8. FirstOf(I) \in J /\ FirstOf(I) \in 1..Len(topics) /\ FirstOf(J) \in 1..Len(topics')
  BY <1>4, <1>5, <1>7, Zenon
<1>9. FirstOf(J) <= FirstOf(I)
  BY <1>7, <1>8
<1>10. FirstOf(J) <= Len(topics)
  BY <1>3, <1>8, <1>9
<1>11. FirstOf(I) <= FirstOf(J)
  BY <1>4, <1>5, <1>7, <1>10
<1>12. FirstOf(I) = FirstOf(J)
  BY <1>3, <1>8, <1>9, <1>11
<1>13. QED  BY <1>1, <1>2, <1>12

\* The loop of send_udp_packet writes to the sockets of the online entries of the
\* topic it has found, and of no others.
LEMMA ReceiversProperties ==
  ASSUME TypeOK, NEW name \in Name
  PROVE  LET i == matching_topic_index(name)
             e == IF i = 0 THEN {} ELSE Range(topics[i].subscribers)
         IN  /\ \E n \in Nat : DOMAIN Receivers(name) = 1..n
             /\ Receivers(name) = [k \in DOMAIN Receivers(name) |-> Receivers(name)[k]]
             /\ \A k \in DOMAIN Receivers(name) :
                  \E p \in e : /\ p \in Client /\ clients[p].is_online
                               /\ Receivers(name)[k] = clients[p].socket
             /\ (\E p \in e : clients[p].is_online) => Receivers(name) # <<>>
<1> DEFINE i == matching_topic_index(name)
           online == Filter(topics[i].subscribers, {p \in Client : clients[p].is_online})
<1>1. CASE i = 0
  <2>1. Receivers(name) = <<>>
    BY <1>1 DEF Receivers
  <2>2. DOMAIN Receivers(name) = 1..0 /\ 1..0 = {}
    BY <2>1
  <2>3. Receivers(name) = [k \in DOMAIN Receivers(name) |-> Receivers(name)[k]]
    BY <2>1, <2>2
  <2>4. \E n \in Nat : DOMAIN Receivers(name) = 1..n
    BY <2>2
  <2>5. DOMAIN Receivers(name) = {}
    BY <2>2
  <2> HIDE DEF i
  <2>6. QED  BY <1>1, <2>3, <2>4, <2>5, Zenon DEF i
<1>2. CASE i # 0
  <2>1. topics[i].subscribers \in Seq(Client)
    <3>1. i \in 0..Len(topics) /\ Len(topics) \in Nat /\ DOMAIN topics = 1..Len(topics)
      BY MatchingIndex DEF TypeOK
    <3> HIDE DEF i
    <3>2. i \in DOMAIN topics
      BY <1>2, <3>1
    <3>3. topics[i] \in Topic
      BY <3>2 DEF TypeOK
    <3>4. QED  BY <3>3 DEF Topic
  <2>2. /\ online \in Seq(Client)
        /\ Range(online) = Range(topics[i].subscribers)
                             \cap {p \in Client : clients[p].is_online}
    BY <2>1, FilterProperties
  <2>3. Receivers(name) = [k \in DOMAIN online |-> clients[online[k]].socket]
    BY <1>2 DEF Receivers
  <2>4. Range(topics[i].subscribers) \subseteq Client
    BY <2>1 DEF Range
  <2> HIDE DEF online, i
  <2>5. Len(online) \in Nat /\ DOMAIN online = 1..Len(online)
    BY <2>2
  <2>6. DOMAIN Receivers(name) = 1..Len(online)
    BY <2>3, <2>5
  <2>7. ASSUME NEW k \in DOMAIN Receivers(name)
        PROVE  \E p \in Range(topics[i].subscribers) :
                 /\ p \in Client /\ clients[p].is_online
                 /\ Receivers(name)[k] = clients[p].socket
    <3>1. k \in DOMAIN online /\ online[k] \in Range(online)
      BY <2>5, <2>6 DEF Range
    <3>2. Receivers(name)[k] = clients[online[k]].socket
      BY <2>3, <3>1
    <3>3. QED  BY <2>2, <3>1, <3>2
  <2>8. ASSUME NEW p \in Range(topics[i].subscribers), clients[p].is_online
        PROVE  Receivers(name) # <<>>
    <3>1. PICK k \in DOMAIN online : online[k] = p
      BY <2>2, <2>4, <2>8 DEF Range
    <3>2. DOMAIN Receivers(name) # {}
      BY <2>3, <3>1
    <3>3. QED  BY <3>2
  <2>9. Receivers(name) = [k \in DOMAIN Receivers(name) |-> Receivers(name)[k]]
    BY <2>3
  <2>10. QED  BY <1>2, <2>5, <2>6, <2>7, <2>8, <2>9 DEF i
<1>3. QED  BY <1>1, <1>2
=============================================================================
