--------------------------- MODULE WildcardProofs ---------------------------
(***************************************************************************)
(* The matching of topics, for every topic and every subscription.  A      *)
(* match is a cut of the topic into one part per character: the recursive  *)
(* function computes whether there is one.                                 *)
(***************************************************************************)
EXTENDS MCWildcard, SelectionProofs, TLAPS

\* The equation of the function in matches_wildcard_path.
Solves(m, t, w) ==
  m = [j \in 1..Len(w) + 1 |->
         [i \in 1..Len(t) + 1 |->
            IF j > Len(w)
            THEN i > Len(t)
            ELSE \E k \in i..Len(t) + 1 :
                   Covers(w[j], SubSeq(t, i, k - 1)) /\ m[j + 1][k]]]

\* c cuts the topic from i on for the characters from j on: c[l] is where the
\* part of the l-th begins.
IsCut(c, t, w, i, j) ==
  /\ c \in [j..Len(w) + 1 -> 1..Len(t) + 1]
  /\ c[j] = i /\ c[Len(w) + 1] = Len(t) + 1
  /\ \A l \in j..Len(w) :
       c[l] <= c[l + 1] /\ Covers(w[l], SubSeq(t, c[l], c[l + 1] - 1))

HasCut(t, w, i, j) == \E c : IsCut(c, t, w, i, j)

-----------------------------------------------------------------------------
LEMMA CutEnds ==
  ASSUME NEW t, NEW w, Len(t) \in Nat, Len(w) \in Nat, NEW i \in 1..Len(t) + 1
  PROVE  HasCut(t, w, i, Len(w) + 1) <=> i > Len(t)
<1> DEFINE n == Len(w) + 1
           c == [l \in n..n |-> i]
<1>1. n..n = {n} /\ n..Len(w) = {}
  OBVIOUS
<1>2. ASSUME i > Len(t) PROVE IsCut(c, t, w, i, n)
  BY <1>1, <1>2 DEF IsCut
<1>3. ASSUME HasCut(t, w, i, n) PROVE i > Len(t)
  BY <1>3 DEF HasCut, IsCut
<1>4. QED  BY <1>2, <1>3 DEF HasCut

LEMMA CutGoesOn ==
  ASSUME NEW t, NEW w, Len(t) \in Nat, Len(w) \in Nat,
         NEW i \in 1..Len(t) + 1, NEW j \in 1..Len(w)
  PROVE  HasCut(t, w, i, j) <=>
           \E k \in i..Len(t) + 1 :
             Covers(w[j], SubSeq(t, i, k - 1)) /\ HasCut(t, w, k, j + 1)
<1>1. ASSUME NEW c, IsCut(c, t, w, i, j)
      PROVE  \E k \in i..Len(t) + 1 :
               Covers(w[j], SubSeq(t, i, k - 1)) /\ HasCut(t, w, k, j + 1)
  <2> DEFINE k == c[j + 1]
             d == [l \in j + 1..Len(w) + 1 |-> c[l]]
  <2>1. j \in j..Len(w) /\ j + 1 \in j..Len(w) + 1 /\ Len(w) + 1 \in j + 1..Len(w) + 1
    OBVIOUS
  <2>2. k \in i..Len(t) + 1 /\ Covers(w[j], SubSeq(t, i, k - 1))
    BY <1>1, <2>1 DEF IsCut
  <2>3. IsCut(d, t, w, k, j + 1)
    <3>1. \A l \in j + 1..Len(w) + 1 : l \in j..Len(w) + 1 /\ d[l] = c[l]
      OBVIOUS
    <3>2. \A l \in j + 1..Len(w) : l \in j..Len(w) /\ d[l] = c[l] /\ d[l + 1] = c[l + 1]
      OBVIOUS
    <3>3. d \in [j + 1..Len(w) + 1 -> 1..Len(t) + 1]
      BY <1>1, <3>1 DEF IsCut
    <3>4. d[j + 1] = k /\ d[Len(w) + 1] = Len(t) + 1
      BY <1>1, <2>1, <3>1 DEF IsCut
    <3> HIDE DEF d, k
    <3>5. QED  BY <1>1, <3>2, <3>3, <3>4 DEF IsCut
  <2>4. QED  BY <2>2, <2>3 DEF HasCut
<1>2. ASSUME NEW k \in i..Len(t) + 1, Covers(w[j], SubSeq(t, i, k - 1)),
             NEW d, IsCut(d, t, w, k, j + 1)
      PROVE  HasCut(t, w, i, j)
  <2> DEFINE c == [l \in j..Len(w) + 1 |-> IF l = j THEN i ELSE d[l]]
  <2>1. c[j] = i /\ \A l \in j + 1..Len(w) + 1 : c[l] = d[l]
    OBVIOUS
  <2>2. \A l \in j..Len(w) + 1 : l = j \/ l \in j + 1..Len(w) + 1
    OBVIOUS
  <2>3. c \in [j..Len(w) + 1 -> 1..Len(t) + 1]
    <3>1. \A l \in j + 1..Len(w) + 1 : d[l] \in 1..Len(t) + 1
      BY <1>2 DEF IsCut
    <3>2. \A l \in j..Len(w) + 1 : (IF l = j THEN i ELSE d[l]) \in 1..Len(t) + 1
      BY <2>2, <3>1
    <3>3. QED  BY <3>2
  <2> HIDE DEF c
  <2>4. c[Len(w) + 1] = Len(t) + 1
    BY <1>2, <2>1 DEF IsCut
  <2>5. c[j + 1] = k
    BY <1>2, <2>1 DEF IsCut
  <2>6. ASSUME NEW l \in j..Len(w)
        PROVE  c[l] <= c[l + 1] /\ Covers(w[l], SubSeq(t, c[l], c[l + 1] - 1))
    <3>1. CASE l = j
      BY <1>2, <2>1, <2>5, <3>1
    <3>2. CASE l # j
      <4>1. l \in j + 1..Len(w) /\ l \in j + 1..Len(w) + 1 /\ l + 1 \in j + 1..Len(w) + 1
        BY <3>2
      <4>2. QED  BY <1>2, <2>1, <4>1 DEF IsCut
    <3>3. QED  BY <3>1, <3>2
  <2>7. QED  BY <2>1, <2>3, <2>4, <2>6 DEF IsCut, HasCut
<1>3. QED  BY <1>1, <1>2 DEF HasCut

\* The function exists: it is the one that tells whether there is a cut.
LEMMA SolutionExists ==
  ASSUME NEW t, NEW w, Len(t) \in Nat, Len(w) \in Nat
  PROVE  \E m : Solves(m, t, w)
<1> DEFINE m == [j \in 1..Len(w) + 1 |-> [i \in 1..Len(t) + 1 |-> HasCut(t, w, i, j)]]
<1>1. ASSUME NEW i \in 1..Len(t) + 1, NEW j \in 1..Len(w) + 1
      PROVE  HasCut(t, w, i, j) =
               IF j > Len(w) THEN i > Len(t)
               ELSE \E k \in i..Len(t) + 1 :
                      Covers(w[j], SubSeq(t, i, k - 1)) /\ m[j + 1][k]
  <2>1. CASE j > Len(w)
    <3>1. j = Len(w) + 1
      BY <2>1
    <3>2. HasCut(t, w, i, j) <=> i > Len(t)
      BY <3>1, CutEnds
    <3>3. HasCut(t, w, i, j) \in BOOLEAN
      BY DEF HasCut
    <3>4. QED  BY <2>1, <3>2, <3>3
  <2>2. CASE ~(j > Len(w))
    <3>1. j \in 1..Len(w)
      BY <2>2
    <3>2. \A k \in i..Len(t) + 1 : m[j + 1][k] = HasCut(t, w, k, j + 1)
      BY <3>1
    <3>3. HasCut(t, w, i, j) <=>
            \E k \in i..Len(t) + 1 :
              Covers(w[j], SubSeq(t, i, k - 1)) /\ HasCut(t, w, k, j + 1)
      BY <3>1, CutGoesOn
    <3>4. HasCut(t, w, i, j) \in BOOLEAN
      BY DEF HasCut
    <3> HIDE DEF m
    <3>5. QED  BY <2>2, <3>2, <3>3, <3>4
  <2>3. QED  BY <2>1, <2>2
<1>2. Solves(m, t, w)
  BY <1>1, Zenon DEF Solves
<1>3. QED  BY <1>2

\* A solution tells at each place whether there is a cut.
LEMMA SolutionIsCut ==
  ASSUME NEW t, NEW w, Len(t) \in Nat, Len(w) \in Nat, NEW m, Solves(m, t, w),
         NEW i \in 1..Len(t) + 1, NEW j \in 1..Len(w) + 1
  PROVE  m[j][i] <=> HasCut(t, w, i, j)
<1> DEFINE n == Len(w) + 1
           S == {d \in Nat : d < n =>
                   \A x \in 1..Len(t) + 1 : m[n - d][x] <=> HasCut(t, w, x, n - d)}
<1>0. ASSUME NEW y \in 1..n, NEW x \in 1..Len(t) + 1
      PROVE  /\ y > Len(w) => (m[y][x] <=> x > Len(t))
             /\ ~(y > Len(w)) =>
                  (m[y][x] <=> \E k \in x..Len(t) + 1 :
                                 Covers(w[y], SubSeq(t, x, k - 1)) /\ m[y + 1][k])
  <2>1. m[y] = [a \in 1..Len(t) + 1 |->
                  IF y > Len(w)
                  THEN a > Len(t)
                  ELSE \E k \in a..Len(t) + 1 :
                         Covers(w[y], SubSeq(t, a, k - 1)) /\ m[y + 1][k]]
    BY Zenon DEF Solves
  <2>2. m[y][x] = IF y > Len(w)
                  THEN x > Len(t)
                  ELSE \E k \in x..Len(t) + 1 :
                         Covers(w[y], SubSeq(t, x, k - 1)) /\ m[y + 1][k]
    BY <2>1, Zenon
  <2>3. QED  BY <2>2, Zenon
<1>1. 0 \in S
  <2>1. \A x \in 1..Len(t) + 1 : m[n][x] <=> x > Len(t)
    <3>1. n \in 1..n /\ n > Len(w)
      OBVIOUS
    <3> HIDE DEF n
    <3>2. QED  BY <1>0, <3>1
  <2>2. \A x \in 1..Len(t) + 1 : m[n][x] <=> HasCut(t, w, x, n)
    BY <2>1, CutEnds
  <2>3. n - 0 = n
    OBVIOUS
  <2>4. QED  BY <2>2, <2>3
<1>2. ASSUME NEW d \in Nat, d \in S PROVE d + 1 \in S
  <2> SUFFICES ASSUME d + 1 < n, NEW x \in 1..Len(t) + 1
               PROVE  m[n - (d + 1)][x] <=> HasCut(t, w, x, n - (d + 1))
    OBVIOUS
  <2> DEFINE y == n - (d + 1)
  <2>1. y \in 1..Len(w) /\ y \in 1..n /\ ~(y > Len(w)) /\ y + 1 = n - d /\ d < n
    OBVIOUS
  <2>2. \A k \in 1..Len(t) + 1 : m[y + 1][k] <=> HasCut(t, w, k, y + 1)
    BY <1>2, <2>1
  <2> HIDE DEF y, n
  <2>3. m[y][x] <=> \E k \in x..Len(t) + 1 :
                      Covers(w[y], SubSeq(t, x, k - 1)) /\ m[y + 1][k]
    BY <1>0, <2>1
  <2>4. HasCut(t, w, x, y) <=>
          \E k \in x..Len(t) + 1 :
            Covers(w[y], SubSeq(t, x, k - 1)) /\ HasCut(t, w, k, y + 1)
    BY <2>1, CutGoesOn
  <2>5. \A k \in x..Len(t) + 1 : k \in 1..Len(t) + 1
    OBVIOUS
  <2>6. m[y][x] <=> HasCut(t, w, x, y)
    BY <2>2, <2>3, <2>4, <2>5
  <2>7. QED  BY <2>6 DEF y
<1>3. n - j \in Nat /\ n - j < n /\ n - (n - j) = j
  OBVIOUS
<1> HIDE DEF S
<1>4. n - j \in S
  BY <1>1, <1>2, <1>3, Induction
<1>5. QED  BY <1>3, <1>4 DEF S

\* The code's search and the cut mean the same.
THEOREM MatchIsCut ==
  ASSUME NEW t, NEW w, Len(t) \in Nat, Len(w) \in Nat
  PROVE  matches_wildcard_path(t, w) <=> HasCut(t, w, 1, 1)
<1> DEFINE m == CHOOSE m : Solves(m, t, w)
<1>1. Solves(m, t, w)
  BY SolutionExists
<1>2. matches_wildcard_path(t, w) = m[1][1]
  BY DEF matches_wildcard_path, Solves
<1> HIDE DEF m
<1>3. m[1][1] <=> HasCut(t, w, 1, 1)
  BY <1>1, SolutionIsCut
<1>4. QED  BY <1>2, <1>3

-----------------------------------------------------------------------------
(* What follows for names of any length.                                   *)

\* A name matches itself taken as a subscription: this is what Broker assumes of
\* the matching it is given (MatchesAssumption).
THEOREM EveryNameMatchesItself ==
  ASSUME NEW S, NEW name \in Seq(S)
  PROVE  matches_wildcard_path(name, name)
<1> DEFINE n == Len(name)
           c == [l \in 1..n + 1 |-> l]
<1>1. n \in Nat
  OBVIOUS
<1>2. /\ c \in [1..n + 1 -> 1..n + 1] /\ c[1] = 1 /\ c[n + 1] = n + 1
      /\ \A l \in 1..n : c[l] = l /\ c[l + 1] = l + 1
  BY <1>1
<1>3. ASSUME NEW l \in 1..n PROVE Covers(name[l], SubSeq(name, l, l))
  <2>1. SubSeq(name, l, l) = <<name[l]>>
    <3> DEFINE s == SubSeq(name, l, l)
    <3>1. s \in Seq(S) /\ Len(s) = 1 /\ s[1] = name[l]
      BY <1>1
    <3> HIDE DEF s
    <3>2. s = <<name[l]>>
      BY <3>1
    <3>3. QED  BY <3>2 DEF s
  <2>2. <<name[l]>> # <<>> /\ Range(<<name[l]>>) = {name[l]}
    BY DEF Range
  <2>3. QED  BY <2>1, <2>2 DEF Covers, LineBreaks
<1> HIDE DEF c
<1>4. \A l \in 1..n : c[l] <= c[l + 1] /\ SubSeq(name, c[l], c[l + 1] - 1) = SubSeq(name, l, l)
  BY <1>1, <1>2
<1>5. IsCut(c, name, name, 1, 1)
  BY <1>2, <1>3, <1>4 DEF IsCut
<1>6. QED  BY <1>1, <1>5, MatchIsCut DEF HasCut

-----------------------------------------------------------------------------
(* The levels of a name.                                                   *)

\* The numbers up to m that are taken come in their order.
InOrder(q, m, good) ==
  /\ q \in Seq(Nat) /\ Range(q) = {i \in 1..m : i \in good}
  /\ \A i, j \in 1..Len(q) : i < j => q[i] < q[j]

LEMMA FilterInOrder ==
  ASSUME NEW m \in Nat, NEW good
  PROVE  InOrder(Filter([i \in 1..m |-> i], good), m, good)
<1> DEFINE R == {n \in Nat : InOrder(Filter([i \in 1..n |-> i], good), n, good)}
<1>1. 0 \in R
  <2>1. [i \in 1..0 |-> i] = <<>> /\ {i \in 1..0 : i \in good} = {}
    OBVIOUS
  <2>2. Filter(<<>>, good) = <<>>
    BY FilterEmpty
  <2>3. <<>> \in Seq(Nat) /\ Range(<<>>) = {} /\ Len(<<>>) = 0
    BY DEF Range
  <2>4. InOrder(<<>>, 0, good)
    BY <2>1, <2>3 DEF InOrder
  <2>5. Filter([i \in 1..0 |-> i], good) = <<>>
    BY <2>1, <2>2
  <2>6. QED  BY <2>4, <2>5
<1>2. ASSUME NEW n \in Nat, n \in R
      PROVE  n + 1 \in R
  <2> DEFINE s == [i \in 1..n |-> i]
             t == [i \in 1..n + 1 |-> i]
             p == Filter(s, good)
             q == Filter(t, good)
  <2>1. InOrder(p, n, good)
    BY <1>2
  <2>2. s \in Seq(Nat) /\ t \in Seq(Nat) /\ n + 1 \in Nat /\ t = Append(s, n + 1)
    <3>1. s \in Seq(Nat) /\ t \in Seq(Nat) /\ Len(s) = n /\ Len(t) = n + 1
      OBVIOUS
    <3>2. Append(s, n + 1) \in Seq(Nat) /\ Len(Append(s, n + 1)) = n + 1
          /\ \A i \in 1..n + 1 : Append(s, n + 1)[i] = i
      OBVIOUS
    <3>3. QED  BY <3>1, <3>2
  <2> HIDE DEF s, t
  <2>3. q = IF n + 1 \in good THEN Append(p, n + 1) ELSE p
    BY <2>2, FilterAppend
  <2> HIDE DEF p, q
  <2>4. p \in Seq(Nat) /\ Range(p) = {i \in 1..n : i \in good}
        /\ \A i, j \in 1..Len(p) : i < j => p[i] < p[j]
    BY <2>1 DEF InOrder
  <2>5. ASSUME n + 1 \notin good
        PROVE  InOrder(q, n + 1, good)
    <3>1. {i \in 1..n + 1 : i \in good} = {i \in 1..n : i \in good}
      BY <2>5
    <3>2. q = p
      BY <2>3, <2>5
    <3>3. QED  BY <2>4, <3>1, <3>2 DEF InOrder
  <2>6. ASSUME n + 1 \in good
        PROVE  InOrder(q, n + 1, good)
    <3>1. {i \in 1..n + 1 : i \in good} = {i \in 1..n : i \in good} \cup {n + 1}
      BY <2>6
    <3>2. q = Append(p, n + 1)
      BY <2>3, <2>6
    <3>3. q \in Seq(Nat) /\ Len(q) = Len(p) + 1 /\ Range(q) = Range(p) \cup {n + 1}
      BY <2>4, <3>2, RangeOfAppend
    <3>4. Len(p) \in Nat /\ q[Len(p) + 1] = n + 1 /\ \A i \in 1..Len(p) : q[i] = p[i]
      BY <2>4, <3>2
    <3>5. \A i \in 1..Len(p) : p[i] \in 1..n
      BY <2>4 DEF Range
    <3>6. ASSUME NEW i \in 1..Len(q), NEW j \in 1..Len(q), i < j
          PROVE  q[i] < q[j]
      <4>1. i \in 1..Len(p)
        BY <3>3, <3>4, <3>6
      <4>2. CASE j \in 1..Len(p)
        BY <2>4, <3>4, <3>6, <4>1, <4>2
      <4>3. CASE j = Len(p) + 1
        <5>1. q[i] = p[i] /\ p[i] \in 1..n /\ q[j] = n + 1
          BY <3>4, <3>5, <4>1, <4>3
        <5>2. QED  BY <5>1
      <4>4. QED  BY <3>3, <3>4, <4>2, <4>3
    <3>7. QED  BY <2>4, <3>1, <3>3, <3>6 DEF InOrder
  <2>7. QED  BY <2>5, <2>6 DEF q, t
<1> HIDE DEF R
<1>3. m \in R
  BY <1>1, <1>2, Induction
<1>4. QED  BY <1>3 DEF R

\* The ends are the slashes and the place behind the name, in order.
LEMMA EndsInOrder ==
  ASSUME NEW s, Len(s) \in Nat
  PROVE  LET e == Ends(s)
             k == Len(e)
         IN  /\ k \in Nat /\ k > 0 /\ DOMAIN e = 1..k
             /\ \A n \in 1..k : e[n] \in 1..Len(s) + 1
             /\ \A m, n \in 1..k : m < n => e[m] < e[n]
             /\ e[k] = Len(s) + 1
             /\ \A n \in 1..k : n < k => e[n] \in 1..Len(s) /\ s[e[n]] = "/"
             /\ \A i \in 1..Len(s) : s[i] = "/" => \E n \in 1..k : e[n] = i
<1> DEFINE e == Ends(s)
           k == Len(e)
           N == Len(s) + 1
           good == {i \in 1..Len(s) : s[i] = "/"} \cup {N}
<1>1. InOrder(e, N, good)
  BY FilterInOrder DEF Ends
<1> HIDE DEF e, k
<1>2. k \in Nat /\ DOMAIN e = 1..k
  BY <1>1 DEF InOrder, k
<1>3. \A i : (i \in 1..N /\ i \in good) <=> \E n \in 1..k : e[n] = i
  BY <1>1, <1>2 DEF InOrder, Range
<1>4. \A m, n \in 1..k : m < n => e[m] < e[n]
  BY <1>1 DEF InOrder, k
<1>5. ASSUME NEW n \in 1..k
      PROVE  e[n] \in 1..N /\ e[n] \in good
  BY <1>1, <1>2 DEF InOrder, Range
<1>6. PICK n \in 1..k : e[n] = N
  <2>1. N \in 1..N /\ N \in good
    OBVIOUS
  <2>2. QED  BY <1>1, <1>2, <2>1 DEF InOrder, Range
<1>7. k > 0 /\ k \in 1..k
  BY <1>2, <1>6
<1>8. n = k
  <2> SUFFICES ASSUME n < k PROVE FALSE
    BY <1>2
  <2>1. e[n] < e[k] /\ e[k] \in 1..N
    BY <1>4, <1>5, <1>7
  <2>2. QED  BY <1>6, <2>1
<1>9. ASSUME NEW l \in 1..k, l < k
      PROVE  e[l] \in 1..Len(s) /\ s[e[l]] = "/"
  <2>1. e[l] < e[k] /\ e[l] \in good /\ e[l] \in 1..N
    BY <1>4, <1>5, <1>7, <1>9
  <2>2. e[l] # N
    BY <1>6, <1>8, <2>1
  <2>3. QED  BY <2>1, <2>2
<1>10. ASSUME NEW i \in 1..Len(s), s[i] = "/"
       PROVE  \E l \in 1..k : e[l] = i
  BY <1>3, <1>10
<1>11. QED  BY <1>2, <1>4, <1>5, <1>6, <1>7, <1>8, <1>9, <1>10 DEF e, k

\* Levels lie one behind the other and have no slash inside.
LEMMA StartsInOrder ==
  ASSUME NEW s, Len(s) \in Nat
  PROVE  LET e == Ends(s)
             k == Len(e)
         IN  /\ Start(s, 1) = 1 /\ Start(s, k + 1) = Len(s) + 2
             /\ \A n \in 1..k : /\ Start(s, n + 1) = e[n] + 1
                                /\ Start(s, n) \in 1..Len(s) + 1 /\ Start(s, n) <= e[n]
             /\ \A n \in 1..k : \A i \in Start(s, n)..e[n] - 1 : i \in 1..Len(s) /\ s[i] # "/"
             /\ \A i \in 1..Len(s) + 1 : \E n \in 1..k : i \in Start(s, n)..e[n]
<1> DEFINE e == Ends(s)
           k == Len(e)
           N == Len(s) + 1
<1>1. /\ k \in Nat /\ k > 0 /\ N \in Nat
      /\ \A n \in 1..k : e[n] \in 1..N
      /\ \A m, n \in 1..k : m < n => e[m] < e[n]
      /\ e[k] = N
      /\ \A n \in 1..k : n < k => e[n] \in 1..Len(s)
      /\ \A i \in 1..Len(s) : s[i] = "/" => \E n \in 1..k : e[n] = i
  BY EndsInOrder
<1>2. \A n : Start(s, n) = IF n = 1 THEN 1 ELSE e[n - 1] + 1
  BY DEF Start
<1> HIDE DEF e, k
<1>3. \A n \in 1..k : Start(s, n + 1) = e[n] + 1
  <2> SUFFICES ASSUME NEW n \in 1..k PROVE Start(s, n + 1) = e[n] + 1
    OBVIOUS
  <2>1. n + 1 # 1 /\ (n + 1) - 1 = n
    OBVIOUS
  <2>2. QED  BY <1>2, <2>1
<1>4. ASSUME NEW n \in 1..k
      PROVE  Start(s, n) \in 1..N /\ Start(s, n) <= e[n]
  <2>1. CASE n = 1
    BY <1>1, <1>2, <2>1
  <2>2. CASE n # 1
    <3>1. n - 1 \in 1..k /\ n - 1 < n /\ n - 1 < k
      BY <1>1, <2>2
    <3>2. e[n - 1] < e[n] /\ e[n - 1] \in 1..Len(s) /\ e[n] \in 1..N
      BY <1>1, <3>1
    <3>3. Start(s, n) = e[n - 1] + 1
      BY <1>2, <2>2
    <3>4. QED  BY <3>2, <3>3
  <2>3. QED  BY <2>1, <2>2
<1>5. ASSUME NEW n \in 1..k, NEW i \in Start(s, n)..e[n] - 1
      PROVE  i \in 1..Len(s) /\ s[i] # "/"
  <2>1. i \in 1..Len(s)
    BY <1>1, <1>4
  <2> SUFFICES ASSUME s[i] = "/" PROVE FALSE
    BY <2>1
  <2>2. PICK m \in 1..k : e[m] = i
    BY <1>1, <2>1
  <2>3. i \in Nat /\ i < e[n] /\ i >= Start(s, n) /\ e[n] \in Nat
    BY <1>1, <1>4
  <2>4. ~(m >= n)
    BY <1>1, <2>2, <2>3
  <2>5. m < n /\ n # 1 /\ n - 1 \in 1..k /\ (m < n - 1 \/ m = n - 1)
    BY <1>1, <2>4
  <2>6. Start(s, n) = e[n - 1] + 1 /\ e[m] <= e[n - 1] /\ e[n - 1] \in 1..N
    <3>1. Start(s, n) = e[n - 1] + 1
      BY <1>2, <2>5
    <3>2. e[m] \in 1..N /\ e[n - 1] \in 1..N
      BY <1>1, <2>5
    <3>3. m < n - 1 => e[m] < e[n - 1]
      BY <1>1, <2>5
    <3>4. QED  BY <2>5, <3>1, <3>2, <3>3
  <2>7. QED  BY <2>2, <2>3, <2>6
<1>6. ASSUME NEW i \in 1..N
      PROVE  \E n \in 1..k : i \in Start(s, n)..e[n]
  <2> DEFINE S == {n \in 1..k : i <= e[n]}
  <2>1. S \subseteq Nat /\ k \in S
    BY <1>1
  <2>2. PICK n \in S : \A m \in S : n <= m
    BY <2>1, LeastExists
  <2>3. n \in 1..k /\ i <= e[n]
    BY <2>2
  <2>4. Start(s, n) <= i
    <3>1. CASE n = 1
      BY <1>2, <3>1
    <3>2. CASE n # 1
      <4>1. n - 1 \in 1..k /\ n - 1 < n
        BY <1>1, <2>3, <3>2
      <4>2. n - 1 \notin S
        BY <2>2, <2>3, <4>1
      <4>3. e[n - 1] < i /\ e[n - 1] \in Nat
        BY <1>1, <4>1, <4>2
      <4>4. Start(s, n) = e[n - 1] + 1
        BY <1>2, <3>2
      <4>5. QED  BY <4>3, <4>4
    <3>3. QED  BY <3>1, <3>2
  <2>5. e[n] \in Nat /\ Start(s, n) \in Nat
    BY <1>1, <1>4, <2>3
  <2>6. QED  BY <2>3, <2>4, <2>5
<1>7. Start(s, 1) = 1 /\ Start(s, k + 1) = Len(s) + 2
  <2>1. k \in 1..k
    BY <1>1
  <2>2. Start(s, k + 1) = N + 1
    BY <1>1, <1>3, <2>1
  <2>3. QED  BY <1>2, <2>2
<1>8. QED  BY <1>3, <1>4, <1>5, <1>6, <1>7 DEF e, k

LEMMA StartsGrow ==
  ASSUME NEW s, Len(s) \in Nat,
         NEW m \in 1..Len(Ends(s)) + 1, NEW n \in 1..Len(Ends(s)) + 1, m < n
  PROVE  /\ Start(s, m) < Start(s, n) /\ Start(s, m) \in Nat /\ Start(s, n) \in Nat
         /\ m \in 1..Len(Ends(s)) /\ n - 1 \in 1..Len(Ends(s)) /\ (n - 1) + 1 = n
         /\ Start(s, n) = Ends(s)[n - 1] + 1
         /\ Start(s, m) <= Ends(s)[m] /\ Ends(s)[m] <= Ends(s)[n - 1]
<1> DEFINE e == Ends(s)
           k == Len(e)
<1>1. /\ k \in Nat /\ \A i \in 1..k : e[i] \in 1..Len(s) + 1
      /\ \A i, j \in 1..k : i < j => e[i] < e[j]
  BY EndsInOrder
<1>2. \A i \in 1..k : Start(s, i + 1) = e[i] + 1 /\ Start(s, i) \in 1..Len(s) + 1 /\ Start(s, i) <= e[i]
  BY StartsInOrder
<1>3. m \in 1..k + 1 /\ n \in 1..k + 1
  OBVIOUS
<1> HIDE DEF e, k
<1>4. m \in 1..k /\ n - 1 \in 1..k /\ (n - 1) + 1 = n /\ (m = n - 1 \/ m < n - 1)
  BY <1>1, <1>3
<1>5. Start(s, (n - 1) + 1) = e[n - 1] + 1
  BY <1>2, <1>4
<1>6. e[m] <= e[n - 1] /\ e[m] \in 1..Len(s) + 1 /\ e[n - 1] \in 1..Len(s) + 1
  BY <1>1, <1>4
<1>7. Start(s, m) <= e[m] /\ Start(s, m) \in 1..Len(s) + 1
  BY <1>2, <1>4
<1>8. QED  BY <1>4, <1>5, <1>6, <1>7 DEF e, k

\* A part of a name, character by character.
LEMMA Segment ==
  ASSUME NEW S, NEW s \in Seq(S), NEW i \in 1..Len(s) + 1, NEW j \in i - 1..Len(s)
  PROVE  /\ SubSeq(s, i, j) \in Seq(S) /\ Len(SubSeq(s, i, j)) = j + 1 - i
         /\ \A d \in 1..j + 1 - i : SubSeq(s, i, j)[d] = s[i + d - 1]
OBVIOUS

\* From a position on, n characters of two names are the same; none is a wildcard.
SameAt(s, i, t, j, n) == \A d \in 0..n - 1 : s[i + d] = t[j + d]
Plain(w, a, n) == \A d \in 0..n - 1 : w[a + d] \notin {"+", "*"}

\* Parts are equal if they are as long and have the same characters.
LEMMA SegmentsEqual ==
  ASSUME NEW S, NEW s \in Seq(S), NEW t \in Seq(S), NEW i \in 1..Len(s) + 1, NEW j \in 1..Len(t) + 1,
         NEW n \in Nat, i + n <= Len(s) + 1, j + n <= Len(t) + 1,
         SameAt(s, i, t, j, n)
  PROVE  SubSeq(s, i, i + n - 1) = SubSeq(t, j, j + n - 1)
<1> DEFINE p == SubSeq(s, i, i + n - 1)
           q == SubSeq(t, j, j + n - 1)
<1>1. i + n - 1 \in i - 1..Len(s) /\ (i + n - 1) + 1 - i = n
  OBVIOUS
<1>2. p \in Seq(S) /\ Len(p) = n /\ \A d \in 1..n : p[d] = s[i + d - 1]
  BY <1>1, Segment
<1>3. j + n - 1 \in j - 1..Len(t) /\ (j + n - 1) + 1 - j = n
  OBVIOUS
<1>4. q \in Seq(S) /\ Len(q) = n /\ \A d \in 1..n : q[d] = t[j + d - 1]
  BY <1>3, Segment
<1>5. \A d \in 1..n : s[i + d - 1] = t[j + d - 1]
  <2> SUFFICES ASSUME NEW d \in 1..n PROVE s[i + d - 1] = t[j + d - 1]
    OBVIOUS
  <2>1. d - 1 \in 0..n - 1 /\ i + (d - 1) = i + d - 1 /\ j + (d - 1) = j + d - 1
    OBVIOUS
  <2>2. s[i + (d - 1)] = t[j + (d - 1)]
    BY <2>1 DEF SameAt
  <2>3. QED  BY <2>1, <2>2
<1> HIDE DEF p, q
<1>6. p = q
  <2>1. \A d \in 1..n : p[d] = q[d]
    BY <1>2, <1>4, <1>5
  <2>2. p = [d \in 1..n |-> p[d]] /\ q = [d \in 1..n |-> q[d]]
    BY <1>2, <1>4
  <2>3. QED  BY <2>1, <2>2, Zenon
<1>7. QED  BY <1>6 DEF p, q

Level(s, n) == SubSeq(s, Start(s, n), Ends(s)[n] - 1)

LEMMA LevelsAre ==
  ASSUME NEW s, Len(s) \in Nat
  PROVE  /\ Len(Levels(s)) = Len(Ends(s)) /\ DOMAIN Levels(s) = 1..Len(Ends(s))
         /\ \A n \in 1..Len(Ends(s)) : Levels(s)[n] = Level(s, n)
<1>1. Len(Ends(s)) \in Nat /\ DOMAIN Ends(s) = 1..Len(Ends(s))
  BY EndsInOrder
<1>2. Levels(s) = [n \in 1..Len(Ends(s)) |-> Level(s, n)]
  BY <1>1 DEF Levels, Level
<1>3. QED  BY <1>1, <1>2

LEMMA LevelChars ==
  ASSUME NEW S, NEW s \in Seq(S), NEW n \in 1..Len(Ends(s))
  PROVE  LET a == Start(s, n)
             b == Ends(s)[n]
         IN  /\ a \in 1..Len(s) + 1 /\ b \in 1..Len(s) + 1 /\ a <= b
             /\ Level(s, n) \in Seq(S) /\ Len(Level(s, n)) = b - a
             /\ \A d \in 1..b - a : Level(s, n)[d] = s[a + d - 1]
<1> DEFINE a == Start(s, n)
           b == Ends(s)[n]
<1>1. a \in 1..Len(s) + 1 /\ b \in 1..Len(s) + 1 /\ a <= b
  <2>1. Len(s) \in Nat
    OBVIOUS
  <2>2. b \in 1..Len(s) + 1
    BY <2>1, EndsInOrder
  <2>3. a \in 1..Len(s) + 1 /\ a <= b
    BY <2>1, StartsInOrder
  <2>4. QED  BY <2>2, <2>3
<1>2. Level(s, n) = SubSeq(s, a, b - 1)
  BY DEF Level
<1> HIDE DEF a, b
<1>3. b - 1 \in a - 1..Len(s) /\ (b - 1) + 1 - a = b - a
  BY <1>1
<1>4. QED  BY <1>1, <1>2, <1>3, Segment DEF a, b

\* A level is one wildcard or has none.
LEMMA LevelKinds ==
  ASSUME NEW S, NEW w \in Seq(S), WellFormed(w), NEW n \in 1..Len(Ends(w))
  PROVE  \/ /\ Level(w, n) \in {<<"+">>, <<"*">>} /\ Ends(w)[n] = Start(w, n) + 1
            /\ Level(w, n) = <<w[Start(w, n)]>>
         \/ /\ Level(w, n) \notin {<<"+">>, <<"*">>}
            /\ \A i \in Start(w, n)..Ends(w)[n] - 1 : w[i] \notin {"+", "*"}
<1> DEFINE a == Start(w, n)
           b == Ends(w)[n]
           p == Level(w, n)
<1>1. /\ a \in 1..Len(w) + 1 /\ b \in 1..Len(w) + 1 /\ a <= b
      /\ p \in Seq(S) /\ Len(p) = b - a
      /\ \A d \in 1..b - a : p[d] = w[a + d - 1]
  BY LevelChars
<1>2. Range(p) \cap {"+", "*"} # {} => Len(p) = 1
  BY LevelsAre DEF WellFormed
<1> HIDE DEF a, b, p
<1>3. Len(w) \in Nat /\ a \in Nat /\ b \in Nat
  BY <1>1
<1>4. ASSUME NEW i \in a..b - 1, w[i] \in {"+", "*"}
      PROVE  p = <<w[a]>> /\ b = a + 1 /\ p \in {<<"+">>, <<"*">>}
  <2>1. i + 1 - a \in 1..b - a /\ a + (i + 1 - a) - 1 = i
    BY <1>3
  <2>2. p[i + 1 - a] = w[i]
    BY <1>1, <2>1
  <2>3. w[i] \in Range(p)
    BY <1>1, <2>1, <2>2 DEF Range
  <2>4. b - a = 1
    BY <1>1, <1>2, <1>4, <2>3
  <2>5. b = a + 1 /\ i = a /\ a + 1 - 1 = a /\ 1 \in 1..b - a
    BY <1>3, <2>4
  <2>6. p[1] = w[a] /\ Len(p) = 1
    BY <1>1, <2>4, <2>5
  <2>7. p = <<w[a]>>
    BY <1>1, <2>6
  <2>8. QED  BY <1>4, <2>5, <2>7
<1>5. ASSUME p \in {<<"+">>, <<"*">>}
      PROVE  a \in a..b - 1 /\ w[a] \in {"+", "*"}
  <2>1. Len(p) = 1 /\ p[1] \in {"+", "*"}
    BY <1>5
  <2>2. b - a = 1 /\ a + 1 - 1 = a
    <3>1. b - a = Len(p)
      BY <1>1
    <3>2. QED  BY <1>3, <2>1, <3>1
  <2>3. p[1] = w[a]
    BY <1>1, <2>2
  <2>4. QED  BY <1>3, <2>1, <2>2, <2>3
<1>6. CASE p \in {<<"+">>, <<"*">>}
  BY <1>4, <1>5, <1>6 DEF a, b, p
<1>7. CASE p \notin {<<"+">>, <<"*">>}
  BY <1>4, <1>7 DEF a, b, p
<1>8. QED  BY <1>6, <1>7

-----------------------------------------------------------------------------
(* From the characters to the levels.                                      *)

LEMMA CutGrows ==
  ASSUME NEW t, NEW w, Len(t) \in Nat, Len(w) \in Nat, NEW c, IsCut(c, t, w, 1, 1),
         NEW i \in 1..Len(w) + 1, NEW j \in 1..Len(w) + 1, i <= j
  PROVE  c[i] \in 1..Len(t) + 1 /\ c[j] \in 1..Len(t) + 1 /\ c[i] <= c[j]
<1>1. /\ \A l \in 1..Len(w) + 1 : c[l] \in 1..Len(t) + 1
      /\ \A l \in 1..Len(w) : c[l] <= c[l + 1]
  BY DEF IsCut
<1> DEFINE R == {d \in Nat : i + d <= Len(w) + 1 => c[i] <= c[i + d]}
<1>2. 0 \in R
  BY <1>1
<1>3. ASSUME NEW d \in Nat, d \in R
      PROVE  d + 1 \in R
  <2> SUFFICES ASSUME i + (d + 1) <= Len(w) + 1 PROVE c[i] <= c[i + (d + 1)]
    OBVIOUS
  <2>1. i + d \in 1..Len(w) /\ i + d \in 1..Len(w) + 1 /\ (i + d) + 1 \in 1..Len(w) + 1
        /\ i + (d + 1) = (i + d) + 1
    OBVIOUS
  <2>2. c[i + d] <= c[(i + d) + 1] /\ c[i] <= c[i + d]
    BY <1>1, <1>3, <2>1
  <2>3. c[i] \in Nat /\ c[i + d] \in Nat /\ c[(i + d) + 1] \in Nat
    BY <1>1, <2>1
  <2>4. QED  BY <2>1, <2>2, <2>3
<1> HIDE DEF R
<1>4. j - i \in Nat /\ i + (j - i) = j
  OBVIOUS
<1>5. j - i \in R
  BY <1>2, <1>3, <1>4, Induction
<1>6. QED  BY <1>1, <1>4, <1>5 DEF R

\* The part of a character that is not a wildcard is the character.
LEMMA CutTakes ==
  ASSUME NEW S, NEW t \in Seq(S), NEW w \in Seq(S), NEW c, IsCut(c, t, w, 1, 1),
         NEW l \in 1..Len(w), w[l] \notin {"+", "*"}
  PROVE  c[l] \in 1..Len(t) /\ c[l + 1] = c[l] + 1 /\ t[c[l]] = w[l]
<1> DEFINE i == c[l]
           j == c[l + 1]
           p == SubSeq(t, i, j - 1)
<1>1. i \in 1..Len(t) + 1 /\ j \in 1..Len(t) + 1 /\ i <= j /\ Len(t) \in Nat
  BY DEF IsCut
<1>2. p = <<w[l]>>
  BY DEF IsCut, Covers
<1> HIDE DEF i, j
<1>3. j - 1 \in i - 1..Len(t) /\ (j - 1) + 1 - i = j - i
  BY <1>1
<1>4. Len(p) = j - i /\ \A d \in 1..j - i : p[d] = t[i + d - 1]
  BY <1>1, <1>3, Segment
<1> HIDE DEF p
<1>5. j - i = 1 /\ p[1] = w[l]
  BY <1>2, <1>4
<1>6. j = i + 1 /\ i + 1 - 1 = i /\ i \in 1..Len(t)
  BY <1>1, <1>5
<1>7. p[1] = t[i]
  BY <1>4, <1>5, <1>6
<1>8. QED  BY <1>5, <1>6, <1>7 DEF i, j

\* A stretch without wildcards is found in the topic as it is.
LEMMA CutCopies ==
  ASSUME NEW S, NEW t \in Seq(S), NEW w \in Seq(S), NEW c, IsCut(c, t, w, 1, 1),
         NEW a \in 1..Len(w) + 1, NEW n \in Nat, a + n <= Len(w) + 1,
         Plain(w, a, n)
  PROVE  c[a + n] = c[a] + n /\ SameAt(t, c[a], w, a, n)
<1> DEFINE x == c[a]
           R == {d \in Nat : d <= n => c[a + d] = x + d}
<1>1. x \in Nat /\ a + 0 = a
  BY DEF IsCut
<1>2. ASSUME NEW d \in Nat, d < n
      PROVE  c[(a + d) + 1] = c[a + d] + 1 /\ t[c[a + d]] = w[a + d]
  <2>1. a + d \in 1..Len(w) /\ d \in 0..n - 1
    BY <1>2
  <2>2. w[a + d] \notin {"+", "*"}
    BY <2>1 DEF Plain
  <2>3. QED  BY <2>1, <2>2, CutTakes
<1>3. 0 \in R
  BY <1>1
<1> HIDE DEF x
<1>4. ASSUME NEW d \in Nat, d \in R
      PROVE  d + 1 \in R
  <2> SUFFICES ASSUME d + 1 <= n PROVE c[a + (d + 1)] = x + (d + 1)
    OBVIOUS
  <2>1. a + (d + 1) = (a + d) + 1 /\ d < n /\ d <= n
    OBVIOUS
  <2>2. c[(a + d) + 1] = c[a + d] + 1 /\ c[a + d] = x + d
    BY <1>2, <1>4, <2>1
  <2>3. c[a + (d + 1)] = (x + d) + 1
    BY <2>1, <2>2
  <2>4. (x + d) + 1 = x + (d + 1)
    BY <1>1
  <2>5. QED  BY <2>3, <2>4
<1> HIDE DEF R
<1>5. \A d \in Nat : d <= n => c[a + d] = x + d
  <2>1. Nat \subseteq R
    BY <1>3, <1>4, Induction
  <2>2. QED  BY <2>1 DEF R
<1>6. \A d \in 0..n - 1 : t[x + d] = w[a + d]
  <2> SUFFICES ASSUME NEW d \in 0..n - 1 PROVE t[x + d] = w[a + d]
    OBVIOUS
  <2>1. d \in Nat /\ d < n /\ d <= n
    OBVIOUS
  <2>2. t[c[a + d]] = w[a + d] /\ c[a + d] = x + d
    BY <1>2, <1>5, <2>1
  <2>3. QED  BY <2>2
<1>7. QED  BY <1>5, <1>6 DEF x, SameAt

\* Levels between which there is no slash are one.
LEMMA NoSlashOneLevel ==
  ASSUME NEW t, Len(t) \in Nat, NEW k \in 1..Len(Ends(t)), NEW l \in 1..Len(Ends(t)), k <= l,
         \A i \in Start(t, k)..Ends(t)[l] - 1 : t[i] # "/"
  PROVE  k = l
<1> SUFFICES ASSUME k < l PROVE FALSE
  OBVIOUS
<1>1. Len(Ends(t)) \in Nat /\ l <= Len(Ends(t)) /\ k < Len(Ends(t))
  BY EndsInOrder
<1>2. Ends(t)[k] < Ends(t)[l] /\ t[Ends(t)[k]] = "/"
      /\ Ends(t)[k] \in 1..Len(t) + 1 /\ Ends(t)[l] \in 1..Len(t) + 1
  BY <1>1, EndsInOrder
<1>3. Start(t, k) <= Ends(t)[k] /\ Start(t, k) \in 1..Len(t) + 1
  BY StartsInOrder
<1>4. Ends(t)[k] \in Start(t, k)..Ends(t)[l] - 1
  BY <1>2, <1>3
<1>5. QED  BY <1>2, <1>4

\* Where the part of a level of the subscription starts, and where the next.
First(c, t, w, n) == IF n = Len(Ends(w)) + 1 THEN Len(t) + 2 ELSE c[Start(w, n)]

\* The part of a level reaches up to the end of a level of the topic.
LEMMA PartsEndWithLevels ==
  ASSUME NEW S, NEW t \in Seq(S), NEW w \in Seq(S), NEW c, IsCut(c, t, w, 1, 1),
         NEW n \in 1..Len(Ends(w))
  PROVE  /\ First(c, t, w, n + 1) = c[Ends(w)[n]] + 1
         /\ \E k \in 1..Len(Ends(t)) : Ends(t)[k] = c[Ends(w)[n]]
<1> DEFINE K == Len(Ends(w))
           b == Ends(w)[n]
<1>1. Len(t) \in Nat /\ Len(w) \in Nat
  OBVIOUS
<1>2. K \in Nat /\ n \in 1..K /\ n + 1 # 1 /\ (n + 1) - 1 = n
  BY <1>1, EndsInOrder
<1>3. CASE n = K
  <2>1. b = Len(w) + 1
    BY <1>1, <1>3, EndsInOrder
  <2>2. c[b] = Len(t) + 1
    BY <2>1 DEF IsCut
  <2>3. First(c, t, w, n + 1) = Len(t) + 2
    BY <1>3 DEF First
  <2>4. Ends(t)[Len(Ends(t))] = Len(t) + 1 /\ Len(Ends(t)) \in 1..Len(Ends(t))
    BY <1>1, EndsInOrder
  <2>5. QED  BY <1>1, <2>2, <2>3, <2>4
<1>4. CASE n # K
  <2>1. n < K
    BY <1>2, <1>4
  <2>2. b \in 1..Len(w) /\ w[b] = "/"
    BY <1>1, <2>1, EndsInOrder
  <2>3. c[b] \in 1..Len(t) /\ c[b + 1] = c[b] + 1 /\ t[c[b]] = "/"
    BY <2>2, CutTakes
  <2>4. Start(w, n + 1) = b + 1
    BY <1>1, StartsInOrder
  <2>5. n + 1 # K + 1
    BY <1>2, <1>4
  <2>6. First(c, t, w, n + 1) = c[b + 1]
    BY <2>4, <2>5 DEF First
  <2>7. \E k \in 1..Len(Ends(t)) : Ends(t)[k] = c[b]
    BY <1>1, <2>3, EndsInOrder
  <2>8. QED  BY <2>3, <2>6, <2>7
<1>5. QED  BY <1>3, <1>4

\* The part of every level starts where a level of the topic does.
LEMMA PartsStartLevels ==
  ASSUME NEW S, NEW t \in Seq(S), NEW w \in Seq(S), NEW c, IsCut(c, t, w, 1, 1),
         NEW n \in 1..Len(Ends(w)) + 1
  PROVE  \E k \in 1..Len(Ends(t)) + 1 : Start(t, k) = First(c, t, w, n)
<1>1. Len(t) \in Nat /\ Len(w) \in Nat /\ Len(Ends(w)) \in Nat /\ Len(Ends(w)) > 0
      /\ Len(Ends(t)) \in Nat
  BY EndsInOrder
<1>2. CASE n = 1
  <2>1. n # Len(Ends(w)) + 1
    BY <1>1, <1>2
  <2>2. Start(w, 1) = 1 /\ Start(t, 1) = 1 /\ c[1] = 1
    BY <1>1, StartsInOrder DEF IsCut
  <2>3. 1 \in 1..Len(Ends(t)) + 1
    BY <1>1
  <2>4. QED  BY <1>2, <2>1, <2>2, <2>3 DEF First
<1>3. CASE n # 1
  <2> DEFINE m == n - 1
  <2>1. m \in 1..Len(Ends(w)) /\ n = m + 1
    BY <1>1, <1>3
  <2> HIDE DEF m
  <2>2. PICK k \in 1..Len(Ends(t)) : Ends(t)[k] = c[Ends(w)[m]]
    BY <2>1, PartsEndWithLevels
  <2>3. First(c, t, w, n) = c[Ends(w)[m]] + 1
    BY <2>1, PartsEndWithLevels
  <2>4. Start(t, k + 1) = Ends(t)[k] + 1
    BY <1>1, StartsInOrder
  <2>5. k + 1 \in 1..Len(Ends(t)) + 1
    BY <1>1
  <2>6. QED  BY <2>2, <2>3, <2>4, <2>5
<1>4. QED  BY <1>2, <1>3

\* No line break from character x to before y; none in the levels from k to
\* before l.
OneLine(t, x, y) == \A i \in x..y - 1 : t[i] \notin LineBreaks
LevelsOnOneLine(T, k, l) == \A m \in k..l - 1 : Range(T[m]) \cap LineBreaks = {}

\* The part of "*" is any text on one line.
LEMMA StarCovers ==
  ASSUME NEW S, NEW t \in Seq(S), NEW x \in 1..Len(t) + 1, NEW y \in 1..Len(t) + 1, x <= y
  PROVE  Covers("*", SubSeq(t, x, y - 1)) <=> OneLine(t, x, y)
<1> DEFINE q == SubSeq(t, x, y - 1)
<1>1. y - 1 \in x - 1..Len(t) /\ (y - 1) + 1 - x = y - x
  OBVIOUS
<1>2. Len(q) = y - x /\ q \in Seq(S) /\ \A d \in 1..y - x : q[d] = t[x + d - 1]
  BY <1>1, Segment
<1>3. Covers("*", q) <=> Range(q) \cap LineBreaks = {}
  BY DEF Covers
<1> HIDE DEF q
<1>4. ASSUME Range(q) \cap LineBreaks = {}, NEW i \in x..y - 1
      PROVE  t[i] \notin LineBreaks
  <2>1. i + 1 - x \in 1..y - x /\ x + (i + 1 - x) - 1 = i
    OBVIOUS
  <2>2. q[i + 1 - x] = t[i]
    BY <1>2, <2>1
  <2>3. t[i] \in Range(q)
    BY <1>2, <2>1, <2>2 DEF Range
  <2>4. QED  BY <1>4, <2>3
<1>5. ASSUME OneLine(t, x, y), NEW d \in 1..y - x
      PROVE  q[d] \notin LineBreaks
  <2>1. x + d - 1 \in x..y - 1
    OBVIOUS
  <2>2. QED  BY <1>2, <1>5, <2>1 DEF OneLine
<1>6. Range(q) \cap LineBreaks = {} <=> OneLine(t, x, y)
  BY <1>2, <1>4, <1>5 DEF OneLine, Range
<1>7. QED  BY <1>3, <1>6 DEF q

\* A level without a line break, character by character.
LEMMA LevelOnOneLine ==
  ASSUME NEW S, NEW t \in Seq(S), NEW m \in 1..Len(Ends(t))
  PROVE  Range(Levels(t)[m]) \cap LineBreaks = {} <=> OneLine(t, Start(t, m), Ends(t)[m])
<1> DEFINE x == Start(t, m)
           y == Ends(t)[m]
<1>1. x \in 1..Len(t) + 1 /\ y \in 1..Len(t) + 1 /\ x <= y /\ Len(t) \in Nat
  BY LevelChars
<1>2. Levels(t)[m] = SubSeq(t, x, y - 1)
  BY <1>1, LevelsAre DEF Level
<1> HIDE DEF x, y
<1>3. Covers("*", SubSeq(t, x, y - 1)) <=> OneLine(t, x, y)
  BY <1>1, StarCovers
<1>4. Covers("*", SubSeq(t, x, y - 1)) <=> Range(SubSeq(t, x, y - 1)) \cap LineBreaks = {}
  BY DEF Covers
<1>5. QED  BY <1>2, <1>3, <1>4 DEF x, y

\* The slashes between levels are no line breaks either.
LEMMA LevelsShareOneLine ==
  ASSUME NEW S, NEW t \in Seq(S), NEW k \in 1..Len(Ends(t)), NEW h \in 1..Len(Ends(t)), k <= h
  PROVE  OneLine(t, Start(t, k), Ends(t)[h]) <=> LevelsOnOneLine(Levels(t), k, h + 1)
<1> DEFINE L == Len(Ends(t))
           e == Ends(t)
<1>1. Len(t) \in Nat /\ L \in Nat /\ k \in 1..L /\ h \in 1..L
  BY EndsInOrder
<1>2. /\ \A n \in 1..L : e[n] \in 1..Len(t) + 1
      /\ \A m, n \in 1..L : m < n => e[m] < e[n]
      /\ \A n \in 1..L : n < L => t[e[n]] = "/"
  BY <1>1, EndsInOrder
<1>3. /\ \A n \in 1..L : Start(t, n + 1) = e[n] + 1
      /\ \A n \in 1..L : Start(t, n) \in 1..Len(t) + 1 /\ Start(t, n) <= e[n]
      /\ \A i \in 1..Len(t) + 1 : \E n \in 1..L : i \in Start(t, n)..e[n]
  BY <1>1, StartsInOrder
<1>4. \A m \in 1..L : Range(Levels(t)[m]) \cap LineBreaks = {} <=> OneLine(t, Start(t, m), e[m])
  BY LevelOnOneLine
<1> HIDE DEF L, e
<1>5. \A n \in 1..L : e[n] \in Nat /\ Start(t, n) \in Nat
  <2> SUFFICES ASSUME NEW n \in 1..L PROVE e[n] \in Nat /\ Start(t, n) \in Nat
    OBVIOUS
  <2>1. e[n] \in 1..Len(t) + 1 /\ Start(t, n) \in 1..Len(t) + 1
    BY <1>2, <1>3
  <2>2. QED  BY <1>1, <2>1
<1>6. \A n \in 1..L : n # 1 => Start(t, n) = e[n - 1] + 1
  <2> SUFFICES ASSUME NEW n \in 1..L, n # 1 PROVE Start(t, n) = e[n - 1] + 1
    OBVIOUS
  <2> DEFINE d == n - 1
  <2>1. d \in 1..L /\ d + 1 = n
    BY <1>1
  <2> HIDE DEF d
  <2>2. Start(t, d + 1) = e[d] + 1
    BY <1>3, <2>1
  <2>3. QED  BY <2>1, <2>2 DEF d
<1>7. ASSUME OneLine(t, Start(t, k), e[h]), NEW m \in k..h
      PROVE  OneLine(t, Start(t, m), e[m])
  <2>1. m \in 1..L /\ (m = k \/ k < m) /\ (m = h \/ m < h)
    BY <1>1
  <2>2. e[m] <= e[h]
    BY <1>1, <1>2, <2>1
  <2>3. Start(t, k) <= Start(t, m)
    <3>1. CASE m = k
      BY <1>1, <1>3, <3>1
    <3>2. CASE k < m
      <4>1. e[k] < e[m] /\ m - 1 \in 1..L /\ (k = m - 1 \/ k < m - 1) /\ (m - 1) + 1 = m
        BY <1>1, <1>2, <2>1, <3>2
      <4>2. Start(t, m) = e[m - 1] + 1
        BY <1>1, <1>6, <2>1, <3>2
      <4>3. e[k] <= e[m - 1]
        BY <1>1, <1>2, <4>1
      <4>4. Start(t, k) <= e[k] /\ e[k] \in Nat /\ e[m - 1] \in Nat /\ Start(t, k) \in Nat
        BY <1>1, <1>3, <1>5, <4>1
      <4>5. QED  BY <4>2, <4>3, <4>4
    <3>3. QED  BY <2>1, <3>1, <3>2
  <2>4. \A i \in Start(t, m)..e[m] - 1 : i \in Start(t, k)..e[h] - 1
    <3>1. Start(t, m) \in Nat /\ Start(t, k) \in Nat /\ e[m] \in Nat /\ e[h] \in Nat
      BY <1>1, <1>5, <2>1
    <3>2. QED  BY <2>2, <2>3, <3>1
  <2>5. QED  BY <1>7, <2>4 DEF OneLine
<1>8. ASSUME \A m \in k..h : OneLine(t, Start(t, m), e[m]), NEW i \in Start(t, k)..e[h] - 1
      PROVE  t[i] \notin LineBreaks
  <2>1. Start(t, k) \in 1..Len(t) + 1 /\ e[h] \in 1..Len(t) + 1
    BY <1>1, <1>2, <1>3
  <2>2. i \in 1..Len(t) + 1 /\ i < e[h] /\ i >= Start(t, k)
    BY <1>1, <2>1
  <2>3. PICK n \in 1..L : i \in Start(t, n)..e[n]
    BY <1>3, <2>2
  <2>4. e[n] \in Nat /\ Start(t, n) \in Nat /\ e[h] \in Nat
    BY <1>1, <1>5
  <2>5. k <= n
    <3> SUFFICES ASSUME n < k PROVE FALSE
      BY <1>1
    <3>1. k - 1 \in 1..L /\ (n = k - 1 \/ n < k - 1) /\ (k - 1) + 1 = k
      BY <1>1
    <3>2. Start(t, k) = e[k - 1] + 1 /\ e[k - 1] \in Nat
      <4>1. k # 1
        BY <1>1
      <4>2. QED  BY <1>1, <1>5, <1>6, <3>1, <4>1
    <3>3. e[n] <= e[k - 1]
      BY <1>2, <2>4, <3>1
    <3>4. QED  BY <2>2, <2>3, <2>4, <3>2, <3>3
  <2>6. n <= h
    <3> SUFFICES ASSUME h < n PROVE FALSE
      BY <1>1
    <3>1. n - 1 \in 1..L /\ (h = n - 1 \/ h < n - 1) /\ (n - 1) + 1 = n
      BY <1>1
    <3>2. Start(t, n) = e[n - 1] + 1 /\ e[n - 1] \in Nat
      <4>1. n # 1
        BY <1>1
      <4>2. QED  BY <1>1, <1>5, <1>6, <3>1, <4>1
    <3>3. e[h] <= e[n - 1]
      BY <1>1, <1>2, <3>1
    <3>4. QED  BY <2>2, <2>3, <2>4, <3>2, <3>3
  <2>7. n \in k..h
    BY <1>1, <2>5, <2>6
  <2>8. CASE i = e[n]
    <3>1. n # h
      BY <2>2, <2>8
    <3>2. n < L
      BY <1>1, <2>6, <3>1
    <3>3. t[i] = "/"
      BY <1>2, <2>8, <3>2
    <3>4. QED  BY <3>3 DEF LineBreaks
  <2>9. CASE i # e[n]
    <3>1. i \in Start(t, n)..e[n] - 1
      BY <2>3, <2>4, <2>9
    <3>2. QED  BY <1>8, <2>7, <3>1 DEF OneLine
  <2>10. QED  BY <2>8, <2>9
<1>9. \A m \in k..h : m \in 1..L
  BY <1>1
<1>10. (h + 1) - 1 = h
  BY <1>1
<1>11. LevelsOnOneLine(Levels(t), k, h + 1) <=> \A m \in k..h : OneLine(t, Start(t, m), e[m])
  BY <1>4, <1>9, <1>10 DEF LevelsOnOneLine
<1>12. OneLine(t, Start(t, k), e[h]) <=> \A m \in k..h : OneLine(t, Start(t, m), e[m])
  BY <1>7, <1>8 DEF OneLine
<1>13. QED  BY <1>11, <1>12 DEF e

\* The levels k to l - 1 of a topic are what the level p of a subscription names.
Names(T, p, k, l) ==
  /\ k < l
  /\ p = <<"*">> => LevelsOnOneLine(T, k, l)
  /\ p # <<"*">> => l = k + 1
  /\ p = <<"+">> => T[k] # <<>>
  /\ p \notin {<<"+">>, <<"*">>} => T[k] = p

LEMMA PartIsNamed ==
  ASSUME NEW S, NEW t \in Seq(S), NEW w \in Seq(S), WellFormed(w), NEW c, IsCut(c, t, w, 1, 1),
         NEW n \in 1..Len(Ends(w)),
         NEW k \in 1..Len(Ends(t)) + 1, NEW l \in 1..Len(Ends(t)) + 1,
         Start(t, k) = First(c, t, w, n), Start(t, l) = First(c, t, w, n + 1)
  PROVE  Names(Levels(t), Level(w, n), k, l)
<1> DEFINE a == Start(w, n)
           b == Ends(w)[n]
           e == Ends(t)
           p == Level(w, n)
           x == c[a]
           y == c[b]
<1>1. Len(t) \in Nat /\ Len(w) \in Nat /\ Len(e) \in Nat /\ Len(Ends(w)) \in Nat
  BY EndsInOrder
<1>2. a \in 1..Len(w) + 1 /\ b \in 1..Len(w) + 1 /\ a <= b
  BY LevelChars
<1>3. x \in 1..Len(t) + 1 /\ y \in 1..Len(t) + 1 /\ x <= y
  BY <1>1, <1>2, CutGrows
<1>4. Start(t, k) = x /\ Start(t, l) = y + 1
  <2>1. n # Len(Ends(w)) + 1
    BY <1>1
  <2>2. QED  BY <2>1, PartsEndWithLevels DEF First
<1> HIDE DEF a, b, e, p, x, y
<1>5. k < l
  <2>1. ~(k = l)
    BY <1>3, <1>4
  <2>2. ~(l < k)
    <3> SUFFICES ASSUME l < k PROVE FALSE
      OBVIOUS
    <3>1. Start(t, l) < Start(t, k)
      BY <1>1, StartsGrow
    <3>2. QED  BY <1>3, <1>4, <3>1
  <2>3. QED  BY <1>1, <2>1, <2>2
<1>6. k \in 1..Len(e) /\ l - 1 \in 1..Len(e) /\ k <= l - 1 /\ (l - 1) + 1 = l
  BY <1>1, <1>5 DEF e
<1>7. e[l - 1] = y
  <2>1. Start(t, l) = e[l - 1] + 1 /\ e[l - 1] \in 1..Len(t) + 1
    BY <1>1, <1>5, <1>6, StartsGrow, EndsInOrder DEF e
  <2>2. QED  BY <1>3, <1>4, <2>1
<1>8. ASSUME \A i \in x..y - 1 : t[i] # "/"
      PROVE  l = k + 1
  <2>1. k = l - 1
    BY <1>1, <1>4, <1>6, <1>7, <1>8, NoSlashOneLevel DEF e
  <2>2. QED  BY <1>6, <2>1
<1>9. Levels(t)[k] = Level(t, k)
  BY <1>1, <1>6, LevelsAre DEF e
<1>10. ASSUME l = k + 1
       PROVE  Level(t, k) = SubSeq(t, x, y - 1)
  <2>1. l - 1 = k
    BY <1>1, <1>10
  <2>2. QED  BY <1>4, <1>7, <2>1 DEF Level, e
<1>11. \/ p \in {<<"+">>, <<"*">>} /\ b = a + 1 /\ p = <<w[a]>>
       \/ p \notin {<<"+">>, <<"*">>} /\ \A i \in a..b - 1 : w[i] \notin {"+", "*"}
  BY LevelKinds DEF a, b, p
<1>12. CASE p = <<"*">>
  <2>1. p # <<"+">>
    BY <1>12
  <2>2. b = a + 1 /\ w[a] = "*" /\ a \in 1..Len(w)
    BY <1>1, <1>2, <1>11, <1>12
  <2>3. Covers("*", SubSeq(t, x, y - 1))
    BY <2>2 DEF IsCut, x, y
  <2>4. OneLine(t, x, y)
    BY <1>3, <2>3, StarCovers
  <2>5. LevelsOnOneLine(Levels(t), k, l)
    <3>1. OneLine(t, Start(t, k), Ends(t)[l - 1])
      BY <1>4, <1>7, <2>4 DEF e
    <3>2. LevelsOnOneLine(Levels(t), k, (l - 1) + 1)
      BY <1>6, <3>1, LevelsShareOneLine DEF e
    <3>3. QED  BY <1>6, <3>2
  <2>6. QED  BY <1>5, <1>12, <2>1, <2>5 DEF Names, p
<1>13. CASE p = <<"+">>
  <2>1. b = a + 1 /\ w[a] = "+" /\ a \in 1..Len(w)
    BY <1>1, <1>2, <1>11, <1>13
  <2>2. Covers("+", SubSeq(t, x, y - 1))
    BY <2>1 DEF IsCut, x, y
  <2> DEFINE q == SubSeq(t, x, y - 1)
  <2>3. q # <<>> /\ "/" \notin Range(q)
    BY <2>2 DEF Covers
  <2>4. \A i \in x..y - 1 : t[i] # "/"
    <3>1. y - 1 \in x - 1..Len(t) /\ (y - 1) + 1 - x = y - x
      BY <1>1, <1>3
    <3>2. Len(q) = y - x /\ q \in Seq(S) /\ \A d \in 1..y - x : q[d] = t[x + d - 1]
      BY <1>3, <3>1, Segment
    <3> HIDE DEF q
    <3> SUFFICES ASSUME NEW i \in x..y - 1 PROVE t[i] # "/"
      OBVIOUS
    <3>3. i + 1 - x \in 1..y - x /\ x + (i + 1 - x) - 1 = i
      BY <1>3
    <3>4. q[i + 1 - x] = t[i]
      BY <3>2, <3>3
    <3>5. t[i] \in Range(q)
      BY <3>2, <3>3, <3>4 DEF Range
    <3>6. QED  BY <2>3, <3>5
  <2>5. l = k + 1
    BY <1>8, <2>4
  <2>6. Levels(t)[k] # <<>>
    BY <1>9, <1>10, <2>3, <2>5
  <2>7. QED  BY <1>5, <1>13, <2>5, <2>6 DEF Names, p
<1>14. CASE p \notin {<<"+">>, <<"*">>}
  <2> DEFINE m == b - a
  <2>1. m \in Nat /\ a + m = b /\ a + m <= Len(w) + 1
    BY <1>1, <1>2
  <2>2. Plain(w, a, m)
    <3> SUFFICES ASSUME NEW d \in 0..m - 1 PROVE w[a + d] \notin {"+", "*"}
      BY DEF Plain
    <3>1. a + d \in a..b - 1
      BY <1>1, <1>2
    <3>2. QED  BY <1>11, <1>14, <3>1
  <2>3. \A d \in 0..m - 1 : w[a + d] # "/"
    <3> SUFFICES ASSUME NEW d \in 0..m - 1 PROVE w[a + d] # "/"
      OBVIOUS
    <3>1. a + d \in a..b - 1
      BY <1>1, <1>2
    <3>2. QED  BY <1>1, <3>1, StartsInOrder DEF a, b
  <2> HIDE DEF m
  <2>4. c[a + m] = x + m /\ SameAt(t, x, w, a, m)
    <3>1. a \in 1..Len(w) + 1 /\ m \in Nat /\ a + m <= Len(w) + 1
      BY <1>2, <2>1
    <3>2. QED  BY <2>2, <3>1, CutCopies DEF x
  <2>5. y = x + m
    BY <2>1, <2>4 DEF y
  <2>6. \A i \in x..y - 1 : t[i] # "/"
    <3> SUFFICES ASSUME NEW i \in x..y - 1 PROVE t[i] # "/"
      OBVIOUS
    <3>1. i - x \in 0..m - 1 /\ x + (i - x) = i
      BY <1>3, <2>1, <2>5
    <3>2. t[x + (i - x)] = w[a + (i - x)] /\ w[a + (i - x)] # "/"
      BY <2>4, <2>3, <3>1 DEF SameAt
    <3>3. QED  BY <3>1, <3>2
  <2>7. l = k + 1
    BY <1>8, <2>6
  <2>8. SubSeq(t, x, x + m - 1) = SubSeq(w, a, a + m - 1)
    <3>1. x + m <= Len(t) + 1
      BY <1>3, <2>5
    <3>2. x \in 1..Len(t) + 1 /\ a \in 1..Len(w) + 1 /\ m \in Nat /\ a + m <= Len(w) + 1
      BY <1>2, <1>3, <2>1
    <3>3. QED  BY <2>4, <3>1, <3>2, SegmentsEqual
  <2>9. Levels(t)[k] = p
    <3>1. p = SubSeq(w, a, b - 1)
      BY DEF Level, a, b, p
    <3>2. Level(t, k) = SubSeq(t, x, y - 1)
      BY <1>10, <2>7
    <3>3. a + m - 1 = b - 1 /\ x + m - 1 = y - 1
      <4>1. a \in Nat /\ x \in Nat /\ m \in Nat /\ b = a + m /\ y = x + m
        BY <1>2, <1>3, <2>1, <2>5
      <4>2. QED  BY <4>1
    <3>4. QED  BY <1>9, <2>8, <3>1, <3>2, <3>3
  <2>10. QED  BY <1>5, <1>14, <2>7, <2>9 DEF Names, p
<1>15. QED  BY <1>12, <1>13, <1>14

\* A cut of the topic into levels, one stretch of them per level of the subscription.
IsLevelCut(cut, t, w) ==
  /\ cut \in [1..Len(Ends(w)) + 1 -> 1..Len(Ends(t)) + 1]
  /\ cut[1] = 1 /\ cut[Len(Ends(w)) + 1] = Len(Ends(t)) + 1
  /\ \A n \in 1..Len(Ends(w)) : Names(Levels(t), Level(w, n), cut[n], cut[n + 1])

LEMMA LevelsMatchIsCut ==
  ASSUME NEW t, NEW w, Len(t) \in Nat, Len(w) \in Nat
  PROVE  LevelsMatch(t, w) <=> \E cut : IsLevelCut(cut, t, w)
<1> DEFINE Describes(cut, n) ==
             /\ cut[n] < cut[n + 1]
             /\ Levels(w)[n] = <<"*">> =>
                  \A l \in cut[n]..cut[n + 1] - 1 : Range(Levels(t)[l]) \cap LineBreaks = {}
             /\ Levels(w)[n] # <<"*">> => cut[n + 1] = cut[n] + 1
             /\ Levels(w)[n] = <<"+">> => Levels(t)[cut[n]] # <<>>
             /\ Levels(w)[n] \notin {<<"+">>, <<"*">>} => Levels(t)[cut[n]] = Levels(w)[n]
<1>1. LevelsMatch(t, w) <=>
        \E cut \in [1..Len(Levels(w)) + 1 -> 1..Len(Levels(t)) + 1] :
          /\ cut[1] = 1 /\ cut[Len(Levels(w)) + 1] = Len(Levels(t)) + 1
          /\ \A n \in DOMAIN Levels(w) : Describes(cut, n)
  BY DEF LevelsMatch
<1>2. \A cut, n : n \in 1..Len(Ends(w)) =>
        (Describes(cut, n) <=> Names(Levels(t), Level(w, n), cut[n], cut[n + 1]))
  BY LevelsAre DEF Names, LevelsOnOneLine
<1> HIDE DEF Describes
<1>3. /\ Len(Levels(w)) = Len(Ends(w)) /\ Len(Levels(t)) = Len(Ends(t))
      /\ DOMAIN Levels(w) = 1..Len(Ends(w))
  BY LevelsAre
<1>4. ASSUME LevelsMatch(t, w) PROVE \E cut : IsLevelCut(cut, t, w)
  BY <1>1, <1>2, <1>3, <1>4 DEF IsLevelCut
<1>5. ASSUME NEW cut, IsLevelCut(cut, t, w) PROVE LevelsMatch(t, w)
  BY <1>1, <1>2, <1>3, <1>5 DEF IsLevelCut
<1>6. QED  BY <1>4, <1>5

LEMMA StartsDiffer ==
  ASSUME NEW s, Len(s) \in Nat,
         NEW m \in 1..Len(Ends(s)) + 1, NEW n \in 1..Len(Ends(s)) + 1, Start(s, m) = Start(s, n)
  PROVE  m = n
<1>1. Len(Ends(s)) \in Nat
  BY EndsInOrder
<1>2. ~(m < n)
  <2> SUFFICES ASSUME m < n PROVE FALSE
    OBVIOUS
  <2>1. Start(s, m) < Start(s, n) /\ Start(s, m) \in Nat
    BY StartsGrow
  <2>2. QED  BY <2>1
<1>3. ~(n < m)
  <2> SUFFICES ASSUME n < m PROVE FALSE
    OBVIOUS
  <2>1. Start(s, n) < Start(s, m) /\ Start(s, m) \in Nat
    BY StartsGrow
  <2>2. QED  BY <2>1
<1>4. QED  BY <1>1, <1>2, <1>3

\* Every topic that the expression accepts is described by the levels.
LEMMA CutGivesLevels ==
  ASSUME NEW S, NEW t \in Seq(S), NEW w \in Seq(S), WellFormed(w), NEW c, IsCut(c, t, w, 1, 1)
  PROVE  LevelsMatch(t, w)
<1> DEFINE K == Len(Ends(w))
           L == Len(Ends(t))
           cut == [n \in 1..K + 1 |-> CHOOSE k \in 1..L + 1 : Start(t, k) = First(c, t, w, n)]
<1>1. Len(t) \in Nat /\ Len(w) \in Nat /\ K \in Nat /\ K > 0 /\ L \in Nat /\ L > 0
  BY EndsInOrder
<1>2. \A n \in 1..K + 1 : cut[n] \in 1..L + 1 /\ Start(t, cut[n]) = First(c, t, w, n)
  BY PartsStartLevels
<1>3. cut \in [1..K + 1 -> 1..L + 1]
  BY <1>2
<1> HIDE DEF cut
<1>4. cut[1] = 1
  <2>1. 1 \in 1..K + 1 /\ 1 # K + 1 /\ 1 \in 1..L + 1
    BY <1>1
  <2>2. Start(w, 1) = 1 /\ Start(t, 1) = 1 /\ c[1] = 1
    BY <1>1, StartsInOrder DEF IsCut
  <2>3. First(c, t, w, 1) = Start(t, 1)
    BY <2>1, <2>2 DEF First
  <2>4. cut[1] \in 1..L + 1 /\ Start(t, cut[1]) = Start(t, 1)
    BY <1>2, <2>1, <2>3
  <2>5. QED  BY <1>1, <2>1, <2>4, StartsDiffer
<1>5. cut[K + 1] = L + 1
  <2>1. K + 1 \in 1..K + 1 /\ L + 1 \in 1..L + 1
    BY <1>1
  <2>2. First(c, t, w, K + 1) = Start(t, L + 1)
    BY <1>1, StartsInOrder DEF First
  <2>3. cut[K + 1] \in 1..L + 1 /\ Start(t, cut[K + 1]) = Start(t, L + 1)
    BY <1>2, <2>1, <2>2
  <2>4. QED  BY <1>1, <2>1, <2>3, StartsDiffer
<1>6. ASSUME NEW n \in 1..K
      PROVE  Names(Levels(t), Level(w, n), cut[n], cut[n + 1])
  <2>1. n \in 1..K + 1 /\ n + 1 \in 1..K + 1
    BY <1>1
  <2>2. /\ cut[n] \in 1..L + 1 /\ Start(t, cut[n]) = First(c, t, w, n)
        /\ cut[n + 1] \in 1..L + 1 /\ Start(t, cut[n + 1]) = First(c, t, w, n + 1)
    BY <1>2, <2>1
  <2>3. QED  BY <2>2, PartIsNamed
<1>7. IsLevelCut(cut, t, w)
  BY <1>3, <1>4, <1>5, <1>6 DEF IsLevelCut
<1>8. QED  BY <1>1, <1>7, LevelsMatchIsCut

-----------------------------------------------------------------------------
(* From the levels to the characters.                                      *)

\* Where the part of character j of level n begins: a literal level is copied, a
\* wildcard takes all of the levels it stands for.
Place(cut, t, w, n, j) ==
  IF j = Ends(w)[n]
  THEN Ends(t)[cut[n + 1] - 1]
  ELSE Start(t, cut[n]) + (j - Start(w, n))

LEMMA InOneLevel ==
  ASSUME NEW s, Len(s) \in Nat, NEW m \in 1..Len(Ends(s)), NEW n \in 1..Len(Ends(s)), NEW i,
         i \in Start(s, m)..Ends(s)[m], i \in Start(s, n)..Ends(s)[n]
  PROVE  m = n
<1>1. Len(Ends(s)) \in Nat /\ m \in 1..Len(Ends(s)) + 1 /\ n \in 1..Len(Ends(s)) + 1
      /\ \A k \in 1..Len(Ends(s)) : Ends(s)[k] \in 1..Len(s) + 1
  BY EndsInOrder
<1>2. ASSUME NEW k \in 1..Len(Ends(s)), NEW l \in 1..Len(Ends(s)), k < l,
             i \in Start(s, k)..Ends(s)[k], i \in Start(s, l)..Ends(s)[l]
      PROVE  FALSE
  <2>1. k \in 1..Len(Ends(s)) + 1 /\ l \in 1..Len(Ends(s)) + 1
    BY <1>1
  <2>2. /\ l - 1 \in 1..Len(Ends(s)) /\ Start(s, l) = Ends(s)[l - 1] + 1
        /\ Ends(s)[k] <= Ends(s)[l - 1] /\ Start(s, k) \in Nat
    BY <1>2, <2>1, StartsGrow
  <2>3. Ends(s)[k] \in Nat /\ Ends(s)[l - 1] \in Nat
    BY <1>1, <2>2
  <2>4. QED  BY <1>2, <2>2, <2>3
<1>3. ~(m < n) /\ ~(n < m)
  BY <1>2
<1>4. QED  BY <1>1, <1>3

\* What a level stands for begins and ends with levels of the topic.
LEMMA NamedLevels ==
  ASSUME NEW t, NEW w, Len(t) \in Nat, Len(w) \in Nat, NEW cut, IsLevelCut(cut, t, w),
         NEW n \in 1..Len(Ends(w))
  PROVE  LET k == cut[n]
             l == cut[n + 1]
         IN  /\ k \in 1..Len(Ends(t)) /\ l - 1 \in 1..Len(Ends(t)) /\ l \in 1..Len(Ends(t)) + 1
             /\ k <= l - 1
             /\ Start(t, k) \in 1..Len(t) + 1 /\ Ends(t)[l - 1] \in 1..Len(t) + 1
             /\ Start(t, k) <= Ends(t)[l - 1] /\ Start(t, l) = Ends(t)[l - 1] + 1
<1> DEFINE k == cut[n]
           l == cut[n + 1]
           L == Len(Ends(t))
<1>1. Len(Ends(w)) \in Nat /\ L \in Nat
  BY EndsInOrder
<1>2. n \in 1..Len(Ends(w)) + 1 /\ n + 1 \in 1..Len(Ends(w)) + 1
  BY <1>1
<1>3. k \in 1..L + 1 /\ l \in 1..L + 1
  BY <1>2 DEF IsLevelCut
<1>4. k < l
  BY DEF IsLevelCut, Names
<1> HIDE DEF k, l
<1>5. /\ k \in 1..L /\ l - 1 \in 1..L /\ Start(t, l) = Ends(t)[l - 1] + 1 /\ Start(t, k) \in Nat
      /\ Start(t, k) <= Ends(t)[k] /\ Ends(t)[k] <= Ends(t)[l - 1]
  BY <1>3, <1>4, StartsGrow
<1>6. Ends(t)[k] \in 1..Len(t) + 1 /\ Ends(t)[l - 1] \in 1..Len(t) + 1
  BY <1>5, EndsInOrder
<1>7. Start(t, k) \in 1..Len(t) + 1
  BY <1>5, StartsInOrder
<1>8. k <= l - 1
  BY <1>1, <1>3, <1>4
<1>9. QED  BY <1>3, <1>5, <1>6, <1>7, <1>8 DEF k, l

LEMMA OneCharacter ==
  ASSUME NEW S, NEW t \in Seq(S), NEW i \in 1..Len(t)
  PROVE  SubSeq(t, i, i) = <<t[i]>>
<1> DEFINE p == SubSeq(t, i, i)
<1>1. i \in 1..Len(t) + 1 /\ i \in i - 1..Len(t) /\ i + 1 - i = 1 /\ i + 1 - 1 = i
  OBVIOUS
<1>2. p \in Seq(S) /\ Len(p) = 1 /\ p[1] = t[i]
  BY <1>1, Segment
<1> HIDE DEF p
<1>3. p = <<t[i]>>
  BY <1>2
<1>4. QED  BY <1>3 DEF p

\* The part of a level: where it starts and ends, and that each of its characters
\* covers its own part.
Placed(cut, t, w, n) ==
  /\ Place(cut, t, w, n, Start(w, n)) = Start(t, cut[n])
  /\ \A j \in Start(w, n)..Ends(w)[n] : Place(cut, t, w, n, j) \in 1..Len(t) + 1
  /\ \A j \in Start(w, n)..Ends(w)[n] - 1 :
       /\ Place(cut, t, w, n, j) <= Place(cut, t, w, n, j + 1)
       /\ Covers(w[j], SubSeq(t, Place(cut, t, w, n, j), Place(cut, t, w, n, j + 1) - 1))

LEMMA WildcardIsPlaced ==
  ASSUME NEW S, NEW t \in Seq(S), NEW w \in Seq(S), NEW cut, IsLevelCut(cut, t, w),
         NEW n \in 1..Len(Ends(w)), Level(w, n) \in {<<"+">>, <<"*">>},
         Ends(w)[n] = Start(w, n) + 1, Level(w, n) = <<w[Start(w, n)]>>
  PROVE  Placed(cut, t, w, n)
<1> DEFINE a == Start(w, n)
           b == Ends(w)[n]
           k == cut[n]
           l == cut[n + 1]
           x == Start(t, k)
           y == Ends(t)[l - 1]
           P(j) == Place(cut, t, w, n, j)
<1>1. Len(t) \in Nat /\ Len(w) \in Nat /\ Len(Ends(t)) \in Nat
  BY EndsInOrder
<1>2. /\ k \in 1..Len(Ends(t)) /\ l - 1 \in 1..Len(Ends(t)) /\ l \in 1..Len(Ends(t)) + 1
      /\ x \in 1..Len(t) + 1 /\ y \in 1..Len(t) + 1 /\ x <= y
  BY <1>1, NamedLevels
<1>3. a \in Nat /\ b = a + 1
  BY LevelChars
<1>4. P(b) = y /\ (a # b => P(a) = x + (a - a))
  BY DEF Place
<1>5. Names(Levels(t), Level(w, n), k, l)
  BY DEF IsLevelCut
<1>6. Covers(w[a], SubSeq(t, x, y - 1))
  <2>1. CASE Level(w, n) = <<"*">>
    <3>1. w[a] = "*"
      BY <2>1
    <3> HIDE DEF a, b, k, l, x, y, P
    <3>2. LevelsOnOneLine(Levels(t), k, l)
      BY <1>5, <2>1 DEF Names
    <3>3. k < l
      BY <1>5 DEF Names
    <3>4. k <= l - 1 /\ (l - 1) + 1 = l /\ l - 1 \in 1..Len(Ends(t))
      BY <1>1, <1>2, <3>3
    <3>5. OneLine(t, x, y)
      BY <1>2, <3>2, <3>4, LevelsShareOneLine DEF x, y
    <3>6. Covers("*", SubSeq(t, x, y - 1))
      BY <1>2, <3>5, StarCovers
    <3>7. QED  BY <3>1, <3>6
  <2>2. CASE Level(w, n) = <<"+">>
    <3>1. w[a] = "+" /\ <<"+">> # <<"*">>
      BY <2>2
    <3> HIDE DEF a, b, k, l, x, y, P
    <3>2. l = k + 1 /\ Levels(t)[k] # <<>>
      BY <1>5, <2>2, <3>1 DEF Names
    <3>3. l - 1 = k
      BY <1>1, <1>2, <3>2
    <3>4. Levels(t)[k] = SubSeq(t, x, y - 1)
      BY <1>1, <1>2, <3>3, LevelsAre DEF Level, x, y
    <3>5. \A i \in x..y - 1 : t[i] # "/"
      BY <1>1, <1>2, <3>3, StartsInOrder DEF x, y
    <3> DEFINE q == SubSeq(t, x, y - 1)
    <3>6. Len(q) = y - x /\ q \in Seq(S) /\ \A d \in 1..y - x : q[d] = t[x + d - 1]
      <4>1. y - 1 \in x - 1..Len(t) /\ (y - 1) + 1 - x = y - x
        BY <1>1, <1>2
      <4>2. QED  BY <1>2, <4>1, Segment
    <3> HIDE DEF q
    <3>7. "/" \notin Range(q)
      <4> SUFFICES ASSUME NEW d \in 1..y - x, q[d] = "/" PROVE FALSE
        BY <3>6 DEF Range
      <4>1. x + d - 1 \in x..y - 1
        BY <1>2
      <4>2. QED  BY <3>5, <3>6, <4>1
    <3>8. q # <<>>
      BY <3>2, <3>4 DEF q
    <3>9. QED  BY <3>1, <3>7, <3>8 DEF Covers, q
  <2>3. QED  BY <2>1, <2>2
<1> HIDE DEF a, b, x, y, P
<1>7. P(a) = x /\ P(a + 1) = y
  BY <1>2, <1>3, <1>4
<1>8. \A j \in a..b : j = a \/ j = a + 1
  BY <1>3
<1>9. \A j \in a..b - 1 : j = a
  BY <1>3
<1>10. /\ P(a) = x
       /\ \A j \in a..b : P(j) \in 1..Len(t) + 1
       /\ \A j \in a..b - 1 : P(j) <= P(j + 1) /\ Covers(w[j], SubSeq(t, P(j), P(j + 1) - 1))
  BY <1>2, <1>6, <1>7, <1>8, <1>9
<1>11. QED  BY <1>10 DEF Placed, a, b, x, P

LEMMA LiteralIsPlaced ==
  ASSUME NEW S, NEW t \in Seq(S), NEW w \in Seq(S), NEW cut, IsLevelCut(cut, t, w),
         NEW n \in 1..Len(Ends(w)), Level(w, n) \notin {<<"+">>, <<"*">>},
         \A i \in Start(w, n)..Ends(w)[n] - 1 : w[i] \notin {"+", "*"}
  PROVE  Placed(cut, t, w, n)
<1> DEFINE a == Start(w, n)
           b == Ends(w)[n]
           k == cut[n]
           l == cut[n + 1]
           x == Start(t, k)
           y == Ends(t)[l - 1]
           P(j) == Place(cut, t, w, n, j)
<1>1. Len(t) \in Nat /\ Len(w) \in Nat /\ Len(Ends(t)) \in Nat
  BY EndsInOrder
<1>2. /\ k \in 1..Len(Ends(t)) /\ l \in 1..Len(Ends(t)) + 1
      /\ x \in 1..Len(t) + 1 /\ y \in 1..Len(t) + 1 /\ x <= y
  BY <1>1, NamedLevels
<1>3. /\ a \in Nat /\ b \in Nat /\ a <= b /\ Len(Level(w, n)) = b - a
      /\ \A d \in 1..b - a : Level(w, n)[d] = w[a + d - 1]
  BY LevelChars
<1>4. \A j : P(j) = IF j = b THEN y ELSE x + (j - a)
  BY DEF Place
<1>5. l = k + 1 /\ Levels(t)[k] = Level(w, n)
  BY DEF IsLevelCut, Names
<1>6. \A i \in a..b - 1 : w[i] \notin {"+", "*"}
  OBVIOUS
<1> HIDE DEF a, b, k, l, x, y, P
<1>7. l - 1 = k
  BY <1>1, <1>2, <1>5
<1>8. Level(t, k) = Level(w, n)
  BY <1>1, <1>2, <1>5, LevelsAre
<1>9. Len(Level(t, k)) = y - x /\ \A d \in 1..y - x : Level(t, k)[d] = t[x + d - 1]
  BY <1>2, <1>7, LevelChars DEF x, y
<1>10. y - x = b - a /\ x \in Nat /\ y \in Nat
  BY <1>2, <1>3, <1>8, <1>9
<1>11. \A j \in a..b : P(j) = x + (j - a)
  <2> SUFFICES ASSUME NEW j \in a..b PROVE P(j) = x + (j - a)
    OBVIOUS
  <2>1. y = x + (b - a)
    BY <1>3, <1>10
  <2>2. QED  BY <1>4, <2>1
<1>12. ASSUME NEW j \in a..b - 1
       PROVE  /\ P(j) <= P(j + 1)
              /\ Covers(w[j], SubSeq(t, P(j), P(j + 1) - 1))
  <2>1. j \in a..b /\ j + 1 \in a..b /\ j \in Nat
    BY <1>3
  <2> DEFINE i == x + (j - a)
  <2>2. P(j) = i /\ P(j + 1) = x + ((j + 1) - a)
    BY <1>11, <2>1
  <2>3. x + ((j + 1) - a) = i + 1 /\ i + 1 - 1 = i /\ i \in 1..Len(t) /\ i \in Nat
    BY <1>1, <1>2, <1>3, <1>10, <2>1
  <2>4. SubSeq(t, i, i) = <<t[i]>>
    BY <2>3, OneCharacter
  <2>5. t[i] = w[j]
    <3>1. j + 1 - a \in 1..b - a /\ a + (j + 1 - a) - 1 = j /\ x + (j + 1 - a) - 1 = i
      BY <1>3, <1>10, <2>1
    <3>2. Level(w, n)[j + 1 - a] = w[j]
      BY <1>3, <3>1
    <3>3. Level(t, k)[j + 1 - a] = t[i]
      BY <1>9, <1>10, <3>1
    <3>4. QED  BY <1>8, <3>2, <3>3
  <2> HIDE DEF i
  <2>6. P(j) = i /\ P(j + 1) = i + 1
    BY <2>2, <2>3
  <2>7. SubSeq(t, P(j), P(j + 1) - 1) = <<w[j]>>
    BY <2>3, <2>4, <2>5, <2>6
  <2>8. Covers(w[j], <<w[j]>>)
    BY <1>6 DEF Covers
  <2>9. P(j) <= P(j + 1)
    BY <2>3, <2>6
  <2>10. Covers(w[j], SubSeq(t, P(j), P(j + 1) - 1))
    BY <2>7, <2>8
  <2>11. QED  BY <2>9, <2>10
<1>13. ASSUME NEW j \in a..b PROVE P(j) \in 1..Len(t) + 1
  <2>1. P(j) = x + (j - a)
    BY <1>11
  <2>2. QED  BY <1>1, <1>2, <1>3, <1>10, <2>1
<1>14. P(a) = x
  <2>1. P(a) = x + (a - a)
    BY <1>3, <1>11
  <2>2. QED  BY <1>3, <1>10, <2>1
<1>15. QED  BY <1>12, <1>13, <1>14 DEF Placed, a, b, k, x, P

LEMMA LevelIsPlaced ==
  ASSUME NEW S, NEW t \in Seq(S), NEW w \in Seq(S), WellFormed(w), NEW cut, IsLevelCut(cut, t, w),
         NEW n \in 1..Len(Ends(w))
  PROVE  Placed(cut, t, w, n)
BY LevelKinds, WildcardIsPlaced, LiteralIsPlaced

\* The parts that the levels give every character of the subscription.
Cut(cut, t, w) ==
  [j \in 1..Len(w) + 1 |->
     LET n == CHOOSE n \in 1..Len(Ends(w)) : j \in Start(w, n)..Ends(w)[n]
     IN  Place(cut, t, w, n, j)]

LEMMA CutIsPlaced ==
  ASSUME NEW t, NEW w, Len(w) \in Nat, NEW cut, NEW n \in 1..Len(Ends(w)),
         NEW j \in Start(w, n)..Ends(w)[n]
  PROVE  j \in 1..Len(w) + 1 /\ Cut(cut, t, w)[j] = Place(cut, t, w, n, j)
<1> DEFINE m == CHOOSE m \in 1..Len(Ends(w)) : j \in Start(w, m)..Ends(w)[m]
<1>1. j \in 1..Len(w) + 1
  <2>1. Start(w, n) \in 1..Len(w) + 1 /\ Ends(w)[n] \in 1..Len(w) + 1
    BY EndsInOrder, StartsInOrder
  <2>2. QED  BY <2>1
<1>2. m \in 1..Len(Ends(w)) /\ j \in Start(w, m)..Ends(w)[m]
  OBVIOUS
<1>3. Cut(cut, t, w)[j] = Place(cut, t, w, m, j)
  BY <1>1 DEF Cut
<1> HIDE DEF m
<1>4. m = n
  BY <1>2, InOneLevel
<1>5. QED  BY <1>1, <1>3, <1>4

\* Between two levels: the slash of the subscription covers that of the topic.
LEMMA SlashIsPlaced ==
  ASSUME NEW S, NEW t \in Seq(S), NEW w \in Seq(S), WellFormed(w), NEW cut, IsLevelCut(cut, t, w),
         NEW n \in 1..Len(Ends(w)), Ends(w)[n] \in 1..Len(w)
  PROVE  LET c == Cut(cut, t, w)
             j == Ends(w)[n]
         IN  c[j] <= c[j + 1] /\ Covers(w[j], SubSeq(t, c[j], c[j + 1] - 1))
<1> DEFINE c == Cut(cut, t, w)
           j == Ends(w)[n]
           l == cut[n + 1]
           y == Ends(t)[l - 1]
           K == Len(Ends(w))
           L == Len(Ends(t))
<1>1. Len(t) \in Nat /\ Len(w) \in Nat /\ K \in Nat /\ L \in Nat
  BY EndsInOrder
<1>2. j \in Start(w, n)..j /\ j \in Start(w, n)..Ends(w)[n]
  <2>1. Start(w, n) \in Nat /\ Start(w, n) <= j
    BY <1>1, StartsInOrder
  <2>2. j \in Nat
    OBVIOUS
  <2> HIDE DEF j
  <2>3. j \in Start(w, n)..j
    BY <2>1, <2>2
  <2>4. QED  BY <2>3 DEF j
<1>3. n < K
  <2>1. Start(w, K + 1) = Len(w) + 2 /\ Start(w, n + 1) = j + 1
    BY <1>1, StartsInOrder
  <2>2. j \in 1..Len(w)
    OBVIOUS
  <2> HIDE DEF j
  <2>3. n # K
    BY <1>1, <2>1, <2>2
  <2>4. QED  BY <1>1, <2>3
<1>4. n + 1 \in 1..K
  BY <1>1, <1>3
<1>5. w[j] = "/"
  BY <1>1, <1>3, EndsInOrder
<1>6. c[j] = y
  <2>1. c[j] = Place(cut, t, w, n, j)
    BY <1>1, <1>2, CutIsPlaced
  <2>2. QED  BY <2>1 DEF Place
<1>7. c[j + 1] = Start(t, l)
  <2>1. Start(w, n + 1) = j + 1
    BY <1>1, StartsInOrder
  <2>2. Start(w, n + 1) \in Start(w, n + 1)..Ends(w)[n + 1]
    <3>1. Start(w, n + 1) \in 1..Len(w) + 1 /\ Start(w, n + 1) <= Ends(w)[n + 1]
      BY <1>1, <1>4, StartsInOrder
    <3>2. Ends(w)[n + 1] \in Nat
      BY <1>1, <1>4, EndsInOrder
    <3>3. QED  BY <3>1, <3>2
  <2>3. c[Start(w, n + 1)] = Place(cut, t, w, n + 1, Start(w, n + 1))
    BY <1>1, <1>4, <2>2, CutIsPlaced
  <2>4. Placed(cut, t, w, n + 1)
    BY <1>4, LevelIsPlaced
  <2>5. Place(cut, t, w, n + 1, Start(w, n + 1)) = Start(t, l)
    BY <2>4 DEF Placed
  <2>6. QED  BY <2>1, <2>3, <2>5
<1>8. l - 1 \in 1..L /\ y \in 1..Len(t) + 1 /\ Start(t, l) = y + 1
  BY <1>1, NamedLevels
<1>9. l \in 1..L
  BY <1>1, <1>4, NamedLevels
<1>10. y \in 1..Len(t) /\ t[y] = "/"
  <2>1. l - 1 < L
    BY <1>1, <1>8, <1>9
  <2>2. QED  BY <1>1, <1>8, <2>1, EndsInOrder
<1> HIDE DEF c, j, y, l
<1>11. c[j + 1] = y + 1 /\ y + 1 - 1 = y /\ y \in Nat
  BY <1>7, <1>8
<1>12. SubSeq(t, c[j], c[j + 1] - 1) = <<"/">>
  BY <1>6, <1>10, <1>11, OneCharacter
<1>13. Covers("/", <<"/">>)
  BY DEF Covers
<1>14. c[j] <= c[j + 1]
  BY <1>6, <1>11
<1>15. Covers(w[j], SubSeq(t, c[j], c[j + 1] - 1))
  BY <1>5, <1>12, <1>13
<1>16. QED  BY <1>14, <1>15 DEF c, j

\* Every topic that the levels describe is accepted by the expression.
LEMMA LevelsGiveCut ==
  ASSUME NEW S, NEW t \in Seq(S), NEW w \in Seq(S), WellFormed(w), LevelsMatch(t, w)
  PROVE  HasCut(t, w, 1, 1)
<1>1. Len(t) \in Nat /\ Len(w) \in Nat
  OBVIOUS
<1>2. PICK cut : IsLevelCut(cut, t, w)
  BY <1>1, LevelsMatchIsCut
<1> DEFINE c == Cut(cut, t, w)
           K == Len(Ends(w))
           L == Len(Ends(t))
           At(j) == c[j] <= c[j + 1] /\ Covers(w[j], SubSeq(t, c[j], c[j + 1] - 1))
<1>3. K \in Nat /\ K > 0 /\ L \in Nat /\ L > 0
  BY <1>1, EndsInOrder
<1>4. \A n \in 1..K : Placed(cut, t, w, n)
  BY <1>2, LevelIsPlaced
<1>5. \A n \in 1..K : \A j \in Start(w, n)..Ends(w)[n] : c[j] = Place(cut, t, w, n, j)
  BY <1>1, CutIsPlaced
<1>6. \A j \in 1..Len(w) + 1 : \E n \in 1..K : j \in Start(w, n)..Ends(w)[n]
  BY <1>1, StartsInOrder
<1>7. c \in [1..Len(w) + 1 -> 1..Len(t) + 1]
  <2>1. c = [j \in 1..Len(w) + 1 |-> c[j]]
    BY DEF Cut
  <2> HIDE DEF c
  <2>2. ASSUME NEW j \in 1..Len(w) + 1 PROVE c[j] \in 1..Len(t) + 1
    <3>1. PICK n \in 1..K : j \in Start(w, n)..Ends(w)[n]
      BY <1>6
    <3>2. QED  BY <1>4, <1>5, <3>1 DEF Placed
  <2>3. QED  BY <2>1, <2>2
<1> HIDE DEF c
<1>8. c[1] = 1
  <2>1. 1 \in 1..K /\ Start(w, 1) = 1 /\ Start(t, 1) = 1 /\ cut[1] = 1
    BY <1>1, <1>2, <1>3, StartsInOrder DEF IsLevelCut
  <2>2. 1 \in Start(w, 1)..Ends(w)[1]
    <3>1. 1 <= Ends(w)[1] /\ Ends(w)[1] \in Nat
      BY <1>1, <2>1, EndsInOrder
    <3>2. QED  BY <2>1, <3>1
  <2>3. c[1] = Place(cut, t, w, 1, Start(w, 1))
    BY <1>5, <2>1, <2>2
  <2>4. QED  BY <1>4, <2>1, <2>3 DEF Placed
<1>9. c[Len(w) + 1] = Len(t) + 1
  <2>1. K \in 1..K /\ Start(w, K + 1) = Len(w) + 2 /\ Start(w, K + 1) = Ends(w)[K] + 1
    BY <1>1, <1>3, StartsInOrder
  <2>2. L \in 1..L /\ Start(t, L + 1) = Len(t) + 2 /\ Start(t, L + 1) = Ends(t)[L] + 1
    BY <1>1, <1>3, StartsInOrder
  <2>3. Ends(w)[K] \in Nat /\ Ends(t)[L] \in Nat
    BY <1>1, <2>1, <2>2, EndsInOrder
  <2>4. Ends(w)[K] = Len(w) + 1 /\ Ends(t)[L] = Len(t) + 1
    BY <1>1, <2>1, <2>2, <2>3
  <2>5. cut[K + 1] = L + 1 /\ L + 1 - 1 = L
    BY <1>2, <1>3 DEF IsLevelCut
  <2>6. Place(cut, t, w, K, Ends(w)[K]) = Ends(t)[L]
    BY <2>5 DEF Place
  <2>7. Len(w) + 1 \in Start(w, K)..Ends(w)[K]
    <3>1. Start(w, K) \in Nat /\ Start(w, K) <= Ends(w)[K]
      BY <1>1, <2>1, StartsInOrder
    <3>2. QED  BY <1>1, <2>4, <3>1
  <2>8. c[Len(w) + 1] = Place(cut, t, w, K, Len(w) + 1)
    BY <1>5, <2>1, <2>7
  <2>9. QED  BY <2>4, <2>6, <2>8
<1>10. ASSUME NEW j \in 1..Len(w) PROVE At(j)
  <2>1. j \in 1..Len(w) + 1 /\ j \in Nat
    BY <1>1
  <2>2. PICK n \in 1..K : j \in Start(w, n)..Ends(w)[n]
    BY <1>6, <2>1
  <2>3. Start(w, n) \in Nat /\ Ends(w)[n] \in Nat
    <3>1. Start(w, n) \in 1..Len(w) + 1
      BY <1>1, StartsInOrder
    <3>2. Ends(w)[n] \in 1..Len(w) + 1
      BY <1>1, EndsInOrder
    <3>3. QED  BY <3>1, <3>2
  <2>4. CASE j = Ends(w)[n]
    BY <1>2, <2>2, <2>4, SlashIsPlaced DEF c
  <2>5. CASE j # Ends(w)[n]
    <3>1. j \in Start(w, n)..Ends(w)[n] - 1 /\ j + 1 \in Start(w, n)..Ends(w)[n]
      BY <2>1, <2>2, <2>3, <2>5
    <3>2. c[j] = Place(cut, t, w, n, j) /\ c[j + 1] = Place(cut, t, w, n, j + 1)
      BY <1>5, <2>2, <3>1
    <3>3. QED  BY <1>4, <3>1, <3>2 DEF Placed
  <2>6. QED  BY <2>4, <2>5
<1>11. IsCut(c, t, w, 1, 1)
  BY <1>7, <1>8, <1>9, <1>10 DEF IsCut
<1>12. QED  BY <1>11 DEF HasCut

\* Where the wildcards stand for whole levels, the expression that the server
\* builds accepts exactly the topics its levels describe.
LEMMA CutIsLevelwise ==
  ASSUME NEW S, NEW t \in Seq(S), NEW w \in Seq(S), WellFormed(w)
  PROVE  matches_wildcard_path(t, w) <=> LevelsMatch(t, w)
<1>1. Len(t) \in Nat /\ Len(w) \in Nat
  OBVIOUS
<1>2. matches_wildcard_path(t, w) <=> HasCut(t, w, 1, 1)
  BY <1>1, MatchIsCut
<1>3. ASSUME HasCut(t, w, 1, 1) PROVE LevelsMatch(t, w)
  BY <1>3, CutGivesLevels DEF HasCut
<1>4. ASSUME LevelsMatch(t, w) PROVE HasCut(t, w, 1, 1)
  BY <1>4, LevelsGiveCut
<1>5. QED  BY <1>2, <1>3, <1>4

-----------------------------------------------------------------------------
(* The invariants of MCWildcard.                                           *)

Char == Letters \cup {"/", "\n", "+", "*"}

NamesTyped == topic \in Seq(Char) /\ wildcard_topic \in Seq(Char)

LEMMA NamesStayTyped == Spec => []NamesTyped
<1>1. Init => NamesTyped
  BY DEF Init, NamesTyped
<1>2. NamesTyped /\ [Next]_<<topic, wildcard_topic>> => NamesTyped'
  <2> SUFFICES ASSUME NamesTyped, [Next]_<<topic, wildcard_topic>> PROVE NamesTyped'
    OBVIOUS
  <2>1. Letters \cup {"/", "\n"} \subseteq Char /\ Letters \cup {"/", "\n", "+", "*"} \subseteq Char
    BY DEF Char
  <2>2. CASE GrowTopic
    BY <2>1, <2>2 DEF NamesTyped, GrowTopic
  <2>3. CASE GrowWildcard
    BY <2>1, <2>3 DEF NamesTyped, GrowWildcard
  <2>4. CASE UNCHANGED <<topic, wildcard_topic>>
    BY <2>4 DEF NamesTyped
  <2>5. QED  BY <2>2, <2>3, <2>4 DEF Next
<1>3. QED  BY <1>1, <1>2, PTL DEF Spec

\* Whatever the topic, the subscription and their lengths, matches_wildcard_path
\* (server_helper.hpp) accepts by levels, where the wildcards are whole levels.
THEOREM RegexAcceptsLevels == Spec => []RegexIsLevelwise
<1>1. NamesTyped => RegexIsLevelwise
  BY CutIsLevelwise DEF NamesTyped, RegexIsLevelwise
<1>2. QED  BY <1>1, NamesStayTyped, PTL

\* Whatever its characters and its length, a name matches itself.
THEOREM NamesMatchThemselves == Spec => []NameMatchesItself
<1>1. NamesTyped => NameMatchesItself
  BY EveryNameMatchesItself DEF NamesTyped, NameMatchesItself
<1>2. QED  BY <1>1, NamesStayTyped, PTL
=============================================================================
