-------------------------- MODULE SelectionProofs --------------------------
(***************************************************************************)
(* What Filter returns, for every sequence and set.                        *)
(***************************************************************************)
EXTENDS Selection, Functions, TLAPS, WellFoundedInduction

\* There is a least one among the numbers with a property.
LEMMA LeastExists ==
  ASSUME NEW S, S \subseteq Nat, S # {}
  PROVE  \E n \in S : \A k \in S : n <= k
<1>1. PICK n \in S : \A k \in S : ~(<<k, n>> \in OpToRel(<, Nat))
  <2>1. IsWellFoundedOn(OpToRel(<, Nat), Nat)
    BY NatLessThanWellFounded
  <2>2. QED  BY <2>1, WFMin
<1>2. \A k \in S : ~(k < n)
  BY <1>1, Zenon DEF OpToRel
<1>3. QED  BY <1>2

\* Induction, of a set of numbers: no number can be the least outside it.
LEMMA Induction ==
  ASSUME NEW S, 0 \in S, \A n \in Nat : n \in S => n + 1 \in S
  PROVE  Nat \subseteq S
<1> SUFFICES ASSUME Nat \ S # {} PROVE FALSE
  OBVIOUS
<1>1. PICK m \in Nat \ S : \A n \in Nat \ S : m <= n
  BY LeastExists
<1>2. m - 1 \in Nat /\ m - 1 \in S /\ m = (m - 1) + 1
  <2>1. m # 0
    OBVIOUS
  <2>2. m - 1 \in Nat /\ m - 1 < m /\ m = (m - 1) + 1
    BY <2>1
  <2>3. QED  BY <1>1, <2>2
<1>3. QED  BY <1>2

\* The loop over the first n elements has taken f[n].
Takes(s, good, f, n) ==
  f = [k \in 0..n |->
         IF k = 0 THEN <<>>
         ELSE IF s[k] \in good THEN Append(f[k - 1], s[k]) ELSE f[k - 1]]

LEMMA LoopRuns ==
  ASSUME NEW s, NEW good, NEW n \in Nat
  PROVE  \E f : Takes(s, good, f, n)
<1> DEFINE R == {k \in Nat : \E f : Takes(s, good, f, k)}
<1>1. 0 \in R
  <2>1. Takes(s, good, [k \in 0..0 |-> <<>>], 0)
    BY DEF Takes
  <2>2. QED  BY <2>1
<1>2. ASSUME NEW k \in Nat, k \in R
      PROVE  k + 1 \in R
  <2>1. PICK f : Takes(s, good, f, k)
    BY <1>2
  <2> DEFINE next == IF s[k + 1] \in good THEN Append(f[k], s[k + 1]) ELSE f[k]
             g    == [j \in 0..k + 1 |-> IF j = k + 1 THEN next ELSE f[j]]
  <2>2. \A j \in 0..k + 1 :
          g[j] = IF j = 0 THEN <<>>
                 ELSE IF s[j] \in good THEN Append(g[j - 1], s[j]) ELSE g[j - 1]
    <3>1. \A j \in 0..k : f[j] = IF j = 0 THEN <<>>
                                 ELSE IF s[j] \in good THEN Append(f[j - 1], s[j]) ELSE f[j - 1]
      BY <2>1 DEF Takes
    <3>2. \A j \in 0..k : g[j] = f[j] /\ j # k + 1
      OBVIOUS
    <3>3. \A j \in 0..k : j # 0 => j - 1 \in 0..k
      OBVIOUS
    <3>4. g[k + 1] = next /\ k \in 0..k /\ (k + 1) - 1 = k /\ k + 1 # 0
      OBVIOUS
    <3>5. \A j \in 0..k + 1 : j \in 0..k \/ j = k + 1
      OBVIOUS
    <3> HIDE DEF g
    <3>6. QED  BY <3>1, <3>2, <3>3, <3>4, <3>5
  <2>3. g = [j \in 0..k + 1 |->
               IF j = 0 THEN <<>>
               ELSE IF s[j] \in good THEN Append(g[j - 1], s[j]) ELSE g[j - 1]]
    <3>1. g = [j \in 0..k + 1 |-> g[j]]
      OBVIOUS
    <3> HIDE DEF g
    <3>2. QED  BY <2>2, <3>1
  <2> HIDE DEF g
  <2>4. Takes(s, good, g, k + 1)
    BY <2>3 DEF Takes
  <2>5. QED  BY <2>4
<1> HIDE DEF R
<1>3. n \in R
  BY <1>1, <1>2, Induction
<1>4. QED  BY <1>3 DEF R

\* The loops over two sequences that begin alike take the same so far.
LEMMA LoopIsDetermined ==
  ASSUME NEW s, NEW t, NEW good, NEW f, NEW g, NEW m \in Nat, NEW n \in Nat,
         Takes(s, good, f, m), Takes(t, good, g, n),
         NEW l \in Nat, l <= m, l <= n, \A k \in 1..l : s[k] = t[k]
  PROVE  f[l] = g[l]
<1> DEFINE R == {k \in Nat : k <= l => f[k] = g[k]}
<1>1. 0 \in R
  BY DEF Takes
<1>2. ASSUME NEW k \in Nat, k \in R
      PROVE  k + 1 \in R
  <2> SUFFICES ASSUME k + 1 <= l PROVE f[k + 1] = g[k + 1]
    OBVIOUS
  <2>1. f[k] = g[k] /\ s[k + 1] = t[k + 1] /\ k + 1 \in 0..m /\ k + 1 \in 0..n
    BY <1>2
  <2>2. k + 1 # 0 /\ (k + 1) - 1 = k
    OBVIOUS
  <2>3. f[k + 1] = IF s[k + 1] \in good THEN Append(f[k], s[k + 1]) ELSE f[k]
    BY <2>1, <2>2 DEF Takes
  <2>4. g[k + 1] = IF t[k + 1] \in good THEN Append(g[k], t[k + 1]) ELSE g[k]
    BY <2>1, <2>2 DEF Takes
  <2>5. QED  BY <2>1, <2>3, <2>4
<1> HIDE DEF R
<1>3. l \in R
  BY <1>1, <1>2, Induction
<1>4. QED  BY <1>3 DEF R

LEMMA FilterIsLoop ==
  ASSUME NEW s, NEW good, Len(s) \in Nat
  PROVE  \E f : Takes(s, good, f, Len(s)) /\ Filter(s, good) = f[Len(s)]
<1> DEFINE f == CHOOSE f : Takes(s, good, f, Len(s))
<1>1. Takes(s, good, f, Len(s))
  BY LoopRuns
<1>2. Filter(s, good) = f[Len(s)]
  BY DEF Filter, Takes
<1>3. QED  BY <1>1, <1>2

-----------------------------------------------------------------------------
LEMMA RangeOfAppend ==
  ASSUME NEW S, NEW s \in Seq(S), NEW e \in S
  PROVE  /\ Append(s, e) \in Seq(S) /\ Len(Append(s, e)) = Len(s) + 1
         /\ Range(Append(s, e)) = Range(s) \cup {e}
<1> DEFINE t == Append(s, e)
<1>1. /\ t \in Seq(S) /\ Len(s) \in Nat /\ Len(t) = Len(s) + 1
      /\ DOMAIN s = 1..Len(s) /\ DOMAIN t = 1..Len(s) + 1
      /\ t[Len(s) + 1] = e /\ \A k \in 1..Len(s) : t[k] = s[k]
  OBVIOUS
<1> HIDE DEF t
<1>2. 1..Len(s) + 1 = (1..Len(s)) \cup {Len(s) + 1}
  BY <1>1
<1>3. Range(t) = Range(s) \cup {e}
  BY <1>1, <1>2 DEF Range
<1>4. QED  BY <1>1, <1>3 DEF t

LEMMA FilterEmpty ==
  ASSUME NEW good
  PROVE  Filter(<<>>, good) = <<>>
<1>1. PICK f : Takes(<<>>, good, f, 0) /\ Filter(<<>>, good) = f[0]
  BY FilterIsLoop
<1>2. QED  BY <1>1 DEF Takes

LEMMA FilterAppend ==
  ASSUME NEW S, NEW s \in Seq(S), NEW e \in S, NEW good
  PROVE  Filter(Append(s, e), good) =
           IF e \in good THEN Append(Filter(s, good), e) ELSE Filter(s, good)
<1> DEFINE t == Append(s, e)
           n == Len(s)
<1>1. t \in Seq(S) /\ n \in Nat /\ Len(t) = n + 1 /\ t[n + 1] = e /\ \A k \in 1..n : t[k] = s[k]
  OBVIOUS
<1> HIDE DEF t, n
<1>2. PICK f : Takes(s, good, f, n) /\ Filter(s, good) = f[n]
  BY <1>1, FilterIsLoop DEF n
<1>3. PICK g : Takes(t, good, g, n + 1) /\ Filter(t, good) = g[n + 1]
  BY <1>1, FilterIsLoop
<1>4. g[n] = f[n]
  BY <1>1, <1>2, <1>3, LoopIsDetermined
<1>5. n + 1 \in 0..n + 1 /\ n + 1 # 0 /\ (n + 1) - 1 = n
  BY <1>1
<1>6. g[n + 1] = IF t[n + 1] \in good THEN Append(g[n], t[n + 1]) ELSE g[n]
  BY <1>3, <1>5 DEF Takes
<1>7. QED  BY <1>1, <1>2, <1>3, <1>4, <1>6 DEF t

\* What is taken is what is there and good.
LEMMA FilterProperties ==
  ASSUME NEW S, NEW s \in Seq(S), NEW good
  PROVE  /\ Filter(s, good) \in Seq(S)
         /\ Len(Filter(s, good)) <= Len(s)
         /\ Range(Filter(s, good)) = Range(s) \cap good
<1> DEFINE Says(t) == /\ Filter(t, good) \in Seq(S)
                      /\ Len(Filter(t, good)) <= Len(t)
                      /\ Range(Filter(t, good)) = Range(t) \cap good
           R == {n \in Nat : \A t \in Seq(S) : Len(t) = n => Says(t)}
<1>1. 0 \in R
  <2> SUFFICES ASSUME NEW t \in Seq(S), Len(t) = 0 PROVE Says(t)
    OBVIOUS
  <2>1. t = <<>> /\ <<>> \in Seq(S) /\ Range(<<>>) = {}
    BY DEF Range
  <2>2. Filter(t, good) = <<>>
    BY <2>1, FilterEmpty
  <2>3. Range(t) \cap good = {} /\ Range(Filter(t, good)) = {}
    BY <2>1, <2>2
  <2>4. Filter(t, good) \in Seq(S) /\ Len(Filter(t, good)) = 0
    BY <2>1, <2>2
  <2>5. Len(Filter(t, good)) <= Len(t)
    BY <2>4
  <2>6. QED  BY <2>3, <2>4, <2>5
<1>2. ASSUME NEW n \in Nat, n \in R
      PROVE  n + 1 \in R
  <2> SUFFICES ASSUME NEW t \in Seq(S), Len(t) = n + 1 PROVE Says(t)
    OBVIOUS
  <2> DEFINE b == SubSeq(t, 1, n)
             e == t[n + 1]
  <2>1. b \in Seq(S) /\ Len(b) = n /\ e \in S /\ t = Append(b, e)
    OBVIOUS
  <2> HIDE DEF b, e
  <2>2. Filter(b, good) \in Seq(S) /\ Len(Filter(b, good)) <= n
        /\ Range(Filter(b, good)) = Range(b) \cap good
    BY <1>2, <2>1
  <2>3. ASSUME NEW q \in Seq(S)
        PROVE  /\ Append(q, e) \in Seq(S) /\ Len(Append(q, e)) = Len(q) + 1
               /\ Range(Append(q, e)) = Range(q) \cup {e}
    BY <2>1, RangeOfAppend
  <2>4. CASE e \in good
    <3>1. Filter(t, good) = Append(Filter(b, good), e)
      BY <2>1, <2>4, FilterAppend
    <3>2. QED  BY <2>1, <2>2, <2>3, <2>4, <3>1
  <2>5. CASE e \notin good
    <3>1. Filter(t, good) = Filter(b, good)
      BY <2>1, <2>5, FilterAppend
    <3>2. QED  BY <2>1, <2>2, <2>3, <2>5, <3>1
  <2>6. QED  BY <2>4, <2>5
<1> HIDE DEF R
<1>3. Len(s) \in R
  BY <1>1, <1>2, Induction
<1>4. QED  BY <1>3 DEF R
=============================================================================
