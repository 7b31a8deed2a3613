--------------------------- MODULE PayloadProofs ---------------------------
(***************************************************************************)
(* What get_udp_packet makes of a datagram, for every size of the parts of *)
(* a packet and every length of a datagram that leaves a NUL behind it.    *)
(***************************************************************************)
EXTENDS MCPayload, SelectionProofs, TLAPS

-----------------------------------------------------------------------------
(* Arithmetic.                                                             *)

LEMMA ProductAssociates ==
  ASSUME NEW a \in Nat, NEW b \in Nat, NEW c \in Nat
  PROVE  a * (b * c) = (a * b) * c
OBVIOUS

LEMMA ProductGrows ==
  ASSUME NEW a \in Nat, NEW b \in Nat, NEW c \in Nat, a <= b
  PROVE  a * c <= b * c
OBVIOUS

LEMMA ProductPositive ==
  ASSUME NEW a \in Nat, NEW b \in Nat, a > 0, b > 0
  PROVE  a * b \in Nat /\ a * b > 0
OBVIOUS

LEMMA QuotientAndRest ==
  ASSUME NEW n \in Nat, NEW d \in Nat, d > 0
  PROVE  n \div d \in Nat /\ n % d \in Nat /\ n % d < d /\ n = (n \div d) * d + (n % d)
OBVIOUS

LEMMA QuotientOfSum ==
  ASSUME NEW q \in Nat, NEW d \in Nat, NEW r \in Nat, r < d
  PROVE  (q * d + r) \div d = q /\ (q * d + r) % d = r
OBVIOUS

LEMMA QuotientBounds ==
  ASSUME NEW n \in Nat, NEW d \in Nat, NEW q \in Nat, d > 0
  PROVE  (n < q * d => n \div d < q) /\ (n >= q * d => n \div d >= q)
OBVIOUS

\* One more digit keeps a number below the power of the base.
LEMMA DigitFits ==
  ASSUME NEW v \in Nat, NEW p \in Nat, NEW c \in Nat, NEW e \in Nat, v < p, e < c
  PROVE  v * c + e < p * c
<1>1. (v + 1) * c <= p * c /\ (v + 1) * c = v * c + c
  BY ProductGrows
<1>2. QED  BY <1>1

-----------------------------------------------------------------------------
(* Powers.                                                                 *)

\* The loop in Power.
Powers(p, b, n) == p = [k \in 0..n |-> IF k = 0 THEN 1 ELSE b * p[k - 1]]

LEMMA PowersExist ==
  ASSUME NEW b, NEW n \in Nat
  PROVE  \E p : Powers(p, b, n)
<1> DEFINE R == {k \in Nat : \E p : Powers(p, b, k)}
<1>1. 0 \in R
  <2>1. Powers([k \in 0..0 |-> 1], b, 0)
    BY DEF Powers
  <2>2. QED  BY <2>1
<1>2. ASSUME NEW k \in Nat, k \in R
      PROVE  k + 1 \in R
  <2>1. PICK p : Powers(p, b, k)
    BY <1>2
  <2> DEFINE q == [j \in 0..k + 1 |-> IF j = k + 1 THEN b * p[k] ELSE p[j]]
  <2>2. \A j \in 0..k + 1 : q[j] = IF j = 0 THEN 1 ELSE b * q[j - 1]
    <3>1. \A j \in 0..k : p[j] = IF j = 0 THEN 1 ELSE b * p[j - 1]
      BY <2>1 DEF Powers
    <3>2. \A j \in 0..k : q[j] = p[j] /\ j # k + 1
      OBVIOUS
    <3>3. \A j \in 0..k : j # 0 => j - 1 \in 0..k
      OBVIOUS
    <3>4. q[k + 1] = b * p[k] /\ k \in 0..k /\ (k + 1) - 1 = k /\ k + 1 # 0
      OBVIOUS
    <3>5. \A j \in 0..k + 1 : j \in 0..k \/ j = k + 1
      OBVIOUS
    <3> HIDE DEF q
    <3>6. QED  BY <3>1, <3>2, <3>3, <3>4, <3>5
  <2>3. q = [j \in 0..k + 1 |-> IF j = 0 THEN 1 ELSE b * q[j - 1]]
    <3>1. q = [j \in 0..k + 1 |-> q[j]]
      OBVIOUS
    <3> HIDE DEF q
    <3>2. QED  BY <2>2, <3>1
  <2> HIDE DEF q
  <2>4. Powers(q, b, k + 1)
    BY <2>3 DEF Powers
  <2>5. QED  BY <2>4
<1> HIDE DEF R
<1>3. n \in R
  BY <1>1, <1>2, Induction
<1>4. QED  BY <1>3 DEF R

LEMMA PowersAgree ==
  ASSUME NEW b, NEW p, NEW q, NEW m \in Nat, NEW n \in Nat,
         Powers(p, b, m), Powers(q, b, n), NEW l \in Nat, l <= m, l <= n
  PROVE  p[l] = q[l]
<1> DEFINE R == {k \in Nat : k <= l => p[k] = q[k]}
<1>1. 0 \in R
  BY DEF Powers
<1>2. ASSUME NEW k \in Nat, k \in R
      PROVE  k + 1 \in R
  <2> SUFFICES ASSUME k + 1 <= l PROVE p[k + 1] = q[k + 1]
    OBVIOUS
  <2>1. p[k] = q[k] /\ k + 1 \in 0..m /\ k + 1 \in 0..n /\ k + 1 # 0 /\ (k + 1) - 1 = k
    BY <1>2
  <2>2. p[k + 1] = b * p[k] /\ q[k + 1] = b * q[k]
    BY <2>1 DEF Powers
  <2>3. QED  BY <2>1, <2>2
<1> HIDE DEF R
<1>3. l \in R
  BY <1>1, <1>2, Induction
<1>4. QED  BY <1>3 DEF R

LEMMA PowerIsLast ==
  ASSUME NEW b, NEW n \in Nat
  PROVE  \E p : Powers(p, b, n) /\ Power(b, n) = p[n]
<1> DEFINE p == CHOOSE p : Powers(p, b, n)
<1>1. Powers(p, b, n)
  BY PowersExist
<1>2. Power(b, n) = p[n]
  BY DEF Power, Powers
<1>3. QED  BY <1>1, <1>2

LEMMA PowerSteps ==
  ASSUME NEW b, NEW n \in Nat
  PROVE  Power(b, 0) = 1 /\ Power(b, n + 1) = b * Power(b, n)
<1>1. Power(b, 0) = 1
  <2>1. PICK p : Powers(p, b, 0) /\ Power(b, 0) = p[0]
    BY PowerIsLast
  <2>2. QED  BY <2>1 DEF Powers
<1>2. PICK p : Powers(p, b, n) /\ Power(b, n) = p[n]
  BY PowerIsLast
<1>3. PICK q : Powers(q, b, n + 1) /\ Power(b, n + 1) = q[n + 1]
  BY PowerIsLast
<1>4. q[n] = p[n]
  BY <1>2, <1>3, PowersAgree
<1>5. n + 1 \in 0..n + 1 /\ n + 1 # 0 /\ (n + 1) - 1 = n
  OBVIOUS
<1>6. q[n + 1] = b * q[n]
  BY <1>3, <1>5 DEF Powers
<1>7. QED  BY <1>1, <1>2, <1>3, <1>4, <1>6

LEMMA PowerPositive ==
  ASSUME NEW b \in Nat, b > 0, NEW n \in Nat
  PROVE  Power(b, n) \in Nat /\ Power(b, n) > 0
<1> DEFINE R == {k \in Nat : Power(b, k) \in Nat /\ Power(b, k) > 0}
<1>1. 0 \in R
  BY PowerSteps
<1>2. ASSUME NEW k \in Nat, k \in R
      PROVE  k + 1 \in R
  <2>1. Power(b, k) \in Nat /\ Power(b, k) > 0 /\ Power(b, k + 1) = b * Power(b, k)
    BY <1>2, PowerSteps
  <2>2. b * Power(b, k) \in Nat /\ b * Power(b, k) > 0
    BY <2>1, ProductPositive
  <2>3. QED  BY <2>1, <2>2
<1> HIDE DEF R
<1>3. n \in R
  BY <1>1, <1>2, Induction
<1>4. QED  BY <1>3 DEF R

LEMMA PowerOfTwoPositive ==
  \A n \in Nat : Power(2, n) \in Nat /\ Power(2, n) > 0
BY PowerPositive

LEMMA PowerOfSum ==
  ASSUME NEW b \in Nat, b > 0, NEW m \in Nat, NEW n \in Nat
  PROVE  Power(b, m + n) = Power(b, m) * Power(b, n)
<1> DEFINE R == {k \in Nat : Power(b, k + n) = Power(b, k) * Power(b, n)}
<1>1. 0 \in R
  <2>1. Power(b, 0) = 1 /\ 0 + n = n /\ Power(b, n) \in Nat
    BY PowerSteps, PowerPositive
  <2>2. QED  BY <2>1
<1>2. ASSUME NEW k \in Nat, k \in R
      PROVE  k + 1 \in R
  <2>1. Power(b, k) \in Nat /\ Power(b, n) \in Nat /\ Power(b, k + n) = Power(b, k) * Power(b, n)
    BY <1>2, PowerPositive
  <2>2. Power(b, k + 1) = b * Power(b, k)
    BY PowerSteps
  <2>3. (k + 1) + n = (k + n) + 1 /\ k + n \in Nat
    OBVIOUS
  <2>4. Power(b, (k + 1) + n) = b * Power(b, k + n)
    BY <2>3, PowerSteps
  <2>5. b * (Power(b, k) * Power(b, n)) = (b * Power(b, k)) * Power(b, n)
    BY <2>1, ProductAssociates
  <2>6. QED  BY <2>1, <2>2, <2>4, <2>5
<1> HIDE DEF R
<1>3. m \in R
  BY <1>1, <1>2, Induction
<1>4. QED  BY <1>3 DEF R

LEMMA PowerGrows ==
  ASSUME NEW b \in Nat, b > 0, NEW m \in Nat, NEW n \in Nat, m <= n
  PROVE  Power(b, m) <= Power(b, n)
<1>1. n - m \in Nat /\ n = (n - m) + m
  OBVIOUS
<1>2. Power(b, n) = Power(b, n - m) * Power(b, m)
  BY <1>1, PowerOfSum
<1>3. Power(b, m) \in Nat /\ Power(b, n - m) \in Nat /\ Power(b, n - m) >= 1
  <2>1. Power(b, m) \in Nat
    BY PowerPositive
  <2>2. Power(b, n - m) \in Nat /\ Power(b, n - m) > 0
    BY <1>1, PowerPositive
  <2>3. QED  BY <2>1, <2>2
<1>4. 1 * Power(b, m) <= Power(b, n - m) * Power(b, m)
  BY <1>3, ProductGrows
<1>5. QED  BY <1>2, <1>3, <1>4

\* The powers of two outgrow every number.
LEMMA PowerOutgrows ==
  ASSUME NEW n \in Nat
  PROVE  n < Power(2, n)
<1> DEFINE R == {k \in Nat : k < Power(2, k)}
<1>1. 0 \in R
  BY PowerSteps
<1>2. ASSUME NEW k \in Nat, k \in R
      PROVE  k + 1 \in R
  <2>1. Power(2, k) \in Nat /\ Power(2, k) > k /\ Power(2, k + 1) = 2 * Power(2, k)
    BY <1>2, PowerSteps, PowerPositive
  <2>2. QED  BY <2>1
<1> HIDE DEF R
<1>3. n \in R
  BY <1>1, <1>2, Induction
<1>4. QED  BY <1>3 DEF R

\* Every power of a number is below a power of two that is as many times longer.
LEMMA PowerBelowPowerOfTwo ==
  ASSUME NEW b \in Nat, b > 0, NEW n \in Nat
  PROVE  Power(b, n) <= Power(2, b * n)
<1> DEFINE R == {k \in Nat : Power(b, k) <= Power(2, b * k)}
<1>1. 0 \in R
  <2>1. b * 0 = 0
    OBVIOUS
  <2>2. QED  BY <2>1, PowerSteps
<1>2. ASSUME NEW k \in Nat, k \in R
      PROVE  k + 1 \in R
  <2>1. b * k \in Nat /\ b * (k + 1) = b + b * k
    OBVIOUS
  <2>2. Power(2, b * (k + 1)) = Power(2, b) * Power(2, b * k)
    BY <2>1, PowerOfSum
  <2>3. Power(b, k + 1) = b * Power(b, k)
    BY PowerSteps
  <2>4. /\ Power(b, k) \in Nat /\ Power(2, b) \in Nat /\ Power(2, b * k) \in Nat
        /\ Power(b, k) <= Power(2, b * k) /\ b <= Power(2, b)
    BY <1>2, <2>1, PowerPositive, PowerOutgrows
  <2>5. b * Power(b, k) <= Power(2, b) * Power(b, k)
    BY <2>4, ProductGrows
  <2>6. Power(b, k) * Power(2, b) <= Power(2, b * k) * Power(2, b)
    BY <2>4, ProductGrows
  <2>7. QED  BY <2>2, <2>3, <2>4, <2>5, <2>6
<1> HIDE DEF R
<1>3. n \in R
  BY <1>1, <1>2, Induction
<1>4. QED  BY <1>3 DEF R

-----------------------------------------------------------------------------
(* Numbers in the buffer.                                                  *)

\* The loop in uint over the first n bytes.
Reads(f, buffer, at, n) ==
  f = [k \in 0..n |-> IF k = 0 THEN 0 ELSE f[k - 1] * Base + buffer[at + k - 1]]

\* There are size bytes at a position.
Holds(buffer, at, size) == \A k \in 1..size : buffer[at + k - 1] \in Byte

LEMMA ReadsExist ==
  ASSUME NEW buffer, NEW at, NEW n \in Nat
  PROVE  \E f : Reads(f, buffer, at, n)
<1> DEFINE R == {k \in Nat : \E f : Reads(f, buffer, at, k)}
<1>1. 0 \in R
  <2>1. Reads([k \in 0..0 |-> 0], buffer, at, 0)
    BY DEF Reads
  <2>2. QED  BY <2>1
<1>2. ASSUME NEW k \in Nat, k \in R
      PROVE  k + 1 \in R
  <2>1. PICK f : Reads(f, buffer, at, k)
    BY <1>2
  <2> DEFINE next == f[k] * Base + buffer[at + (k + 1) - 1]
             g    == [j \in 0..k + 1 |-> IF j = k + 1 THEN next ELSE f[j]]
  <2>2. \A j \in 0..k + 1 : g[j] = IF j = 0 THEN 0 ELSE g[j - 1] * Base + buffer[at + j - 1]
    <3>1. \A j \in 0..k : f[j] = IF j = 0 THEN 0 ELSE f[j - 1] * Base + buffer[at + j - 1]
      BY <2>1 DEF Reads
    <3>2. \A j \in 0..k : g[j] = f[j] /\ j # k + 1
      OBVIOUS
    <3>3. \A j \in 0..k : j # 0 => j - 1 \in 0..k
      OBVIOUS
    <3>4. g[k + 1] = f[k] * Base + buffer[at + (k + 1) - 1]
      OBVIOUS
    <3>5. k \in 0..k /\ (k + 1) - 1 = k /\ k + 1 # 0
      OBVIOUS
    <3>6. \A j \in 0..k + 1 : j \in 0..k \/ j = k + 1
      OBVIOUS
    <3> HIDE DEF g
    <3>7. g[k + 1] = IF k + 1 = 0 THEN 0 ELSE g[(k + 1) - 1] * Base + buffer[at + (k + 1) - 1]
      <4>1. g[(k + 1) - 1] = f[k]
        BY <3>2, <3>5
      <4>2. QED  BY <3>4, <3>5, <4>1
    <3>8. ASSUME NEW j \in 0..k
          PROVE  g[j] = IF j = 0 THEN 0 ELSE g[j - 1] * Base + buffer[at + j - 1]
      BY <3>1, <3>2, <3>3
    <3>9. QED  BY <3>6, <3>7, <3>8
  <2>3. g = [j \in 0..k + 1 |-> IF j = 0 THEN 0 ELSE g[j - 1] * Base + buffer[at + j - 1]]
    <3>1. g = [j \in 0..k + 1 |-> g[j]]
      OBVIOUS
    <3> HIDE DEF g
    <3>2. QED  BY <2>2, <3>1
  <2> HIDE DEF g
  <2>4. Reads(g, buffer, at, k + 1)
    BY <2>3 DEF Reads
  <2>5. QED  BY <2>4
<1> HIDE DEF R
<1>3. n \in R
  BY <1>1, <1>2, Induction
<1>4. QED  BY <1>3 DEF R

LEMMA ReadsAgree ==
  ASSUME NEW buffer, NEW at, NEW f, NEW g, NEW m \in Nat, NEW n \in Nat,
         Reads(f, buffer, at, m), Reads(g, buffer, at, n), NEW l \in Nat, l <= m, l <= n
  PROVE  f[l] = g[l]
<1> DEFINE R == {k \in Nat : k <= l => f[k] = g[k]}
<1>1. 0 \in R
  BY DEF Reads
<1>2. ASSUME NEW k \in Nat, k \in R
      PROVE  k + 1 \in R
  <2> SUFFICES ASSUME k + 1 <= l PROVE f[k + 1] = g[k + 1]
    OBVIOUS
  <2>1. f[k] = g[k] /\ k + 1 \in 0..m /\ k + 1 \in 0..n /\ k + 1 # 0 /\ (k + 1) - 1 = k
    BY <1>2
  <2>2. f[k + 1] = f[k] * Base + buffer[at + (k + 1) - 1]
    BY <2>1 DEF Reads
  <2>3. g[k + 1] = g[k] * Base + buffer[at + (k + 1) - 1]
    BY <2>1 DEF Reads
  <2>4. QED  BY <2>1, <2>2, <2>3
<1> HIDE DEF R
<1>3. l \in R
  BY <1>1, <1>2, Induction
<1>4. QED  BY <1>3 DEF R

LEMMA uintIsLast ==
  ASSUME NEW buffer, NEW at, NEW n \in Nat
  PROVE  \E f : Reads(f, buffer, at, n) /\ uint(buffer, at, n) = f[n]
<1> DEFINE f == CHOOSE f : Reads(f, buffer, at, n)
<1>1. Reads(f, buffer, at, n)
  BY ReadsExist
<1>2. uint(buffer, at, n) = f[n]
  BY DEF uint, Reads
<1>3. QED  BY <1>1, <1>2

LEMMA uintSteps ==
  ASSUME NEW buffer, NEW at \in Nat, NEW n \in Nat
  PROVE  /\ uint(buffer, at, 0) = 0
         /\ uint(buffer, at, n + 1) = uint(buffer, at, n) * Base + buffer[at + n]
<1>1. uint(buffer, at, 0) = 0
  <2>1. PICK f : Reads(f, buffer, at, 0) /\ uint(buffer, at, 0) = f[0]
    BY uintIsLast
  <2>2. QED  BY <2>1 DEF Reads
<1>2. PICK f : Reads(f, buffer, at, n) /\ uint(buffer, at, n) = f[n]
  BY uintIsLast
<1>3. PICK g : Reads(g, buffer, at, n + 1) /\ uint(buffer, at, n + 1) = g[n + 1]
  BY uintIsLast
<1>4. g[n] = f[n]
  BY <1>2, <1>3, ReadsAgree
<1>5. n + 1 \in 0..n + 1 /\ n + 1 # 0 /\ (n + 1) - 1 = n /\ at + (n + 1) - 1 = at + n
  OBVIOUS
<1>6. g[n + 1] = g[n] * Base + buffer[at + n]
  BY <1>3, <1>5 DEF Reads
<1>7. QED  BY <1>1, <1>2, <1>3, <1>4, <1>6

LEMMA Bases ==
  Base \in Nat /\ Base > 3 /\ \A d \in Byte : d \in Nat /\ d < Base
BY PayloadAssumption DEF Byte

\* The bytes read make a number that they have room for.
LEMMA uintFits ==
  ASSUME NEW buffer, NEW at \in Nat, NEW n \in Nat, Holds(buffer, at, n)
  PROVE  uint(buffer, at, n) \in Nat /\ uint(buffer, at, n) < Power(Base, n)
<1> DEFINE R == {k \in Nat : k <= n => /\ uint(buffer, at, k) \in Nat
                                       /\ uint(buffer, at, k) < Power(Base, k)}
<1>1. 0 \in R
  BY uintSteps, PowerSteps
<1>2. ASSUME NEW k \in Nat, k \in R
      PROVE  k + 1 \in R
  <2> SUFFICES ASSUME k + 1 <= n
               PROVE  uint(buffer, at, k + 1) \in Nat /\ uint(buffer, at, k + 1) < Power(Base, k + 1)
    OBVIOUS
  <2> DEFINE v == uint(buffer, at, k)
             e == buffer[at + k]
             p == Power(Base, k)
  <2>1. v \in Nat /\ v < p
    BY <1>2
  <2>2. e \in Nat /\ e < Base
    <3>1. k + 1 \in 1..n /\ at + (k + 1) - 1 = at + k
      OBVIOUS
    <3>2. e \in Byte
      BY <3>1 DEF Holds
    <3>3. QED  BY <3>2, Bases
  <2>3. uint(buffer, at, k + 1) = v * Base + e /\ Power(Base, k + 1) = Base * p
    BY uintSteps, PowerSteps
  <2>4. p \in Nat /\ Base \in Nat
    BY Bases, PowerPositive
  <2> HIDE DEF v, e, p
  <2>5. v * Base + e < p * Base
    BY <2>1, <2>2, <2>4, DigitFits
  <2>6. QED  BY <2>1, <2>2, <2>3, <2>4, <2>5
<1> HIDE DEF R
<1>3. n \in R
  BY <1>1, <1>2, Induction
<1>4. QED  BY <1>3 DEF R

\* A number is not larger than one with larger digits.
LEMMA uintGrows ==
  ASSUME NEW b, NEW c, NEW at \in Nat, NEW n \in Nat, Holds(b, at, n), Holds(c, at, n),
         \A k \in 1..n : b[at + k - 1] <= c[at + k - 1]
  PROVE  uint(b, at, n) <= uint(c, at, n)
<1> DEFINE R == {k \in Nat : k <= n => uint(b, at, k) <= uint(c, at, k)}
<1>1. 0 \in R
  BY uintSteps
<1>2. ASSUME NEW k \in Nat, k \in R
      PROVE  k + 1 \in R
  <2> SUFFICES ASSUME k + 1 <= n PROVE uint(b, at, k + 1) <= uint(c, at, k + 1)
    OBVIOUS
  <2>1. Holds(b, at, k) /\ Holds(c, at, k)
    BY DEF Holds
  <2>2. uint(b, at, k) \in Nat /\ uint(c, at, k) \in Nat /\ uint(b, at, k) <= uint(c, at, k)
    BY <1>2, <2>1, uintFits
  <2>3. k + 1 \in 1..n /\ at + (k + 1) - 1 = at + k
    OBVIOUS
  <2>4. b[at + k] \in Nat /\ c[at + k] \in Nat /\ b[at + k] <= c[at + k]
    BY <2>3, Bases DEF Holds
  <2>5. uint(b, at, k) * Base <= uint(c, at, k) * Base
    BY <2>2, Bases, ProductGrows
  <2>6. uint(b, at, k + 1) = uint(b, at, k) * Base + b[at + k]
        /\ uint(c, at, k + 1) = uint(c, at, k) * Base + c[at + k]
    BY uintSteps
  <2>7. QED  BY <2>2, <2>4, <2>5, <2>6, Bases
<1> HIDE DEF R
<1>3. n \in R
  BY <1>1, <1>2, Induction
<1>4. QED  BY <1>3 DEF R

\* The number of m + k bytes is that of the first m with k digits behind.
Splits(buffer, at, m, k) ==
  \E r \in Nat : /\ r < Power(Base, k)
                /\ uint(buffer, at, m + k) = uint(buffer, at, m) * Power(Base, k) + r

LEMMA uintSplits ==
  ASSUME NEW buffer, NEW at \in Nat, NEW n \in Nat, Holds(buffer, at, n), NEW m \in Nat, m <= n
  PROVE  Splits(buffer, at, m, n - m)
<1> DEFINE R == {k \in Nat : m + k <= n => Splits(buffer, at, m, k)}
<1>0. uint(buffer, at, m) \in Nat
  <2>1. Holds(buffer, at, m)
    BY DEF Holds
  <2>2. QED  BY <2>1, uintFits
<1>1. 0 \in R
  <2>1. Power(Base, 0) = 1 /\ m + 0 = m
    BY PowerSteps
  <2>2. uint(buffer, at, m) = uint(buffer, at, m) * 1 + 0
    BY <1>0
  <2>3. QED  BY <2>1, <2>2 DEF Splits
<1>2. ASSUME NEW k \in Nat, k \in R
      PROVE  k + 1 \in R
  <2> SUFFICES ASSUME m + (k + 1) <= n PROVE Splits(buffer, at, m, k + 1)
    OBVIOUS
  <2>1. PICK r \in Nat : /\ r < Power(Base, k)
                         /\ uint(buffer, at, m + k) = uint(buffer, at, m) * Power(Base, k) + r
    BY <1>2 DEF Splits
  <2> DEFINE e == buffer[at + (m + k)]
             v == uint(buffer, at, m)
             p == Power(Base, k)
  <2>2. e \in Nat /\ e < Base
    <3>1. (m + k) + 1 \in 1..n /\ at + ((m + k) + 1) - 1 = at + (m + k)
      OBVIOUS
    <3>2. e \in Byte
      BY <3>1 DEF Holds
    <3>3. QED  BY <3>2, Bases
  <2>3. uint(buffer, at, m + (k + 1)) = uint(buffer, at, m + k) * Base + e
    <3>1. m + (k + 1) = (m + k) + 1 /\ m + k \in Nat
      OBVIOUS
    <3>2. uint(buffer, at, (m + k) + 1) = uint(buffer, at, m + k) * Base + e
      BY <3>1, uintSteps
    <3>3. QED  BY <3>1, <3>2
  <2>4. Power(Base, k + 1) = Base * p /\ p \in Nat /\ Base \in Nat
    BY Bases, PowerSteps, PowerPositive
  <2>5. r < p /\ uint(buffer, at, m + k) = v * p + r /\ v \in Nat
    BY <1>0, <2>1
  <2> HIDE DEF e, v, p
  <2>6. r * Base + e < p * Base
    BY <2>2, <2>4, <2>5, DigitFits
  <2>7. (v * p + r) * Base + e = v * (Base * p) + (r * Base + e)
    <3>1. (v * p + r) * Base = (v * p) * Base + r * Base
      BY <2>4, <2>5
    <3>2. (v * p) * Base = v * (p * Base) /\ p * Base = Base * p
      BY <2>4, <2>5, ProductAssociates
    <3>3. (v * p) * Base \in Nat /\ r * Base \in Nat
      BY <2>4, <2>5
    <3>4. QED  BY <2>2, <3>1, <3>2, <3>3
  <2>8. r * Base + e \in Nat /\ p * Base = Base * p
    BY <2>2, <2>4
  <2>9. r * Base + e < Power(Base, k + 1)
        /\ uint(buffer, at, m + (k + 1)) = v * Power(Base, k + 1) + (r * Base + e)
    BY <2>3, <2>4, <2>5, <2>6, <2>7, <2>8
  <2>10. QED  BY <2>8, <2>9 DEF v, Splits
<1> HIDE DEF R
<1>3. n - m \in R
  <2>1. n - m \in Nat
    OBVIOUS
  <2>2. QED  BY <1>1, <1>2, <2>1, Induction
<1>4. m + (n - m) = n
  OBVIOUS
<1>5. QED  BY <1>3, <1>4 DEF R

\* The digits of the number are the bytes it was read from.
LEMMA bytesOfuint ==
  ASSUME NEW buffer, NEW at \in Nat, NEW n \in Nat, Holds(buffer, at, n), NEW k \in 1..n
  PROVE  bytes(uint(buffer, at, n), n)[k] = buffer[at + k - 1]
<1> DEFINE v == uint(buffer, at, k - 1)
           p == Power(Base, n - k)
           e == buffer[at + (k - 1)]
<1>1. n - k \in Nat /\ k - 1 \in Nat /\ k \in Nat /\ k <= n /\ (k - 1) + 1 = k
      /\ at + k - 1 = at + (k - 1)
  OBVIOUS
<1>2. Holds(buffer, at, k - 1)
  BY DEF Holds
<1>3. v \in Nat /\ e \in Nat /\ e < Base
  <2>1. e \in Byte
    BY <1>1 DEF Holds
  <2>2. QED  BY <1>1, <1>2, <2>1, uintFits, Bases
<1>4. uint(buffer, at, k) = v * Base + e
  <2>1. uint(buffer, at, (k - 1) + 1) = v * Base + e
    BY <1>1, uintSteps
  <2>2. QED  BY <1>1, <2>1
<1>5. PICK r \in Nat : r < p /\ uint(buffer, at, n) = uint(buffer, at, k) * p + r
  <2>1. Splits(buffer, at, k, n - k)
    BY <1>1, uintSplits
  <2>2. k + (n - k) = n
    BY <1>1
  <2>3. QED  BY <2>1, <2>2 DEF Splits
<1>6. p \in Nat /\ Base \in Nat
  BY <1>1, Bases, PowerPositive
<1> HIDE DEF v, e
<1>7. uint(buffer, at, n) = (v * Base + e) * p + r
  BY <1>4, <1>5
<1>8. v * Base + e \in Nat
  BY <1>3, <1>6
<1>9. uint(buffer, at, n) \div p = v * Base + e
  BY <1>5, <1>6, <1>7, <1>8, QuotientOfSum
<1>10. (v * Base + e) % Base = e
  BY <1>3, <1>6, QuotientOfSum
<1>11. bytes(uint(buffer, at, n), n)[k] = (uint(buffer, at, n) \div p) % Base
  BY DEF bytes
<1>12. QED  BY <1>1, <1>9, <1>10, <1>11 DEF e

-----------------------------------------------------------------------------
(* The buffer and the texts in it.                                         *)

\* What arrives is bytes, and no more of them than the bound.
Arrived == datagram \in Seq(Byte) /\ Len(datagram) <= MaxLen

LEMMA BufferIsBytes ==
  ASSUME NEW d \in Seq(Byte), NEW i \in 0..BUF_LEN - 1
  PROVE  /\ Buffer(d)[i] \in Byte
         /\ i < Len(d) => Buffer(d)[i] = d[i + 1]
         /\ i >= Len(d) => Buffer(d)[i] = 0
<1>1. Buffer(d)[i] = IF i < Len(d) THEN d[i + 1] ELSE 0
  BY DEF Buffer
<1>2. i < Len(d) => i + 1 \in 1..Len(d) /\ d[i + 1] \in Byte
  OBVIOUS
<1>3. 0 \in Byte
  BY PayloadAssumption DEF Byte
<1>4. Len(d) \in Nat
  OBVIOUS
<1>5. QED  BY <1>1, <1>2, <1>3, <1>4

\* Behind n bytes from a position the text ends.
Stops(buffer, at, end, n) ==
  /\ n \in 0..end - at
  /\ n = end - at \/ buffer[at + n] = 0
  /\ \A i \in 0..n - 1 : buffer[at + i] # 0

Prefix(buffer, at, n) == [i \in 1..n |-> buffer[at + i - 1]]

LEMMA textStops ==
  ASSUME NEW buffer, NEW at \in Nat, NEW end \in Nat, at <= end
  PROVE  \E n : Stops(buffer, at, end, n) /\ text(buffer, at, end) = Prefix(buffer, at, n)
<1> DEFINE S == {n \in 0..end - at : n = end - at \/ buffer[at + n] = 0}
           m == CHOOSE n \in 0..end - at :
                  /\ n = end - at \/ buffer[at + n] = 0
                  /\ \A i \in 0..n - 1 : buffer[at + i] # 0
<1>1. S \subseteq Nat /\ end - at \in S
  OBVIOUS
<1>2. PICK n \in S : \A k \in S : n <= k
  BY <1>1, LeastExists
<1>3. ASSUME NEW i \in 0..n - 1
      PROVE  buffer[at + i] # 0
  <2>1. i \in 0..end - at /\ i < n
    BY <1>1, <1>2
  <2>2. i \notin S
    BY <1>2, <2>1
  <2>3. QED  BY <2>1, <2>2
<1>4. Stops(buffer, at, end, n)
  BY <1>2, <1>3 DEF Stops
<1>5. Stops(buffer, at, end, m)
  BY <1>4 DEF Stops
<1>6. text(buffer, at, end) = Prefix(buffer, at, m)
  BY DEF text, Prefix
<1>7. QED  BY <1>5, <1>6

\* A text is as long as it has no NUL, and it has none.
LEMMA textIsText ==
  ASSUME NEW buffer, NEW at \in Nat, NEW end \in Nat, at <= end,
         \A j \in at..end - 1 : buffer[j] \in Byte
  PROVE  /\ Stops(buffer, at, end, Len(text(buffer, at, end)))
         /\ text(buffer, at, end) \in [1..Len(text(buffer, at, end)) -> Byte \ {0}]
         /\ text(buffer, at, end) \in Seq(Byte \ {0})
         /\ \A i \in 1..Len(text(buffer, at, end)) : text(buffer, at, end)[i] = buffer[at + i - 1]
<1>1. PICK n : /\ Stops(buffer, at, end, n)
               /\ text(buffer, at, end) = Prefix(buffer, at, n)
  BY textStops
<1> DEFINE s == [i \in 1..n |-> buffer[at + i - 1]]
<1>2. n \in Nat
  BY <1>1 DEF Stops
<1>3. ASSUME NEW i \in 1..n
      PROVE  buffer[at + i - 1] \in Byte \ {0}
  <2>1. at + i - 1 \in at..end - 1 /\ i - 1 \in 0..n - 1 /\ at + (i - 1) = at + i - 1
    BY <1>1, <1>2 DEF Stops
  <2>2. QED  BY <1>1, <2>1 DEF Stops
<1>4. s \in [1..n -> Byte \ {0}]
  BY <1>3
<1>5. s \in Seq(Byte \ {0}) /\ Len(s) = n
  <2>1. s \in Seq(Byte \ {0})
    BY <1>2, <1>3
  <2>2. DOMAIN s = 1..n
    OBVIOUS
  <2>3. QED  BY <1>2, <2>1, <2>2
<1>6. \A i \in 1..n : s[i] = buffer[at + i - 1]
  OBVIOUS
<1> HIDE DEF s
<1>7. text(buffer, at, end) = s
  BY <1>1 DEF s, Prefix
<1>8. QED  BY <1>1, <1>4, <1>5, <1>6, <1>7

\* Where two buffers agree, they have the same text.
LEMMA textAgrees ==
  ASSUME NEW b, NEW c, NEW at \in Nat, NEW end \in Nat, at <= end,
         \A j \in at..end - 1 : b[j] = c[j]
  PROVE  text(b, at, end) = text(c, at, end)
<1>1. PICK m : Stops(b, at, end, m) /\ text(b, at, end) = Prefix(b, at, m)
  BY textStops
<1>2. PICK n : Stops(c, at, end, n) /\ text(c, at, end) = Prefix(c, at, n)
  BY textStops
<1>3. m \in Nat /\ n \in Nat /\ m <= end - at /\ n <= end - at
  BY <1>1, <1>2 DEF Stops
<1>4. ~(m < n)
  <2> SUFFICES ASSUME m < n PROVE FALSE
    OBVIOUS
  <2>1. at + m \in at..end - 1 /\ m \in 0..n - 1 /\ m # end - at
    BY <1>3
  <2>2. b[at + m] = 0 /\ c[at + m] # 0
    BY <1>1, <1>2, <2>1 DEF Stops
  <2>3. QED  BY <2>1, <2>2
<1>5. ~(n < m)
  <2> SUFFICES ASSUME n < m PROVE FALSE
    OBVIOUS
  <2>1. at + n \in at..end - 1 /\ n \in 0..m - 1 /\ n # end - at
    BY <1>3
  <2>2. c[at + n] = 0 /\ b[at + n] # 0
    BY <1>1, <1>2, <2>1 DEF Stops
  <2>3. QED  BY <2>1, <2>2
<1>6. m = n
  BY <1>3, <1>4, <1>5
<1>7. \A i \in 1..n : at + i - 1 \in at..end - 1
  BY <1>3
<1>8. \A i \in 1..n : b[at + i - 1] = c[at + i - 1]
  BY <1>7
<1>9. QED  BY <1>1, <1>2, <1>6, <1>8 DEF Prefix

\* A text ends with the datagram, at the latest.
LEMMA textEndsInDatagram ==
  ASSUME NEW d \in Seq(Byte), NEW at \in Nat, NEW end \in Nat, at <= end, end <= BUF_LEN,
         NEW n, Stops(Buffer(d), at, end, n)
  PROVE  n <= Len(d)
<1> SUFFICES ASSUME n > Len(d) PROVE FALSE
  BY DEF Stops
<1>1. Len(d) \in Nat /\ n \in Nat /\ n <= end - at /\ BUF_LEN \in Nat
  BY PayloadAssumption DEF Stops
<1>2. Len(d) \in 0..n - 1 /\ at + Len(d) \in 0..BUF_LEN - 1 /\ at + Len(d) >= Len(d)
  BY <1>1
<1>3. Buffer(d)[at + Len(d)] = 0
  BY <1>2, BufferIsBytes
<1>4. QED  BY <1>2, <1>3 DEF Stops

-----------------------------------------------------------------------------
(* The parts of a packet.                                                  *)

LEMMA Sizes ==
  /\ TOPIC_MAX_SIZE \in Nat /\ WORD \in Nat /\ HALF \in Nat /\ BUF_LEN \in Nat
  /\ Precision \in Nat /\ Precision > 0 /\ MaxLen \in Nat /\ MaxLen < BUF_LEN
  /\ data_type_at \in 0..BUF_LEN - 1 /\ data_type_at = TOPIC_MAX_SIZE
  /\ value_at \in 0..BUF_LEN - 1 /\ value_at = TOPIC_MAX_SIZE + 1 /\ value_at \in Nat
  /\ value_at + 1 + WORD \in 0..BUF_LEN - 1
  /\ value_at + HALF \in 0..BUF_LEN - 1
BY PayloadAssumption, BufferAssumption DEF data_type_at, value_at

\* A datagram is a packet if it is not empty and its type is known.
Packs(d) == d # <<>> /\ Buffer(d)[data_type_at] \in 0..3

LEMMA PacketParts ==
  ASSUME NEW d, Packs(d)
  PROVE  /\ packet(d).topic = text(Buffer(d), 0, TOPIC_MAX_SIZE)
         /\ packet(d).data_type = Type[Buffer(d)[data_type_at] + 1]
         /\ packet(d).contents = contents(Buffer(d))
BY DEF Packs, packet, get_udp_packet

LEMMA SentPacks ==
  ASSUME IsPacket
  PROVE  Packs(datagram)
BY DEF IsPacket, Sent, Packs, packet, get_udp_packet

LEMMA TypeNames ==
  Type[1] = "INT" /\ Type[2] = "SHORT_REAL" /\ Type[3] = "FLOAT" /\ Type[4] = "STRING"
BY DEF Type

\* The byte behind the topic tells the type and how the value is read.
LEMMA PacketTypes ==
  ASSUME NEW d, Packs(d)
  PROVE  LET buffer == Buffer(d)
             p      == packet(d)
         IN  \/ /\ buffer[data_type_at] = 0 /\ p.data_type = "INT"
                /\ p.contents = Signed(buffer, uint(buffer, value_at + 1, WORD), 0)
             \/ /\ buffer[data_type_at] = 1 /\ p.data_type = "SHORT_REAL"
                /\ p.contents = Number(FALSE, uint(buffer, value_at, HALF), 2)
             \/ /\ buffer[data_type_at] = 2 /\ p.data_type = "FLOAT"
                /\ p.contents = Signed(buffer, to_float(uint(buffer, value_at + 1, WORD)),
                                       buffer[value_at + 1 + WORD])
             \/ /\ buffer[data_type_at] = 3 /\ p.data_type = "STRING"
                /\ p.contents = text(buffer, value_at, BUF_LEN)
<1> DEFINE b == Buffer(d)[data_type_at]
<1>1. b \in 0..3 /\ packet(d).data_type = Type[b + 1] /\ packet(d).contents = contents(Buffer(d))
  BY PacketParts DEF Packs
<1>2. b = 0 \/ b = 1 \/ b = 2 \/ b = 3
  BY <1>1
<1> HIDE DEF b
<1>3. CASE b = 0
  BY <1>1, <1>3, TypeNames DEF contents, b
<1>4. CASE b = 1
  BY <1>1, <1>4, TypeNames DEF contents, b
<1>5. CASE b = 2
  BY <1>1, <1>5, TypeNames DEF contents, b
<1>6. CASE b = 3
  BY <1>1, <1>6, TypeNames DEF contents, b
<1>7. QED  BY <1>2, <1>3, <1>4, <1>5, <1>6 DEF b

LEMMA TypeByte ==
  ASSUME NEW d, Packs(d)
  PROVE  /\ Buffer(d)[data_type_at] = 0 =>
              packet(d).contents = Signed(Buffer(d), uint(Buffer(d), value_at + 1, WORD), 0)
         /\ Buffer(d)[data_type_at] = 1 =>
              packet(d).contents = Number(FALSE, uint(Buffer(d), value_at, HALF), 2)
         /\ Buffer(d)[data_type_at] = 2 =>
              packet(d).contents = Signed(Buffer(d), to_float(uint(Buffer(d), value_at + 1, WORD)),
                                          Buffer(d)[value_at + 1 + WORD])
         /\ Buffer(d)[data_type_at] = 3 => packet(d).data_type = "STRING"
<1> DEFINE B == Buffer(d)
           b == B[data_type_at]
<1>1. packet(d).data_type = Type[b + 1] /\ packet(d).contents = contents(B)
  BY PacketParts
<1> HIDE DEF B
<1>2. b = 0 => packet(d).contents = Signed(B, uint(B, value_at + 1, WORD), 0)
  BY <1>1 DEF contents
<1>3. b = 1 => packet(d).contents = Number(FALSE, uint(B, value_at, HALF), 2)
  BY <1>1 DEF contents
<1>4. b = 2 => packet(d).contents =
                 Signed(B, to_float(uint(B, value_at + 1, WORD)), B[value_at + 1 + WORD])
  BY <1>1 DEF contents
<1>5. b = 3 => packet(d).data_type = "STRING"
  BY <1>1, TypeNames
<1>6. QED  BY <1>2, <1>3, <1>4, <1>5 DEF B

LEMMA NumberIsSomething ==
  ASSUME NEW m, NEW d, NEW e
  PROVE  /\ Number(m, d, e) # <<>> /\ Number(m, d, e).minus = m
         /\ Number(m, d, e).digits = d /\ Number(m, d, e).decimals = e
<1>1. DOMAIN Number(m, d, e) # DOMAIN <<>>
  <2>1. "minus" \in DOMAIN Number(m, d, e)
    BY DEF Number
  <2>2. DOMAIN <<>> = {}
    OBVIOUS
  <2>3. QED  BY <2>1, <2>2
<1>2. QED  BY <1>1 DEF Number

LEMMA TypesHold ==
  ASSUME Arrived
  PROVE  TypeOK
<1> SUFFICES ASSUME IsPacket
             PROVE  /\ Sent.topic \in Texts /\ Len(Sent.topic) <= TOPIC_MAX_SIZE
                    /\ CASE Sent.data_type = "STRING"     -> Sent.contents \in Texts
                         [] Sent.data_type = "SHORT_REAL" -> Sent.contents.decimals = 2
                         [] OTHER -> Sent.contents = <<>> <=> Buffer(datagram)[value_at] > 1
  BY DEF TypeOK
<1> DEFINE buffer == Buffer(datagram)
<1>1. \A i \in 0..BUF_LEN - 1 : buffer[i] \in Byte
  BY BufferIsBytes DEF Arrived
<1> HIDE DEF buffer
<1>2. ASSUME NEW at \in Nat, NEW end \in Nat, at <= end, end <= BUF_LEN
      PROVE  text(buffer, at, end) \in Texts /\ Len(text(buffer, at, end)) <= end - at
  <2> DEFINE s == text(buffer, at, end)
  <2>1. \A j \in at..end - 1 : buffer[j] \in Byte
    BY <1>1, <1>2, Sizes
  <2>2. Stops(buffer, at, end, Len(s)) /\ s \in [1..Len(s) -> Byte \ {0}]
    BY <1>2, <2>1, textIsText
  <2>3. Len(s) <= Len(datagram)
    BY <1>2, <2>2, textEndsInDatagram DEF Arrived, buffer
  <2>4. Len(s) \in Nat /\ Len(s) <= end - at /\ Len(datagram) \in Nat
    BY <2>2 DEF Stops, Arrived
  <2>5. Len(s) \in 0..MaxLen
    BY <2>3, <2>4, Sizes DEF Arrived
  <2>6. QED  BY <2>2, <2>4, <2>5 DEF Texts
<1>3. Sent.topic \in Texts /\ Len(Sent.topic) <= TOPIC_MAX_SIZE
  <2>1. Sent.topic = text(buffer, 0, TOPIC_MAX_SIZE)
    BY SentPacks, PacketParts DEF buffer, Sent
  <2>2. 0 <= TOPIC_MAX_SIZE /\ TOPIC_MAX_SIZE <= BUF_LEN /\ TOPIC_MAX_SIZE - 0 = TOPIC_MAX_SIZE
    BY Sizes
  <2>3. QED  BY <1>2, <2>1, <2>2, Sizes
<1>4. ASSUME NEW digits, NEW decimals, Sent.contents = Signed(buffer, digits, decimals)
      PROVE  Sent.contents = <<>> <=> buffer[value_at] > 1
  <2>1. buffer[value_at] \in Nat
    BY <1>1, Sizes, Bases
  <2>2. buffer[value_at] \in {0, 1} <=> ~(buffer[value_at] > 1)
    BY <2>1
  <2>3. QED  BY <1>4, <2>2, NumberIsSomething DEF Signed
<1>5. CASE Sent.data_type = "INT" \/ Sent.data_type = "FLOAT"
  <2>1. \E digits, decimals : Sent.contents = Signed(buffer, digits, decimals)
    BY <1>5, SentPacks, PacketTypes DEF buffer, Sent
  <2>2. Sent.contents = <<>> <=> buffer[value_at] > 1
    BY <1>4, <2>1
  <2>3. QED  BY <1>3, <1>5, <2>2 DEF buffer
<1>6. CASE Sent.data_type = "SHORT_REAL"
  <2>1. Sent.contents = Number(FALSE, uint(buffer, value_at, HALF), 2)
    BY <1>6, SentPacks, PacketTypes DEF buffer, Sent
  <2>2. Sent.contents.decimals = 2
    BY <2>1 DEF Number
  <2>3. QED  BY <1>3, <1>6, <2>2
<1>7. CASE Sent.data_type = "STRING"
  <2>1. Sent.contents = text(buffer, value_at, BUF_LEN)
    BY <1>7, SentPacks, PacketTypes DEF buffer, Sent
  <2>2. value_at <= BUF_LEN
    BY Sizes
  <2>3. Sent.contents \in Texts
    BY <1>2, <2>1, <2>2, Sizes
  <2>4. QED  BY <1>3, <1>7, <2>3
<1>8. QED  BY <1>5, <1>6, <1>7, SentPacks, PacketTypes DEF Sent

-----------------------------------------------------------------------------
(* Rounding.                                                               *)

\* The k-th power of two is the least at which the significand has room for n.
IsSpacing(n, k) ==
  /\ k \in 0..n /\ n < Power(2, Precision + k)
  /\ \A j \in 0..k - 1 : n >= Power(2, Precision + j)

LEMMA SpacingIs ==
  ASSUME NEW n \in Nat
  PROVE  \E k : IsSpacing(n, k) /\ Spacing(n) = Power(2, k)
<1> DEFINE S == {k \in 0..n : n < Power(2, Precision + k)}
           m == CHOOSE k \in 0..n : /\ n < Power(2, Precision + k)
                                    /\ \A j \in 0..k - 1 : n >= Power(2, Precision + j)
<1>1. S \subseteq Nat /\ n \in S
  <2>1. Precision + n \in Nat /\ n <= Precision + n
    BY Sizes
  <2>2. n < Power(2, n) /\ Power(2, n) \in Nat /\ Power(2, Precision + n) \in Nat
    BY <2>1, PowerOutgrows, PowerPositive
  <2>3. Power(2, n) <= Power(2, Precision + n)
    BY <2>1, PowerGrows
  <2>4. QED  BY <2>2, <2>3
<1>2. PICK k \in S : \A j \in S : k <= j
  BY <1>1, LeastExists
<1>3. ASSUME NEW j \in 0..k - 1
      PROVE  n >= Power(2, Precision + j)
  <2>1. j \in 0..n /\ j < k /\ Precision + j \in Nat
    BY <1>1, <1>2, Sizes
  <2>2. j \notin S
    BY <1>2, <2>1
  <2>3. Power(2, Precision + j) \in Nat
    BY <2>1, PowerPositive
  <2>4. QED  BY <2>1, <2>2, <2>3
<1>4. IsSpacing(n, k)
  BY <1>2, <1>3 DEF IsSpacing
<1>5. IsSpacing(n, m)
  BY <1>4 DEF IsSpacing
<1>6. Spacing(n) = Power(2, m)
  BY DEF Spacing
<1>7. QED  BY <1>5, <1>6

Distance(a, b) == IF a < b THEN b - a ELSE a - b

\* The numbers between d and d + 1 times u go to one of the two.
Up(d, r, u) == ~(2 * r < u \/ (2 * r = u /\ d % 2 = 0))
Rounds(n, u, x) ==
  \E d \in Nat, r \in Nat :
    /\ r < u /\ n = d * u + r /\ d = n \div u
    /\ x = IF Up(d, r, u) THEN (d + 1) * u ELSE d * u

LEMMA to_floatRounds ==
  ASSUME NEW n \in Nat
  PROVE  Spacing(n) \in Nat /\ Spacing(n) > 0 /\ Rounds(n, Spacing(n), to_float(n))
<1> DEFINE u == Spacing(n)
<1>1. u \in Nat /\ u > 0
  <2>1. PICK k : IsSpacing(n, k) /\ u = Power(2, k)
    BY SpacingIs
  <2>2. k \in Nat
    BY <2>1 DEF IsSpacing
  <2>3. QED  BY <2>1, <2>2, PowerPositive
<1>2. to_float(n) = IF Up(n \div u, n % u, u) THEN (n \div u + 1) * u ELSE (n \div u) * u
  BY DEF to_float, Up
<1> HIDE DEF u
<1>3. n \div u \in Nat /\ n % u \in Nat /\ n % u < u /\ n = (n \div u) * u + (n % u)
  BY <1>1, QuotientAndRest
<1>4. Rounds(n, u, to_float(n))
  BY <1>2, <1>3 DEF Rounds
<1>5. QED  BY <1>1, <1>4 DEF u

\* No multiple is nearer than the one it is rounded to.
LEMMA RoundsToNearest ==
  ASSUME NEW n \in Nat, NEW u \in Nat, u > 0, NEW x, Rounds(n, u, x), NEW q \in Nat
  PROVE  Distance(x, n) <= Distance(q * u, n)
<1>1. PICK d \in Nat, r \in Nat :
        /\ r < u /\ n = d * u + r
        /\ x = IF Up(d, r, u) THEN (d + 1) * u ELSE d * u
  BY DEF Rounds
<1> DEFINE a == d * u
           b == q * u
<1>2. a \in Nat /\ b \in Nat /\ (d + 1) * u = a + u
  OBVIOUS
<1>3. IF Up(d, r, u) THEN x = a + u /\ 2 * r >= u ELSE x = a /\ 2 * r <= u
  BY <1>1, <1>2 DEF Up
<1>4. CASE q <= d
  <2>1. b <= a
    BY <1>4, ProductGrows
  <2> HIDE DEF a, b
  <2>2. QED  BY <1>1, <1>2, <1>3, <2>1 DEF Distance, a, b
<1>5. CASE q > d
  <2>1. (d + 1) * u <= b
    BY <1>5, ProductGrows
  <2>2. a + u <= b
    BY <1>2, <2>1
  <2> HIDE DEF a, b
  <2>3. QED  BY <1>1, <1>2, <1>3, <2>2 DEF Distance, a, b
<1>6. QED  BY <1>4, <1>5

\* Of two numbers, the larger is not rounded to less.
LEMMA RoundsInOrder ==
  ASSUME NEW m \in Nat, NEW n \in Nat, m <= n, NEW u \in Nat, u > 0,
         NEW x, NEW y, Rounds(m, u, x), Rounds(n, u, y)
  PROVE  x <= y
<1>1. PICK d \in Nat, r \in Nat :
        /\ r < u /\ m = d * u + r
        /\ x = IF Up(d, r, u) THEN (d + 1) * u ELSE d * u
  BY DEF Rounds
<1>2. PICK e \in Nat, s \in Nat :
        /\ s < u /\ n = e * u + s
        /\ y = IF Up(e, s, u) THEN (e + 1) * u ELSE e * u
  BY DEF Rounds
<1>3. d * u \in Nat /\ e * u \in Nat /\ (d + 1) * u = d * u + u /\ (e + 1) * u = e * u + u
  OBVIOUS
<1>4. CASE d < e
  <2>1. (d + 1) * u <= e * u
    BY <1>4, ProductGrows
  <2>2. x <= (d + 1) * u /\ e * u <= y
    BY <1>1, <1>2, <1>3
  <2>3. x \in Nat /\ y \in Nat /\ (d + 1) * u \in Nat
    BY <1>1, <1>2, <1>3
  <2>4. QED  BY <1>3, <2>1, <2>2, <2>3
<1>5. CASE d = e
  <2>1. r <= s
    BY <1>1, <1>2, <1>3, <1>5
  <2>2. Up(d, r, u) => Up(d, s, u)
    BY <2>1 DEF Up
  <2>3. QED  BY <1>1, <1>2, <1>3, <1>5, <2>2
<1>6. CASE d > e
  <2>1. (e + 1) * u <= d * u
    BY <1>6, ProductGrows
  <2>2. QED  BY <1>1, <1>2, <1>3, <2>1
<1>7. QED  BY <1>4, <1>5, <1>6

\* A number that needs a coarser spacing than 1 fills the significand.
LEMMA SpacingIsFilled ==
  ASSUME NEW n \in Nat, NEW k, IsSpacing(n, k), k > 0
  PROVE  /\ Precision - 1 \in Nat /\ k \in Nat /\ k - 1 \in Nat
         /\ Power(2, Precision - 1) * Power(2, k) = Power(2, Precision + (k - 1))
         /\ Power(2, Precision) * Power(2, k - 1) = Power(2, Precision + (k - 1))
         /\ Power(2, Precision + (k - 1)) <= n
<1>1. Precision - 1 \in Nat /\ Precision \in Nat /\ k \in Nat /\ k - 1 \in Nat /\ k - 1 \in 0..k - 1
      /\ (Precision - 1) + k = Precision + (k - 1) /\ Precision + (k - 1) \in Nat
  BY Sizes DEF IsSpacing
<1>2. Power(2, (Precision - 1) + k) = Power(2, Precision - 1) * Power(2, k)
  BY <1>1, PowerOfSum
<1>3. Power(2, Precision + (k - 1)) = Power(2, Precision) * Power(2, k - 1)
  BY <1>1, PowerOfSum
<1>4. n >= Power(2, Precision + (k - 1)) /\ Power(2, Precision + (k - 1)) \in Nat
  <2>1. n >= Power(2, Precision + (k - 1))
    BY <1>1 DEF IsSpacing
  <2>2. Power(2, Precision + (k - 1)) \in Nat
    BY <1>1, PowerOfTwoPositive, Zenon
  <2>3. QED  BY <2>1, <2>2
<1>5. QED  BY <1>1, <1>2, <1>3, <1>4

\* The rounded number is a significand times the spacing.
LEMMA RoundsToSignificand ==
  ASSUME NEW n \in Nat, NEW k, IsSpacing(n, k), NEW x, Rounds(n, Power(2, k), x)
  PROVE  \E q \in 0..Power(2, Precision) : x = q * Power(2, k)
<1> DEFINE u == Power(2, k)
           p == Power(2, Precision)
<1>1. u \in Nat /\ u > 0 /\ p \in Nat
  <2>1. k \in Nat /\ Precision \in Nat
    BY Sizes DEF IsSpacing
  <2>2. QED  BY <2>1, PowerOfTwoPositive
<1>2. n < p * u
  <2>1. Precision \in Nat /\ k \in Nat
    BY Sizes DEF IsSpacing
  <2>2. Power(2, Precision + k) = p * u
    BY <2>1, PowerOfSum
  <2>3. QED  BY <2>2 DEF IsSpacing
<1> HIDE DEF u, p
<1>3. PICK d \in Nat, r \in Nat :
        /\ d = n \div u
        /\ x = IF Up(d, r, u) THEN (d + 1) * u ELSE d * u
  BY DEF Rounds, u
<1>4. d < p
  BY <1>1, <1>2, <1>3, QuotientBounds
<1>5. d \in 0..p /\ d + 1 \in 0..p
  BY <1>1, <1>4
<1>6. \E q \in 0..p : x = q * u
  BY <1>3, <1>5
<1>7. QED  BY <1>6 DEF u, p

\* Nothing with as many bits is nearer.
LEMMA RepresentableIsNotNearer ==
  ASSUME NEW n \in Nat, NEW r \in Representable
  PROVE  Distance(to_float(n), n) <= Distance(r, n)
<1>1. PICK j : IsSpacing(n, j) /\ Spacing(n) = Power(2, j)
  BY SpacingIs
<1> DEFINE u == Power(2, j)
           x == to_float(n)
<1>2. u \in Nat /\ u > 0 /\ Rounds(n, u, x) /\ j \in Nat
  BY <1>1, to_floatRounds DEF IsSpacing
<1>3. PICK q \in 0..Power(2, Precision), k \in 0..Base * WORD : r = q * Power(2, k)
  BY DEF Representable
<1>4. q \in Nat /\ k \in Nat /\ Power(2, Precision) \in Nat /\ q <= Power(2, Precision)
  <2>1. Power(2, Precision) \in Nat
    BY Sizes, PowerPositive
  <2>2. Base * WORD \in Nat
    BY Sizes, Bases
  <2>3. QED  BY <2>1, <2>2
<1> HIDE DEF u, x
<1>5. CASE k >= j
  <2>1. k - j \in Nat /\ k = (k - j) + j
    BY <1>2, <1>4, <1>5
  <2>2. Power(2, k) = Power(2, k - j) * u /\ Power(2, k - j) \in Nat
    <3>1. Power(2, (k - j) + j) = Power(2, k - j) * u
      BY <1>2, <2>1, PowerOfSum DEF u
    <3>2. Power(2, k - j) \in Nat
      BY <2>1, PowerPositive
    <3>3. QED  BY <2>1, <3>1, <3>2
  <2>3. r = (q * Power(2, k - j)) * u
    BY <1>2, <1>3, <1>4, <2>2, ProductAssociates
  <2>4. q * Power(2, k - j) \in Nat
    BY <1>4, <2>2
  <2>5. Distance(x, n) <= Distance((q * Power(2, k - j)) * u, n)
    BY <1>2, <2>4, RoundsToNearest
  <2>6. QED  BY <2>3, <2>5 DEF x
<1>6. CASE k < j
  <2> DEFINE h == Power(2, Precision - 1)
  <2>1. /\ Precision - 1 \in Nat /\ j - 1 \in Nat
        /\ h * u = Power(2, Precision + (j - 1))
        /\ Power(2, Precision) * Power(2, j - 1) = Power(2, Precision + (j - 1))
        /\ Power(2, Precision + (j - 1)) <= n
    BY <1>1, <1>2, <1>4, <1>6, SpacingIsFilled DEF u
  <2>2. h \in Nat /\ Power(2, j - 1) \in Nat /\ Power(2, k) \in Nat
    BY <1>4, <2>1, PowerPositive
  <2> HIDE DEF h
  <2>3. Power(2, k) <= Power(2, j - 1)
    BY <1>2, <1>4, <1>6, <2>1, PowerGrows
  <2>4. q * Power(2, k) <= Power(2, Precision) * Power(2, k)
    BY <1>4, <2>2, ProductGrows
  <2>5. Power(2, k) * Power(2, Precision) <= Power(2, j - 1) * Power(2, Precision)
    BY <1>4, <2>2, <2>3, ProductGrows
  <2>6. r <= h * u /\ h * u <= n /\ r \in Nat /\ h * u \in Nat
    BY <1>2, <1>3, <1>4, <2>1, <2>2, <2>4, <2>5
  <2>7. Distance(x, n) <= Distance(h * u, n)
    BY <1>2, <2>2, RoundsToNearest
  <2>8. Distance(h * u, n) <= Distance(r, n)
    BY <2>6 DEF Distance
  <2>9. Distance(x, n) \in Nat
    BY <1>2 DEF Distance, Rounds
  <2>10. Distance(h * u, n) \in Nat /\ Distance(r, n) \in Nat
    BY <2>6 DEF Distance
  <2>11. QED  BY <2>7, <2>8, <2>9, <2>10 DEF x
<1>7. QED  BY <1>2, <1>4, <1>5, <1>6

\* A number of WORD bytes is rounded to one of the candidates.
LEMMA to_floatIsRepresentable ==
  ASSUME NEW n \in Nat, n < Power(Base, WORD)
  PROVE  to_float(n) \in Representable
<1>1. PICK k : IsSpacing(n, k) /\ Spacing(n) = Power(2, k)
  BY SpacingIs
<1>2. PICK q \in 0..Power(2, Precision) : to_float(n) = q * Power(2, k)
  BY <1>1, to_floatRounds, RoundsToSignificand
<1> DEFINE w == Base * WORD
<1>3. w \in Nat /\ Precision + w \in Nat /\ Base \in Nat /\ Base > 0
  BY Sizes, Bases
<1>4. k <= w
  <2> SUFFICES ASSUME k > w PROVE FALSE
    BY <1>1, <1>3 DEF IsSpacing
  <2>1. w \in 0..k - 1
    BY <1>1, <1>3 DEF IsSpacing
  <2>2. n >= Power(2, Precision + w)
    BY <1>1, <2>1 DEF IsSpacing
  <2>3. Power(2, w) <= Power(2, Precision + w)
    BY <1>3, Sizes, PowerGrows
  <2>4. Power(Base, WORD) <= Power(2, w)
    BY <1>3, Sizes, PowerBelowPowerOfTwo
  <2>5. Power(Base, WORD) \in Nat /\ Power(2, w) \in Nat /\ Power(2, Precision + w) \in Nat
    <3>1. Power(Base, WORD) \in Nat
      BY <1>3, Sizes, PowerPositive
    <3>2. Power(2, w) \in Nat /\ Power(2, Precision + w) \in Nat
      BY <1>3, PowerPositive
    <3>3. QED  BY <3>1, <3>2
  <2>6. QED  BY <2>2, <2>3, <2>4, <2>5
<1>5. k \in 0..Base * WORD
  BY <1>1, <1>3, <1>4 DEF IsSpacing
<1>6. QED  BY <1>2, <1>5 DEF Representable

\* A number with room in the significand is not changed.
LEMMA to_floatIsExact ==
  ASSUME NEW n \in Nat, n <= Power(2, Precision)
  PROVE  to_float(n) = n
<1>1. PICK k : IsSpacing(n, k) /\ Spacing(n) = Power(2, k)
  BY SpacingIs
<1> DEFINE u == Power(2, k)
<1>2. u \in Nat /\ u > 0 /\ Rounds(n, u, to_float(n)) /\ k \in Nat
  BY <1>1, to_floatRounds DEF IsSpacing
<1>3. \E m \in Nat : n = m * u
  <2>1. CASE k = 0
    <3>1. u = 1
      BY <2>1, PowerSteps
    <3>2. QED  BY <3>1
  <2>2. CASE k > 0
    <3>1. Precision - 1 \in Nat /\ k - 1 \in Nat /\ Power(2, Precision - 1) * u <= n
          /\ Power(2, Precision) * Power(2, k - 1) <= n
          /\ Power(2, Precision - 1) * u = Power(2, Precision) * Power(2, k - 1)
      BY <1>1, <2>2, SpacingIsFilled
    <3>2. Power(2, Precision) \in Nat /\ Power(2, k - 1) \in Nat /\ Power(2, k - 1) >= 1
          /\ Power(2, Precision - 1) \in Nat
      <4>1. Power(2, Precision) \in Nat
        BY Sizes, PowerPositive
      <4>2. Power(2, k - 1) \in Nat /\ Power(2, k - 1) > 0
        BY <3>1, PowerPositive
      <4>3. Power(2, Precision - 1) \in Nat
        BY <3>1, PowerPositive
      <4>4. QED  BY <4>1, <4>2, <4>3
    <3>3. 1 * Power(2, Precision) <= Power(2, k - 1) * Power(2, Precision)
      BY <3>2, ProductGrows
    <3>4. n = Power(2, Precision - 1) * u
      BY <3>1, <3>2, <3>3
    <3>5. QED  BY <3>2, <3>4
  <2>3. QED  BY <1>2, <2>1, <2>2
<1>4. PICK m \in Nat : n = m * u
  BY <1>3
<1>5. Distance(to_float(n), n) <= Distance(m * u, n)
  BY <1>2, RoundsToNearest
<1>6. Distance(m * u, n) = 0
  BY <1>4 DEF Distance
<1>7. to_float(n) \in Nat
  BY <1>2 DEF Rounds
<1>8. QED  BY <1>5, <1>6, <1>7 DEF Distance

\* A mantissa that is not smaller is not printed as a smaller number.
LEMMA to_floatGrows ==
  ASSUME NEW m \in Nat, NEW n \in Nat, m <= n
  PROVE  to_float(m) <= to_float(n)
<1>1. PICK j : IsSpacing(m, j) /\ Spacing(m) = Power(2, j)
  BY SpacingIs
<1>2. PICK k : IsSpacing(n, k) /\ Spacing(n) = Power(2, k)
  BY SpacingIs
<1> DEFINE u == Power(2, j)
           v == Power(2, k)
           x == to_float(m)
           y == to_float(n)
<1>3. u \in Nat /\ u > 0 /\ Rounds(m, u, x) /\ j \in Nat
  BY <1>1, to_floatRounds DEF IsSpacing
<1>4. v \in Nat /\ v > 0 /\ Rounds(n, v, y) /\ k \in Nat
  BY <1>2, to_floatRounds DEF IsSpacing
<1>5. Power(2, Precision) \in Nat
  BY Sizes, PowerPositive
<1>6. CASE j = k
  BY <1>3, <1>4, <1>6, RoundsInOrder
<1>7. CASE j < k
  <2> DEFINE h == Power(2, Precision - 1)
  <2>1. /\ Precision - 1 \in Nat /\ k - 1 \in Nat
        /\ h * v = Power(2, Precision) * Power(2, k - 1) /\ h * v <= n
    BY <1>2, <1>3, <1>4, <1>7, SpacingIsFilled
  <2>2. PICK q \in 0..Power(2, Precision) : x = q * u
    BY <1>1, <1>3, RoundsToSignificand
  <2>3. h \in Nat /\ Power(2, k - 1) \in Nat /\ q \in Nat /\ q <= Power(2, Precision)
    BY <1>5, <2>1, PowerPositive
  <2>4. u <= Power(2, k - 1)
    BY <1>3, <1>4, <1>7, <2>1, PowerGrows
  <2> HIDE DEF h, u, v, x, y
  <2>5. q * u <= Power(2, Precision) * u
    BY <1>3, <1>5, <2>3, ProductGrows
  <2>6. u * Power(2, Precision) <= Power(2, k - 1) * Power(2, Precision)
    BY <1>3, <1>5, <2>3, <2>4, ProductGrows
  <2>7. x <= h * v /\ x \in Nat /\ h * v \in Nat
    BY <1>3, <1>4, <1>5, <2>1, <2>2, <2>3, <2>5, <2>6
  <2>8. PICK d \in Nat, r \in Nat : d = n \div v /\ y = IF Up(d, r, v) THEN (d + 1) * v ELSE d * v
    BY <1>4 DEF Rounds
  <2>9. h <= d
    BY <1>4, <2>1, <2>3, <2>8, QuotientBounds
  <2>10. h * v <= d * v /\ d * v \in Nat /\ (d + 1) * v = d * v + v
    BY <1>4, <2>3, <2>9, ProductGrows
  <2>11. y \in Nat /\ d * v <= y
    BY <1>4, <2>8, <2>10
  <2>12. QED  BY <2>7, <2>10, <2>11 DEF x, y
<1>8. CASE j > k
  <2>1. /\ j - 1 \in Nat /\ Power(2, Precision + (j - 1)) <= m
    BY <1>1, <1>3, <1>4, <1>8, SpacingIsFilled
  <2>2. Precision + k \in Nat /\ Precision + (j - 1) \in Nat /\ Precision + k <= Precision + (j - 1)
    BY <1>3, <1>4, <1>8, Sizes
  <2>3. Power(2, Precision + k) <= Power(2, Precision + (j - 1))
        /\ Power(2, Precision + k) \in Nat /\ Power(2, Precision + (j - 1)) \in Nat
    <3>1. Power(2, Precision + k) <= Power(2, Precision + (j - 1))
      BY <2>2, PowerGrows
    <3>2. Power(2, Precision + k) \in Nat /\ Power(2, Precision + (j - 1)) \in Nat
      BY <2>2, PowerOfTwoPositive, Zenon
    <3>3. QED  BY <3>1, <3>2
  <2>4. n < Power(2, Precision + k)
    BY <1>2 DEF IsSpacing
  <2>5. QED  BY <2>1, <2>3, <2>4
<1>9. QED  BY <1>3, <1>4, <1>6, <1>7, <1>8

-----------------------------------------------------------------------------
(* The properties, of a state and of a step.                               *)

\* The places that the numbers of a packet are read from are in the buffer.
LEMMA NumbersAreHeld ==
  ASSUME NEW d \in Seq(Byte)
  PROVE  Holds(Buffer(d), value_at + 1, WORD) /\ Holds(Buffer(d), value_at, HALF)
<1>1. ASSUME NEW k \in 1..WORD
      PROVE  (value_at + 1) + k - 1 \in 0..BUF_LEN - 1
  BY Sizes
<1>2. ASSUME NEW k \in 1..HALF
      PROVE  value_at + k - 1 \in 0..BUF_LEN - 1
  BY Sizes
<1>3. QED  BY <1>1, <1>2, BufferIsBytes DEF Holds

LEMMA FloatsAreNearest ==
  ASSUME Arrived
  PROVE  FloatIsNearest
<1> SUFFICES ASSUME IsNumber, Sent.data_type = "FLOAT" PROVE FloatIsNearest
  BY DEF FloatIsNearest
<1> DEFINE n == uint(Buffer(datagram), value_at + 1, WORD)
<1>1. n \in Nat /\ n < Power(Base, WORD)
  BY NumbersAreHeld, uintFits, Sizes DEF Arrived
<1>2. Sent.contents.digits = to_float(n)
  <2>1. Sent.contents = Signed(Buffer(datagram), to_float(n), Buffer(datagram)[value_at + 1 + WORD])
    BY SentPacks, PacketTypes DEF IsNumber, Sent
  <2>2. Sent.contents # <<>>
    BY DEF IsNumber
  <2>3. QED  BY <2>1, <2>2, NumberIsSomething DEF Signed
<1> HIDE DEF n
<1>3. \A r \in Representable : Distance(to_float(n), n) <= Distance(r, n)
  BY <1>1, RepresentableIsNotNearer
<1>4. to_float(n) \in Representable /\ (n <= Power(2, Precision) => to_float(n) = n)
  BY <1>1, to_floatIsRepresentable, to_floatIsExact
<1>5. QED  BY <1>2, <1>3, <1>4 DEF FloatIsNearest, Distance, n

\* One more byte changes the buffer only where it is put, and only upwards.
LEMMA BufferGrows ==
  ASSUME NEW d \in Seq(Byte), NEW b \in Byte, NEW i \in 0..BUF_LEN - 1
  PROVE  /\ i # Len(d) => Buffer(Append(d, b))[i] = Buffer(d)[i]
         /\ Buffer(d)[i] <= Buffer(Append(d, b))[i]
<1> DEFINE e == Append(d, b)
<1>1. e \in Seq(Byte) /\ Len(d) \in Nat /\ Len(e) = Len(d) + 1 /\ e[Len(d) + 1] = b
      /\ \A k \in 1..Len(d) : e[k] = d[k]
  OBVIOUS
<1> HIDE DEF e
<1>2. Buffer(d)[i] = IF i < Len(d) THEN d[i + 1] ELSE 0
  BY DEF Buffer
<1>3. Buffer(e)[i] = IF i < Len(e) THEN e[i + 1] ELSE 0
  BY DEF Buffer
<1>4. i < Len(d) => i + 1 \in 1..Len(d) /\ d[i + 1] \in Nat
  BY Bases
<1>5. b \in Nat
  BY Bases
<1>6. CASE i < Len(d)
  BY <1>1, <1>2, <1>3, <1>4, <1>6 DEF e
<1>7. CASE i = Len(d)
  BY <1>1, <1>2, <1>3, <1>5, <1>7 DEF e
<1>8. CASE i > Len(d)
  BY <1>1, <1>2, <1>3, <1>8 DEF e
<1>9. QED  BY <1>1, <1>6, <1>7, <1>8

\* The byte in front of which a datagram ends is missing: it is read as zero, the
\* others as they are.
LEMMA MissingIsZero ==
  ASSUME NEW d \in Seq(Byte), Len(d) \in 0..BUF_LEN - 1
  PROVE  Buffer(d)[Len(d)] = 0
BY DEF Buffer

\* What one byte more does to the scale: it comes with the exponent of a FLOAT and
\* stays otherwise.
Unscales(d, p, q) ==
  IF p.data_type = "FLOAT" /\ Len(d) = value_at + 1 + WORD
  THEN p.contents.decimals = 0 /\ q.contents.digits = p.contents.digits
  ELSE q.contents.decimals = p.contents.decimals /\ p.contents.digits <= q.contents.digits

LEMMA ByteKeepsWhatArrived ==
  ASSUME Arrived, Next, Len(datagram) > value_at, IsNumber
  PROVE  /\ Sent'.topic = Sent.topic
         /\ Sent'.data_type = Sent.data_type
         /\ Sent'.contents.minus = Sent.contents.minus
         /\ Unscales(datagram, Sent, Sent')
<1>1. PICK b \in Byte : datagram' = Append(datagram, b)
  BY DEF Next
<1> DEFINE d == datagram
           e == Append(d, b)
           B == Buffer(d)
           C == Buffer(e)
<1>2. d \in Seq(Byte) /\ e \in Seq(Byte) /\ e # <<>> /\ Len(d) \in Nat /\ Len(d) > value_at
  BY DEF Arrived
<1>3. Sent = packet(d) /\ Sent' = packet(e)
  BY <1>1 DEF Sent
<1>4. Packs(d) /\ packet(d).data_type # "STRING" /\ packet(d).contents # <<>>
  BY SentPacks DEF IsNumber, Sent
<1>5. \A i \in 0..BUF_LEN - 1 : (i # Len(d) => C[i] = B[i]) /\ B[i] <= C[i]
  BY <1>2, BufferGrows
<1> HIDE DEF d, e, B, C
<1>6. C[data_type_at] = B[data_type_at] /\ C[value_at] = B[value_at]
  BY <1>2, <1>5, Sizes
<1>7. Packs(e)
  BY <1>2, <1>4, <1>6 DEF Packs, B, C
<1>8. packet(e).topic = packet(d).topic
  <2>1. \A j \in 0..TOPIC_MAX_SIZE - 1 : j \in 0..BUF_LEN - 1 /\ j # Len(d)
    BY <1>2, Sizes
  <2>2. \A j \in 0..TOPIC_MAX_SIZE - 1 : C[j] = B[j]
    BY <1>5, <2>1
  <2>3. text(C, 0, TOPIC_MAX_SIZE) = text(B, 0, TOPIC_MAX_SIZE)
    BY <2>2, Sizes, textAgrees
  <2>4. QED  BY <1>4, <1>7, <2>3, PacketParts DEF B, C
<1>9. packet(e).data_type = packet(d).data_type
  BY <1>4, <1>6, <1>7, PacketParts DEF B, C
<1>10. ASSUME NEW at \in Nat, NEW n \in Nat, Holds(B, at, n), Holds(C, at, n),
              \A k \in 1..n : at + k - 1 \in 0..BUF_LEN - 1
       PROVE  uint(B, at, n) \in Nat /\ uint(C, at, n) \in Nat /\ uint(B, at, n) <= uint(C, at, n)
  <2>1. \A k \in 1..n : B[at + k - 1] <= C[at + k - 1]
    BY <1>5, <1>10
  <2>2. uint(B, at, n) <= uint(C, at, n)
    BY <1>10, <2>1, uintGrows
  <2>3. QED  BY <1>10, <2>2, uintFits
<1> DEFINE v == uint(B, value_at + 1, WORD)
           w == uint(C, value_at + 1, WORD)
<1>11. v \in Nat /\ w \in Nat /\ v <= w
  <2>1. \A k \in 1..WORD : (value_at + 1) + k - 1 \in 0..BUF_LEN - 1
    BY Sizes
  <2>2. Holds(B, value_at + 1, WORD) /\ Holds(C, value_at + 1, WORD)
    BY <1>2, NumbersAreHeld DEF B, C
  <2>3. value_at + 1 \in Nat /\ WORD \in Nat
    BY Sizes
  <2>4. QED  BY <1>10, <2>1, <2>2, <2>3
<1>12. uint(B, value_at, HALF) <= uint(C, value_at, HALF)
  <2>1. \A k \in 1..HALF : value_at + k - 1 \in 0..BUF_LEN - 1
    BY Sizes
  <2>2. Holds(B, value_at, HALF) /\ Holds(C, value_at, HALF)
    BY <1>2, NumbersAreHeld DEF B, C
  <2>3. QED  BY <1>10, <2>1, <2>2, Sizes
<1>13. to_float(v) <= to_float(w)
  BY <1>11, to_floatGrows
<1> HIDE DEF v, w
<1>14. ASSUME NEW m, NEW n, NEW k, NEW l,
              packet(d).contents = Signed(B, m, k), packet(e).contents = Signed(C, n, l)
       PROVE  /\ packet(e).contents.minus = packet(d).contents.minus
              /\ packet(d).contents.digits = m /\ packet(e).contents.digits = n
              /\ packet(d).contents.decimals = k /\ packet(e).contents.decimals = l
  <2>1. B[value_at] \in {0, 1}
    BY <1>4, <1>14 DEF Signed
  <2>2. packet(d).contents = Number(B[value_at] = 1, m, k)
        /\ packet(e).contents = Number(B[value_at] = 1, n, l)
    BY <1>6, <1>14, <2>1 DEF Signed
  <2>3. QED  BY <1>14, <2>2 DEF Number
<1> DEFINE z == value_at + 1 + WORD
<1>15. z \in 0..BUF_LEN - 1 /\ (Len(d) # z => C[z] = B[z]) /\ (Len(d) = z => B[z] = 0)
  <2>1. z \in 0..BUF_LEN - 1
    BY Sizes
  <2> HIDE DEF z
  <2>2. Len(d) = z => B[z] = 0
    BY <1>2, <2>1, MissingIsZero DEF B
  <2>3. QED  BY <1>5, <2>1, <2>2
<1>16. Len(d) = z => v = w
  <2> SUFFICES ASSUME Len(d) = z PROVE v = w
    OBVIOUS
  <2>1. \A k \in 1..WORD : (value_at + 1) + k - 1 \in 0..BUF_LEN - 1 /\ (value_at + 1) + k - 1 # z
    BY Sizes
  <2>2. \A k \in 1..WORD : B[(value_at + 1) + k - 1] = C[(value_at + 1) + k - 1]
    BY <1>5, <2>1
  <2>3. \A k \in 1..WORD : C[(value_at + 1) + k - 1] <= B[(value_at + 1) + k - 1]
    <3> SUFFICES ASSUME NEW k \in 1..WORD
                 PROVE  C[(value_at + 1) + k - 1] <= B[(value_at + 1) + k - 1]
      OBVIOUS
    <3>1. (value_at + 1) + k - 1 \in 0..BUF_LEN - 1
      BY <2>1
    <3>2. B[(value_at + 1) + k - 1] <= C[(value_at + 1) + k - 1]
      BY <1>5, <3>1
    <3>3. QED  BY <2>2, <3>2
  <2>4. Holds(B, value_at + 1, WORD) /\ Holds(C, value_at + 1, WORD)
    BY <1>2, NumbersAreHeld DEF B, C
  <2>5. w <= v
    <3>1. value_at + 1 \in Nat /\ WORD \in Nat
      BY Sizes
    <3>2. QED  BY <2>3, <2>4, <3>1, uintGrows DEF v, w
  <2>6. QED  BY <1>11, <2>5
<1> HIDE DEF z
<1>17. /\ packet(e).contents.minus = packet(d).contents.minus
       /\ Unscales(d, packet(d), packet(e))
  <2>1. CASE B[data_type_at] = 0
    <3>1. packet(d).contents = Signed(B, v, 0) /\ packet(e).contents = Signed(C, w, 0)
      BY <1>4, <1>6, <1>7, <2>1, TypeByte DEF B, C, v, w
    <3>2. packet(d).data_type # "FLOAT"
      BY <1>4, <2>1, PacketParts DEF Type, B
    <3>3. /\ packet(e).contents.minus = packet(d).contents.minus
          /\ packet(d).contents.digits = v /\ packet(e).contents.digits = w
          /\ packet(d).contents.decimals = 0 /\ packet(e).contents.decimals = 0
      BY <1>14, <3>1
    <3>4. QED  BY <1>11, <3>2, <3>3 DEF Unscales
  <2>2. CASE B[data_type_at] = 1
    <3>1. packet(d).contents = Number(FALSE, uint(B, value_at, HALF), 2)
          /\ packet(e).contents = Number(FALSE, uint(C, value_at, HALF), 2)
      BY <1>4, <1>6, <1>7, <2>2, TypeByte DEF B, C
    <3>2. packet(d).data_type # "FLOAT"
      BY <1>4, <2>2, PacketParts DEF Type, B
    <3>3. QED  BY <1>12, <3>1, <3>2 DEF Number, Unscales
  <2>3. CASE B[data_type_at] = 2
    <3>1. packet(d).contents = Signed(B, to_float(v), B[z])
          /\ packet(e).contents = Signed(C, to_float(w), C[z])
      BY <1>4, <1>6, <1>7, <2>3, TypeByte DEF B, C, v, w, z
    <3>2. packet(d).data_type = "FLOAT"
      BY <1>4, <2>3, PacketParts DEF Type, B
    <3>3. CASE Len(d) = z
      BY <1>13, <1>14, <1>15, <1>16, <3>1, <3>2, <3>3 DEF Unscales, z
    <3>4. CASE Len(d) # z
      BY <1>13, <1>14, <1>15, <3>1, <3>4 DEF Unscales, z
    <3>5. QED  BY <3>3, <3>4
  <2>4. CASE B[data_type_at] = 3
    BY <1>4, <2>4, TypeByte DEF B
  <2>5. QED  BY <1>4, <2>1, <2>2, <2>3, <2>4 DEF Packs, B
<1>18. QED  BY <1>3, <1>8, <1>9, <1>17 DEF d

-----------------------------------------------------------------------------
(* The packet put back into its format.                                    *)

\* A sequence of bytes is what the buffer has from a position on.
Writes(s, buffer, at) ==
  s \in Seq(Byte) /\ \A i \in 1..Len(s) : s[i] = buffer[at + i - 1]

LEMMA WritesBehind ==
  ASSUME NEW buffer, NEW at \in Nat, NEW s, NEW t,
         Writes(s, buffer, at), Writes(t, buffer, at + Len(s))
  PROVE  Writes(s \o t, buffer, at) /\ Len(s \o t) = Len(s) + Len(t)
<1>1. s \in Seq(Byte) /\ t \in Seq(Byte) /\ Len(s) \in Nat /\ Len(t) \in Nat
  BY DEF Writes
<1> DEFINE u == s \o t
<1>2. /\ u \in Seq(Byte) /\ Len(u) = Len(s) + Len(t)
      /\ \A i \in 1..Len(s) : u[i] = s[i]
      /\ \A i \in 1..Len(t) : u[Len(s) + i] = t[i]
  BY <1>1
<1> HIDE DEF u
<1>3. ASSUME NEW i \in 1..Len(u)
      PROVE  u[i] = buffer[at + i - 1]
  <2>1. CASE i <= Len(s)
    <3>1. i \in 1..Len(s)
      BY <1>1, <2>1
    <3>2. QED  BY <1>2, <3>1 DEF Writes
  <2>2. CASE i > Len(s)
    <3>1. i - Len(s) \in 1..Len(t) /\ Len(s) + (i - Len(s)) = i
          /\ (at + Len(s)) + (i - Len(s)) - 1 = at + i - 1
      BY <1>1, <1>2, <2>2
    <3>2. t[i - Len(s)] = buffer[(at + Len(s)) + (i - Len(s)) - 1]
      BY <3>1 DEF Writes
    <3>3. u[Len(s) + (i - Len(s))] = t[i - Len(s)]
      BY <1>2, <3>1
    <3>4. QED  BY <3>1, <3>2, <3>3
  <2>3. QED  BY <1>1, <1>2, <2>1, <2>2
<1>4. QED  BY <1>2, <1>3 DEF Writes, u

LEMMA WritesOne ==
  ASSUME NEW buffer, NEW at \in Nat, buffer[at] \in Byte
  PROVE  Writes(<<buffer[at]>>, buffer, at) /\ Len(<<buffer[at]>>) = 1
<1>1. at + 1 - 1 = at
  OBVIOUS
<1>2. QED  BY <1>1 DEF Writes

LEMMA WritesNumber ==
  ASSUME NEW buffer, NEW at \in Nat, NEW n \in Nat, Holds(buffer, at, n)
  PROVE  Writes(bytes(uint(buffer, at, n), n), buffer, at) /\ Len(bytes(uint(buffer, at, n), n)) = n
<1> DEFINE s == bytes(uint(buffer, at, n), n)
<1>1. \A k \in 1..n : s[k] = buffer[at + k - 1]
  BY bytesOfuint
<1>2. s = [k \in 1..n |-> s[k]]
  BY DEF bytes
<1> HIDE DEF s
<1>3. \A k \in 1..n : s[k] \in Byte
  BY <1>1 DEF Holds
<1>4. s \in Seq(Byte) /\ Len(s) = n
  BY <1>2, <1>3
<1>5. QED  BY <1>1, <1>4 DEF Writes, s

\* A text behind which the rest up to the end is zeros.
LEMMA WritesTopic ==
  ASSUME NEW buffer, \A i \in 0..TOPIC_MAX_SIZE - 1 : buffer[i] \in Byte,
         \A i \in Len(text(buffer, 0, TOPIC_MAX_SIZE))..TOPIC_MAX_SIZE - 1 : buffer[i] = 0
  PROVE  /\ Writes(padded(text(buffer, 0, TOPIC_MAX_SIZE)), buffer, 0)
         /\ Len(padded(text(buffer, 0, TOPIC_MAX_SIZE))) = TOPIC_MAX_SIZE
<1> DEFINE s == text(buffer, 0, TOPIC_MAX_SIZE)
           z == [i \in 1..TOPIC_MAX_SIZE - Len(s) |-> 0]
<1>1. 0 <= TOPIC_MAX_SIZE /\ TOPIC_MAX_SIZE \in Nat /\ TOPIC_MAX_SIZE - 0 = TOPIC_MAX_SIZE
  BY Sizes
<1>2. /\ Stops(buffer, 0, TOPIC_MAX_SIZE, Len(s)) /\ s \in Seq(Byte \ {0})
      /\ \A i \in 1..Len(s) : s[i] = buffer[0 + i - 1]
  BY <1>1, textIsText
<1>3. Len(s) \in 0..TOPIC_MAX_SIZE
  BY <1>1, <1>2 DEF Stops
<1> HIDE DEF s
<1>4. 0 \in Byte
  BY PayloadAssumption DEF Byte
<1>5. s \in Seq(Byte)
  BY <1>2
<1>6. Writes(s, buffer, 0)
  BY <1>2, <1>5 DEF Writes
<1>7. TOPIC_MAX_SIZE - Len(s) \in Nat /\ Len(s) \in Nat /\ 0 + Len(s) = Len(s)
  BY <1>1, <1>3
<1>8. z \in Seq(Byte) /\ Len(z) = TOPIC_MAX_SIZE - Len(s)
      /\ \A i \in 1..TOPIC_MAX_SIZE - Len(s) : z[i] = 0
  BY <1>4, <1>7
<1> HIDE DEF z
<1>9. Writes(z, buffer, 0 + Len(s))
  <2>1. ASSUME NEW i \in 1..Len(z)
        PROVE  z[i] = buffer[(0 + Len(s)) + i - 1]
    <3>1. (0 + Len(s)) + i - 1 \in Len(s)..TOPIC_MAX_SIZE - 1
      BY <1>1, <1>3, <1>8
    <3>2. QED  BY <1>8, <3>1 DEF s
  <2>2. QED  BY <1>8, <2>1 DEF Writes
<1>10. Writes(s \o z, buffer, 0) /\ Len(s \o z) = Len(s) + Len(z)
  BY <1>6, <1>9, WritesBehind
<1>11. padded(s) = s \o z
  BY DEF padded, z
<1>12. Len(s) + Len(z) = TOPIC_MAX_SIZE
  BY <1>1, <1>3, <1>8
<1>13. Writes(padded(s), buffer, 0) /\ Len(padded(s)) = TOPIC_MAX_SIZE
  BY <1>10, <1>11, <1>12
<1>14. QED  BY <1>13 DEF s

LEMMA TypeIndex ==
  ASSUME NEW k \in 1..4
  PROVE  SelectInSeq(Type, LAMBDA t : t = Type[k]) = k
<1> DEFINE I == {i \in 1..Len(Type) : Type[i] = Type[k]}
<1>1. Len(Type) = 4
  BY DEF Type
<1>2. I = {k}
  <2>1. ASSUME NEW i \in 1..4, Type[i] = Type[k]
        PROVE  i = k
    BY <2>1, TypeNames
  <2>2. QED  BY <1>1, <2>1
<1>3. SelectInSeq(Type, LAMBDA t : t = Type[k]) = IF I # {} THEN Min(I) ELSE 0
  BY DEF SelectInSeq
<1> HIDE DEF I
<1>4. Min(I) = k
  BY <1>2 DEF Min
<1>5. QED  BY <1>2, <1>3, <1>4

\* A text that starts in the buffer has a NUL behind it: the datagram is shorter
\* than the buffer.
LEMMA textHasNUL ==
  ASSUME Arrived, NEW at \in Nat, at < BUF_LEN, NEW n, Stops(Buffer(datagram), at, BUF_LEN, n)
  PROVE  Buffer(datagram)[at + n] = 0
<1> DEFINE d == datagram
           B == Buffer(d)
<1>1. d \in Seq(Byte) /\ Len(d) \in Nat /\ Len(d) < BUF_LEN /\ BUF_LEN \in Nat
  BY Sizes DEF Arrived
<1>2. n \in Nat /\ n <= BUF_LEN - at
  BY <1>1 DEF Stops
<1> SUFFICES ASSUME n = BUF_LEN - at PROVE FALSE
  BY DEF Stops
<1>3. BUF_LEN - 1 \in 0..BUF_LEN - 1 /\ n - 1 \in 0..n - 1 /\ at + (n - 1) = BUF_LEN - 1
      /\ BUF_LEN - 1 >= Len(d)
  BY <1>1, <1>2
<1>4. B[BUF_LEN - 1] = 0
  BY <1>1, <1>3, BufferIsBytes
<1>5. B[at + (n - 1)] # 0
  BY <1>3 DEF Stops
<1>6. QED  BY <1>3, <1>4, <1>5

\* The value, put back, is what the datagram has behind the type.
LEMMA WritesValue ==
  ASSUME Arrived, IsNumber \/ (IsPacket /\ Sent.data_type = "STRING"),
         Sent.data_type = "FLOAT" => uint(Buffer(datagram), value_at + 1, WORD) < Power(2, Precision)
  PROVE  /\ Writes(value(Sent), Buffer(datagram), value_at)
         /\ Sent.data_type = "STRING" => Buffer(datagram)[value_at + Len(value(Sent))] = 0
<1> DEFINE B == Buffer(datagram)
           b == B[data_type_at]
           v == uint(B, value_at + 1, WORD)
           h == uint(B, value_at, HALF)
<1>1. Packs(datagram) /\ Sent = packet(datagram) /\ (b # 3 => Sent.contents # <<>>)
      /\ b \in 0..3 /\ Sent.data_type = Type[b + 1]
  <2>1. Packs(datagram)
    BY SentPacks DEF IsNumber
  <2>2. Sent.data_type = Type[b + 1] /\ b \in 0..3
    BY <2>1, PacketParts DEF Sent, Packs
  <2>3. b # 3 => Sent.data_type # "STRING"
    BY <2>2, TypeNames
  <2>4. QED  BY <2>1, <2>2, <2>3 DEF Sent, IsNumber
<1>2. /\ b = 0 => Sent.contents = Signed(B, v, 0)
      /\ b = 1 => Sent.contents = Number(FALSE, h, 2)
      /\ b = 2 => Sent.contents = Signed(B, to_float(v), B[value_at + 1 + WORD])
  BY <1>1, TypeByte
<1>3. /\ b = 0 => Sent.data_type = "INT"
      /\ b = 1 => Sent.data_type = "SHORT_REAL"
      /\ b = 2 => Sent.data_type = "FLOAT"
      /\ b = 3 => Sent.data_type = "STRING"
  BY <1>1, TypeNames
<1>4. \A i \in 0..BUF_LEN - 1 : B[i] \in Byte
  BY BufferIsBytes DEF Arrived
<1>5. /\ Writes(bytes(v, WORD), B, value_at + 1) /\ Len(bytes(v, WORD)) = WORD
      /\ Writes(bytes(h, HALF), B, value_at) /\ Len(bytes(h, HALF)) = HALF
  <2>1. Holds(B, value_at + 1, WORD) /\ Holds(B, value_at, HALF)
    BY NumbersAreHeld DEF Arrived
  <2>2. value_at + 1 \in Nat /\ value_at \in Nat /\ WORD \in Nat /\ HALF \in Nat
    BY Sizes
  <2>3. QED  BY <2>1, <2>2, WritesNumber
<1>6. v \in Nat
  BY NumbersAreHeld, uintFits, Sizes DEF Arrived
<1> HIDE DEF v, h, b
\* A sign byte and the bytes of the number behind it.
<1>7. ASSUME NEW k, NEW l, Sent.contents # <<>>, Sent.contents = Signed(B, k, l)
      PROVE  /\ Writes(sign(Sent.contents), B, value_at) /\ Len(sign(Sent.contents)) = 1
             /\ Sent.contents.digits = k /\ Sent.contents.decimals = l
  <2>1. B[value_at] \in {0, 1} /\ Sent.contents = Number(B[value_at] = 1, k, l)
    BY <1>7 DEF Signed
  <2>2. Sent.contents.minus = (B[value_at] = 1)
    BY <2>1, NumberIsSomething
  <2>3. sign(Sent.contents) = <<B[value_at]>>
    BY <2>1, <2>2 DEF sign
  <2>4. B[value_at] \in Byte /\ value_at \in Nat
    BY <1>4, Sizes
  <2>5. QED  BY <2>1, <2>3, <2>4, WritesOne, NumberIsSomething
<1>8. ASSUME NEW k, NEW l, Sent.contents # <<>>, Sent.contents = Signed(B, k, l), k = v
      PROVE  LET t == sign(Sent.contents) \o bytes(Sent.contents.digits, WORD)
             IN  Writes(t, B, value_at) /\ Len(t) = 1 + WORD
  <2> DEFINE g == sign(Sent.contents)
             n == bytes(v, WORD)
  <2>1. Writes(g, B, value_at) /\ Len(g) = 1 /\ Sent.contents.digits = v
    BY <1>7, <1>8
  <2> HIDE DEF g, n, B
  <2>2. Writes(n, B, value_at + Len(g)) /\ Len(n) = WORD /\ value_at \in Nat
    BY <1>5, <2>1, Sizes DEF n, B
  <2>3. Writes(g \o n, B, value_at) /\ Len(g \o n) = Len(g) + Len(n)
    <3>1. value_at \in Nat /\ Writes(g, B, value_at) /\ Writes(n, B, value_at + Len(g))
      BY <2>1, <2>2
    <3>2. QED  BY <3>1, WritesBehind
  <2>4. QED  BY <2>1, <2>2, <2>3 DEF g, n, B
<1>9. CASE b = 0
  <2>1. value(Sent) = sign(Sent.contents) \o bytes(Sent.contents.digits, WORD)
    BY <1>3, <1>9 DEF value
  <2>2. QED  BY <1>1, <1>2, <1>3, <1>8, <1>9, <2>1
<1>10. CASE b = 1
  <2>1. value(Sent) = bytes(Sent.contents.digits, HALF)
    BY <1>3, <1>10 DEF value
  <2>2. Sent.contents.digits = h
    BY <1>2, <1>10 DEF Number
  <2>3. QED  BY <1>3, <1>5, <1>10, <2>1, <2>2
<1>11. CASE b = 2
  <2> DEFINE e == B[value_at + 1 + WORD]
             t == sign(Sent.contents) \o bytes(Sent.contents.digits, WORD)
  <2>1. value(Sent) = t \o <<Sent.contents.decimals>>
    BY <1>3, <1>11 DEF value
  <2>2. to_float(v) = v
    <3>1. v < Power(2, Precision)
      BY <1>3, <1>11 DEF v
    <3>2. v <= Power(2, Precision)
      BY <1>6, <3>1, Sizes, PowerPositive
    <3>3. QED  BY <1>6, <3>2, to_floatIsExact
  <2>3. Sent.contents = Signed(B, v, e) /\ Sent.contents # <<>>
    BY <1>1, <1>2, <1>11, <2>2
  <2>4. Sent.contents.decimals = e
    BY <1>7, <2>3
  <2>5. Writes(t, B, value_at) /\ Len(t) = 1 + WORD
    BY <1>8, <2>3
  <2>6. value_at + (1 + WORD) = value_at + 1 + WORD /\ value_at + 1 + WORD \in 0..BUF_LEN - 1
        /\ value_at \in Nat /\ value_at + 1 + WORD \in Nat
    BY Sizes
  <2>7. Writes(<<e>>, B, value_at + Len(t))
    BY <1>4, <2>5, <2>6, WritesOne
  <2> HIDE DEF t, e
  <2>8. Writes(t \o <<e>>, B, value_at)
    BY <2>5, <2>6, <2>7, WritesBehind
  <2>9. QED  BY <1>3, <1>11, <2>1, <2>4, <2>8
<1>12. CASE b = 3
  <2> DEFINE s == text(B, value_at, BUF_LEN)
  <2>1. value(Sent) = Sent.contents
    BY <1>3, <1>12 DEF value
  <2>2. Sent.contents = s
    <3>1. Sent.contents = contents(B)
      BY <1>1, PacketParts
    <3>2. QED  BY <1>12, <3>1 DEF contents, b
  <2>3. value_at \in Nat /\ BUF_LEN \in Nat /\ value_at < BUF_LEN
    BY Sizes
  <2>4. \A j \in value_at..BUF_LEN - 1 : B[j] \in Byte
    BY <1>4, <2>3
  <2>5. /\ Stops(B, value_at, BUF_LEN, Len(s)) /\ s \in Seq(Byte \ {0})
        /\ \A i \in 1..Len(s) : s[i] = B[value_at + i - 1]
    BY <2>3, <2>4, textIsText
  <2>6. B[value_at + Len(s)] = 0
    BY <2>3, <2>5, textHasNUL
  <2> HIDE DEF s, B
  <2>7. Writes(s, B, value_at)
    BY <2>5 DEF Writes
  <2>8. QED  BY <2>1, <2>2, <2>6, <2>7 DEF B
<1>13. b = 0 \/ b = 1 \/ b = 2 \/ b = 3
  BY <1>1
<1>14. QED  BY <1>9, <1>10, <1>11, <1>12, <1>13

LEMMA NothingIsLost ==
  ASSUME Arrived
  PROVE  NothingLost
<1> DEFINE B     == Buffer(datagram)
           again == encoding(Sent)
           clean == \A i \in Len(Sent.topic)..TOPIC_MAX_SIZE - 1 : B[i] = 0
           exact == uint(B, value_at + 1, WORD) < Power(2, Precision)
<1> SUFFICES ASSUME IsNumber \/ (IsPacket /\ Sent.data_type = "STRING"),
                    clean, Sent.data_type = "FLOAT" => exact
             PROVE  /\ \A i \in DOMAIN again : again[i] = B[i - 1]
                    /\ Sent.data_type = "STRING" => B[Len(again)] = 0
  BY DEF NothingLost
<1> DEFINE head == padded(Sent.topic)
           b    == B[data_type_at]
           v    == value(Sent)
<1>1. Packs(datagram) /\ Sent = packet(datagram)
  BY SentPacks DEF IsNumber, Sent
<1>2. \A i \in 0..BUF_LEN - 1 : B[i] \in Byte
  BY BufferIsBytes DEF Arrived
<1>3. Writes(v, B, value_at) /\ (Sent.data_type = "STRING" => B[value_at + Len(v)] = 0)
  BY WritesValue
<1> HIDE DEF B, v
<1>4. Writes(head, B, 0) /\ Len(head) = TOPIC_MAX_SIZE
  <2>1. Sent.topic = text(B, 0, TOPIC_MAX_SIZE)
    BY <1>1, PacketParts DEF B
  <2>2. \A i \in 0..TOPIC_MAX_SIZE - 1 : B[i] \in Byte
    BY <1>2, Sizes
  <2>3. QED  BY <2>1, <2>2, WritesTopic
<1>5. SelectInSeq(Type, LAMBDA t : t = Sent.data_type) - 1 = b
  <2>1. b \in 0..3 /\ Sent.data_type = Type[b + 1]
    BY <1>1, PacketParts DEF B, Packs
  <2>2. b + 1 \in 1..4 /\ (b + 1) - 1 = b
    BY <2>1
  <2>3. SelectInSeq(Type, LAMBDA t : t = Type[b + 1]) = b + 1
    BY <2>2, TypeIndex
  <2>4. QED  BY <2>1, <2>2, <2>3
<1>6. Writes(<<b>>, B, data_type_at) /\ Len(<<b>>) = 1
  BY <1>2, Sizes, WritesOne
<1>7. again = (head \o <<b>>) \o v
  BY <1>5 DEF encoding, v
<1> HIDE DEF head, b, again
<1>8. Writes(head \o <<b>>, B, 0) /\ Len(head \o <<b>>) = value_at
  <2>1. 0 + Len(head) = data_type_at /\ Len(head) + 1 = value_at
    BY <1>4, Sizes
  <2>2. Writes(head \o <<b>>, B, 0) /\ Len(head \o <<b>>) = Len(head) + Len(<<b>>)
    BY <1>4, <1>6, <2>1, WritesBehind
  <2>3. QED  BY <1>6, <2>1, <2>2
<1>9. Writes(again, B, 0) /\ Len(again) = value_at + Len(v)
  <2>1. 0 + Len(head \o <<b>>) = value_at
    BY <1>8, Sizes
  <2> DEFINE t == head \o <<b>>
  <2>2. Writes(t, B, 0) /\ Writes(v, B, 0 + Len(t)) /\ Len(t) = value_at
    BY <1>3, <1>8, <2>1
  <2> HIDE DEF t
  <2>3. Writes(t \o v, B, 0) /\ Len(t \o v) = value_at + Len(v)
    BY <2>2, WritesBehind
  <2>4. QED  BY <1>7, <2>3 DEF t
<1>10. ASSUME NEW i \in DOMAIN again
       PROVE  again[i] = B[i - 1]
  <2>1. DOMAIN again = 1..Len(again)
    BY <1>9 DEF Writes
  <2>2. i \in 1..Len(again) /\ 0 + i - 1 = i - 1
    BY <2>1
  <2>3. again[i] = B[0 + i - 1]
    BY <1>9, <2>2 DEF Writes
  <2>4. QED  BY <2>2, <2>3
<1>11. QED  BY <1>3, <1>9, <1>10

-----------------------------------------------------------------------------
LEMMA ArrivedAlways ==
  Spec => []Arrived
<1>1. Init => Arrived
  BY Sizes DEF Init, Arrived
<1>2. Arrived /\ [Next]_datagram => Arrived'
  <2> SUFFICES ASSUME Arrived, [Next]_datagram PROVE Arrived'
    OBVIOUS
  <2>1. CASE Next
    BY <2>1, Sizes DEF Next, Arrived
  <2>2. CASE UNCHANGED datagram
    BY <2>2 DEF Arrived
  <2>3. QED  BY <2>1, <2>2
<1>3. QED  BY <1>1, <1>2, PTL DEF Spec

\* What get_udp_packet hands on has a topic without NULs, one of the four types
\* and contents of that type (server_helper.hpp:85-199).
THEOREM PacketsAreTyped == Spec => []TypeOK
BY ArrivedAlways, TypesHold, PTL

\* What is printed for a packet, put back into the format, is the datagram again,
\* but for what the format has no room for (server_helper.hpp:85-199).
THEOREM DecodingLosesNothing == Spec => []NothingLost
BY ArrivedAlways, NothingIsLost, PTL

\* The conversion of a mantissa to float errs by rounding alone
\* (server_helper.hpp:167).
THEOREM FloatRoundsToNearest == Spec => []FloatIsNearest
BY ArrivedAlways, FloatsAreNearest, PTL

\* A datagram without its end is passed on under the same topic, type and sign,
\* and as a number no further from zero, or as the whole mantissa of a FLOAT that
\* has lost its exponent (server.cpp:126).
THEOREM TruncationShrinksOrUnscales == Spec => CutShrinksOrUnscales
<1> DEFINE Kept == /\ Sent'.topic = Sent.topic
                   /\ Sent'.data_type = Sent.data_type
                   /\ Sent'.contents.minus = Sent.contents.minus
                   /\ IF Sent.data_type = "FLOAT" /\ Len(datagram) = value_at + 1 + WORD
                      THEN Sent.contents.decimals = 0 /\ Sent'.contents.digits = Sent.contents.digits
                      ELSE /\ Sent'.contents.decimals = Sent.contents.decimals
                           /\ Sent'.contents.digits >= Sent.contents.digits
<1>1. Arrived /\ [Next]_datagram => [Len(datagram) > value_at /\ IsNumber => Kept]_datagram
  <2> SUFFICES ASSUME Arrived, Next, Len(datagram) > value_at, IsNumber PROVE Kept
    OBVIOUS
  <2>1. /\ Sent'.topic = Sent.topic /\ Sent'.data_type = Sent.data_type
        /\ Sent'.contents.minus = Sent.contents.minus
        /\ Unscales(datagram, Sent, Sent')
    BY ByteKeepsWhatArrived
  <2>2. QED  BY <2>1 DEF Unscales
<1>2. QED  BY <1>1, ArrivedAlways, PTL DEF Spec, CutShrinksOrUnscales
=============================================================================
