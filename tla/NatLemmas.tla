----------------------------- MODULE NatLemmas -----------------------------
(***************************************************************************)
(* Facts about natural numbers and finite sets that the proofs share.      *)
(***************************************************************************)
EXTENDS FiniteSetTheorems, TLAPS

\* A nonempty set of naturals has a smallest element.
LEMMA SmallestOfNats ==
  ASSUME NEW S \in SUBSET Nat, S # {}
  PROVE  \E m \in S : \A j \in S : m <= j
<1> DEFINE Less == {ss \in Nat \X Nat : ss[1] < ss[2]}
<1>1. IsWellFoundedOn(Less, Nat)
  BY NatLessThanWellFounded, Zenon DEF OpToRel
<1>2. \E m \in S : \A j \in S : ~(<<j, m>> \in Less)
  <2> HIDE DEF Less
  <2>1. QED BY <1>1, WFMin
<1>3. PICK m \in S : \A j \in S : ~(<<j, m>> \in Less)
  BY <1>2
<1>4. ASSUME NEW j \in S, j < m PROVE FALSE
  <2>1. <<j, m>> \in Nat \X Nat /\ <<j, m>>[1] < <<j, m>>[2]
    BY <1>4
  <2>2. <<j, m>> \in Less
    BY <2>1, Zenon
  <2>3. QED BY <1>3, <2>2
<1>5. QED BY <1>4

\* A nonempty set of naturals with an upper bound has a largest element.
LEMMA LargestOfBounded ==
  ASSUME NEW n \in Nat, NEW S \in SUBSET (0 .. n), S # {}
  PROVE  \E m \in S : \A j \in S : j <= m
<1> DEFINE T == {n - s : s \in S}
<1>1. T \in SUBSET Nat /\ T # {}
  <2>1. \A s \in S : n - s \in Nat
    OBVIOUS
  <2>2. PICK s \in S : TRUE
    OBVIOUS
  <2>3. n - s \in T
    OBVIOUS
  <2>4. QED BY <2>1, <2>3
<1>2. PICK t \in T : \A j \in T : t <= j
  <2> HIDE DEF T
  <2>1. QED BY <1>1, SmallestOfNats
<1>3. PICK m \in S : t = n - m
  OBVIOUS
<1>4. ASSUME NEW j \in S PROVE j <= m
  <2>1. n - j \in T
    OBVIOUS
  <2>2. t <= n - j
    BY <1>2, <2>1
  <2>3. QED BY <1>3, <2>2
<1>5. QED BY <1>4

\* What holds of 0 and of the successor of each of its members is Nat.
LEMMA NatsBySteps ==
  ASSUME NEW S \in SUBSET Nat, 0 \in S, \A n \in S : n + 1 \in S
  PROVE  S = Nat
<1> SUFFICES ASSUME Nat \ S # {} PROVE FALSE
  OBVIOUS
<1>1. PICK m \in Nat \ S : \A j \in Nat \ S : m <= j
  BY SmallestOfNats
<1>2. m - 1 \in Nat /\ m - 1 \notin Nat \ S
  BY <1>1
<1>3. QED BY <1>1, <1>2

\* f is the history of a value that is changed n times, the k-th time by step.
Iterates(f, first, step, n) ==
  \A k \in 0 .. n : f[k] = IF k = 0 THEN first ELSE step[<<k, f[k - 1]>>]

\* There is one.
LEMMA Iterated ==
  ASSUME NEW n \in Nat, NEW V, NEW first \in V, NEW step \in [(1 .. n) \X V -> V]
  PROVE  \E f \in [0 .. n -> V] : Iterates(f, first, step, n)
<1> DEFINE Goes(m, f) ==
             \A k \in 0 .. m :
               f[k] = IF k = 0 THEN first ELSE step[<<k, f[k - 1]>>]
           S == {m \in Nat : m <= n => \E f \in [0 .. m -> V] : Goes(m, f)}
<1>1. 0 \in S
  <2>1. [k \in 0 .. 0 |-> first] \in [0 .. 0 -> V] OBVIOUS
  <2>2. Goes(0, [k \in 0 .. 0 |-> first]) OBVIOUS
  <2>3. QED BY <2>1, <2>2
<1>2. ASSUME NEW m \in S PROVE m + 1 \in S
  <2> SUFFICES ASSUME m + 1 <= n
               PROVE  \E h \in [0 .. m + 1 -> V] : Goes(m + 1, h)
    <3> HIDE DEF Goes
    <3>1. m \in Nat BY Zenon
    <3>2. m + 1 \in Nat BY <3>1
    <3>3. QED BY <3>2, Zenon
  <2>1. m \in Nat /\ \E f \in [0 .. m -> V] : Goes(m, f)
    <3> HIDE DEF Goes
    <3>1. m \in Nat /\ (m <= n => \E f \in [0 .. m -> V] : Goes(m, f))
      BY <1>2, Zenon
    <3>2. QED BY <3>1
  <2>2. PICK f \in [0 .. m -> V] : Goes(m, f) BY <2>1
  <2> DEFINE next == step[<<m + 1, f[m]>>]
             h == [k \in 0 .. m + 1 |-> IF k <= m THEN f[k] ELSE next]
  <2>3. next \in V
    <3>1. f[m] \in V /\ m + 1 \in 1 .. n BY <2>1
    <3>2. QED BY <3>1
  <2>4. h \in [0 .. m + 1 -> V]
    <3> HIDE DEF next
    <3>1. QED BY <2>1, <2>3
  <2>5. ASSUME NEW k \in 0 .. m + 1
        PROVE  h[k] = IF k = 0 THEN first ELSE step[<<k, h[k - 1]>>]
    <3>1. CASE k = m + 1
      <4>1. h[m + 1] = next /\ h[m] = f[m] /\ k # 0 /\ k - 1 = m
        <5> HIDE DEF next
        <5>1. QED BY <2>1, <3>1
      <4> HIDE DEF h
      <4>2. QED BY <4>1, <3>1
    <3>2. CASE k # m + 1
      <4> HIDE DEF next
      <4>1. k \in 0 .. m /\ h[k] = f[k] BY <2>1, <3>2
      <4>2. k # 0 => h[k - 1] = f[k - 1] BY <2>1, <4>1
      <4>3. f[k] = IF k = 0 THEN first ELSE step[<<k, f[k - 1]>>] BY <2>2, <4>1
      <4> HIDE DEF h
      <4>4. QED BY <4>1, <4>2, <4>3
    <3>3. QED BY <3>1, <3>2
  <2>6. QED BY <2>4, <2>5
<1>3. S = Nat
  <2> HIDE DEF S
  <2>1. S \in SUBSET Nat BY DEF S
  <2>2. QED BY <1>1, <1>2, <2>1, NatsBySteps
<1>4. n \in S BY <1>3
<1>5. QED BY <1>4 DEF Iterates

\* f has the sums of the first values of g.
ArePartialSums(f, g, n) ==
  /\ f \in [0 .. n -> Int]
  /\ \A k \in 0 .. n : f[k] = IF k = 0 THEN g[0] ELSE f[k - 1] + g[k]

\* They exist.
LEMMA PartialSums ==
  ASSUME NEW n \in Nat, NEW g \in [0 .. n -> Int]
  PROVE  \E f : ArePartialSums(f, g, n)
<1> DEFINE step == [kv \in (1 .. n) \X Int |-> kv[2] + g[kv[1]]]
<1>1. step \in [(1 .. n) \X Int -> Int] OBVIOUS
<1>2. g[0] \in Int OBVIOUS
<1>3. PICK f \in [0 .. n -> Int] : Iterates(f, g[0], step, n)
  <2> HIDE DEF step
  <2>1. QED BY <1>1, <1>2, Iterated
<1>4. ASSUME NEW k \in 0 .. n
      PROVE  f[k] = IF k = 0 THEN g[0] ELSE f[k - 1] + g[k]
  <2>1. k # 0 => k \in 1 .. n /\ f[k - 1] \in Int OBVIOUS
  <2>2. k # 0 => step[<<k, f[k - 1]>>] = f[k - 1] + g[k]
    BY <2>1
  <2> HIDE DEF step
  <2>3. QED BY <1>3, <2>2 DEF Iterates
<1>5. QED BY <1>4 DEF ArePartialSums

\* Functions that differ at j at most.
DifferAt(g, h, j, n) ==
  /\ g \in [0 .. n -> Int] /\ h \in [0 .. n -> Int]
  /\ \A k \in 0 .. n : k # j => h[k] = g[k]

\* A sum changes by as much as one of its values does.
LEMMA SumChanged ==
  ASSUME NEW n \in Nat, NEW g, NEW h, NEW j \in 0 .. n, DifferAt(g, h, j, n),
         NEW f, ArePartialSums(f, g, n), NEW e, ArePartialSums(e, h, n)
  PROVE  e[n] - f[n] = h[j] - g[j]
<1> DEFINE S == {m \in Nat : m <= n =>
                   e[m] - f[m] = IF j <= m THEN h[j] - g[j] ELSE 0}
<1>0. /\ g \in [0 .. n -> Int] /\ h \in [0 .. n -> Int]
      /\ \A k \in 0 .. n : k # j => h[k] = g[k]
  BY DEF DifferAt
<1>1. 0 \in S BY <1>0 DEF ArePartialSums
<1>2. ASSUME NEW m \in S PROVE m + 1 \in S
  <2>1. m \in Nat /\ (m <= n => e[m] - f[m] = IF j <= m THEN h[j] - g[j] ELSE 0)
    BY <1>2, Zenon
  <2>2. ASSUME m + 1 <= n
        PROVE  e[m + 1] - f[m + 1] = IF j <= m + 1 THEN h[j] - g[j] ELSE 0
    <3>1. /\ e[m + 1] = e[m] + h[m + 1] /\ f[m + 1] = f[m] + g[m + 1]
          /\ e[m] \in Int /\ f[m] \in Int /\ h[m + 1] \in Int /\ g[m + 1] \in Int
          /\ m + 1 \in 0 .. n /\ m \in 0 .. n /\ m + 1 - 1 = m
      <4>1. m + 1 \in 0 .. n /\ m \in 0 .. n /\ m + 1 - 1 = m /\ m + 1 # 0
        BY <2>1, <2>2
      <4>2. e[m + 1] = IF m + 1 = 0 THEN h[0] ELSE e[m + 1 - 1] + h[m + 1]
        BY <4>1 DEF ArePartialSums
      <4>2a. f[m + 1] = IF m + 1 = 0 THEN g[0] ELSE f[m + 1 - 1] + g[m + 1]
        BY <4>1 DEF ArePartialSums
      <4>3. /\ e[m] \in Int /\ f[m] \in Int
            /\ h[m + 1] \in Int /\ g[m + 1] \in Int
        BY <1>0, <4>1 DEF ArePartialSums
      <4>4. QED BY <4>1, <4>2, <4>2a, <4>3
    <3>2. m + 1 # j => h[m + 1] = g[m + 1] BY <1>0, <3>1
    <3>3. e[m] - f[m] = IF j <= m THEN h[j] - g[j] ELSE 0 BY <2>1, <2>2
    <3>4. h[j] \in Int /\ g[j] \in Int /\ j \in Int BY <1>0
    <3>5. CASE j <= m
      <4>1. j <= m + 1 /\ m + 1 # j BY <2>1, <3>4, <3>5
      <4>2. QED BY <3>1, <3>2, <3>3, <3>5, <4>1
    <3>6. CASE j = m + 1
      <4>1. ~(j <= m) BY <2>1, <3>6
      <4>2. e[m] = f[m] BY <3>1, <3>3, <4>1
      <4>3. QED BY <3>1, <3>4, <3>6, <4>2
    <3>7. CASE ~(j <= m + 1)
      <4>1. ~(j <= m) /\ m + 1 # j BY <2>1, <3>4, <3>7
      <4>2. e[m] = f[m] /\ h[m + 1] = g[m + 1] BY <3>1, <3>2, <3>3, <4>1
      <4>3. QED BY <3>1, <3>7, <4>2
    <3>8. QED BY <2>1, <3>4, <3>5, <3>6, <3>7
  <2>3. m + 1 \in Nat BY <2>1
  <2>4. QED BY <2>2, <2>3
<1>3. S = Nat
  <2> HIDE DEF S
  <2>1. S \in SUBSET Nat BY DEF S
  <2>2. QED BY <1>1, <1>2, <2>1, NatsBySteps
<1>4. n \in S BY <1>3
<1>5. QED BY <1>4

\* A sum is at most the product of the number of values and their bound, and it
\* is not negative if they are not.
LEMMA SumBounded ==
  ASSUME NEW n \in Nat, NEW g \in [0 .. n -> Nat], NEW f, ArePartialSums(f, g, n),
         NEW q \in Nat, NEW t \in Nat, \A k \in 0 .. n : g[k] <= q,
         \A k \in 0 .. n : k >= t => g[k] = 0
  PROVE  f[n] \in Nat /\ f[n] <= t * q
<1> DEFINE B(m) == IF m + 1 <= t THEN (m + 1) * q ELSE t * q
           S == {m \in Nat : m <= n => f[m] \in Nat /\ f[m] <= B(m)}
<1>0. \A m \in Nat : (m + 1) * q = m * q + q /\ m * q \in Nat OBVIOUS
<1>a. 0 * q = 0 /\ 1 * q = q OBVIOUS
<1>1. 0 \in S
  <2>1. f[0] = g[0] /\ g[0] \in Nat /\ g[0] <= q /\ (t = 0 => g[0] = 0)
    BY DEF ArePartialSums
  <2>2. t * q \in Nat OBVIOUS
  <2>3. t = 0 => t * q = 0 BY <1>a
  <2>4. 0 + 1 <= t => f[0] <= (0 + 1) * q BY <2>1, <1>a
  <2>5. QED BY <2>1, <2>2, <2>3, <2>4
<1>2. ASSUME NEW m \in S PROVE m + 1 \in S
  <2>1. m \in Nat /\ (m <= n => f[m] \in Nat /\ f[m] <= B(m))
    BY <1>2, Zenon
  <2>2. ASSUME m + 1 <= n
        PROVE  f[m + 1] \in Nat /\ f[m + 1] <= B(m + 1)
    <3>1. m + 1 \in 0 .. n /\ m \in 0 .. n /\ m + 1 - 1 = m /\ m + 1 # 0
      BY <2>1, <2>2
    <3>2. f[m + 1] = IF m + 1 = 0 THEN g[0] ELSE f[m + 1 - 1] + g[m + 1]
      BY <3>1 DEF ArePartialSums
    <3>3. f[m] \in Nat /\ f[m] <= B(m) BY <2>1, <2>2
    <3>4. g[m + 1] \in Nat /\ g[m + 1] <= q /\ (m + 1 >= t => g[m + 1] = 0)
      BY <3>1
    <3>5. f[m + 1] = f[m] + g[m + 1] BY <3>1, <3>2
    <3>6. CASE m + 1 + 1 <= t
      <4>1. f[m] <= (m + 1) * q BY <3>3, <3>6, <2>1
      <4>2. (m + 1 + 1) * q = (m + 1) * q + q /\ (m + 1) * q \in Nat
        BY <1>0, <2>1
      <4>3. f[m + 1] <= (m + 1 + 1) * q BY <4>1, <4>2, <3>5, <3>4, <3>3
      <4>4. QED BY <4>3, <3>6, <3>5, <3>4, <3>3
    <3>7. CASE ~(m + 1 + 1 <= t)
      <4>1. g[m + 1] = 0 BY <3>4, <3>7, <2>1
      <4>2. f[m + 1] = f[m] BY <4>1, <3>5, <3>3
      <4>3. f[m] <= t * q
        <5>1. CASE m + 1 = t BY <5>1, <3>3
        <5>2. CASE m + 1 # t
          <6>1. ~(m + 1 <= t) BY <5>2, <3>7, <2>1
          <6>2. QED BY <6>1, <3>3
        <5>3. QED BY <5>1, <5>2
      <4>4. QED BY <4>2, <4>3, <3>7, <3>3
    <3>8. QED BY <3>6, <3>7
  <2>3. m + 1 \in Nat BY <2>1
  <2> HIDE DEF B
  <2>4. QED BY <2>2, <2>3
<1>3. S = Nat
  <2> HIDE DEF S
  <2>1. S \in SUBSET Nat BY DEF S
  <2>2. QED BY <1>1, <1>2, <2>1, NatsBySteps
<1>4. n \in S BY <1>3
<1>5. f[n] \in Nat /\ f[n] <= B(n)
  <2> HIDE DEF B
  <2>1. QED BY <1>4
<1>6. B(n) <= t * q
  <2>1. CASE ~(n + 1 <= t) BY <2>1
  <2>2. CASE n + 1 <= t
    <3>1. t * q = (n + 1) * q + (t - (n + 1)) * q BY <2>2
    <3>2. (t - (n + 1)) * q \in Nat /\ (n + 1) * q \in Nat BY <2>2, <1>0
    <3>3. QED BY <3>1, <3>2, <2>2
  <2>3. QED BY <2>1, <2>2
<1>7. B(n) \in Nat BY <1>0
<1>8. t * q \in Nat OBVIOUS
<1> HIDE DEF B
<1>9. QED BY <1>5, <1>6, <1>7, <1>8
=============================================================================
