------------------------------ MODULE NatFacts ------------------------------
(***************************************************************************)
(* Facts about natural numbers, places in a sequence and counting that the *)
(* proofs about several programs share.                                    *)
(***************************************************************************)
EXTENDS Integers, Sequences, FiniteSetsExt, FiniteSetTheorems,
        FunctionTheorems, SequenceTheorems, WellFoundedInduction, TLAPS

\* Min is what it says on every set of numbers that is not empty.
LEMMA MinIsLeast ==
  ASSUME NEW S \in SUBSET Nat, S # {}
  PROVE  Min(S) \in S /\ \A y \in S : Min(S) <= y
<1> DEFINE R == OpToRel(<, Nat)
<1>1. IsWellFoundedOn(R, Nat)
  BY NatLessThanWellFounded
<1>2. PICK x \in S : \A y \in S : ~ (<<y, x>> \in R)
  BY <1>1, WFMin
<1>3. \A y \in S : x <= y
  <2>1. ASSUME NEW y \in S PROVE ~ (y < x)
    BY <1>2 DEF OpToRel
  <2> QED BY <2>1
<1> HIDE DEF R
<1> QED BY <1>2, <1>3 DEF Min

\* Min of a set is its one least element.
LEMMA MinIs ==
  ASSUME NEW S \in SUBSET Nat, NEW x \in S, \A y \in S : x <= y
  PROVE  Min(S) = x
<1>1. Min(S) \in S /\ \A y \in S : Min(S) <= y
  BY MinIsLeast
<1>2. Min(S) \in Nat /\ x \in Nat /\ Min(S) <= x /\ x <= Min(S)
  BY <1>1
<1> QED BY <1>2

\* A part of a sequence, also an empty one at its end.
LEMMA PartOfSeq ==
  ASSUME NEW S, NEW s \in Seq(S),
         NEW m \in 1 .. Len(s) + 1, NEW n \in m - 1 .. Len(s)
  PROVE  /\ SubSeq(s, m, n) \in Seq(S)
         /\ Len(SubSeq(s, m, n)) = n - m + 1
         /\ \A i \in 1 .. n - m + 1 : SubSeq(s, m, n)[i] = s[m + i - 1]
<1>1. Len(s) \in Nat /\ m \in Int /\ n \in Int /\ \A i \in 1 .. Len(s) : s[i] \in S
  BY LenProperties, ElementOfSeq
<1>2. \A i \in m .. n : s[i] \in S
  BY <1>1
<1>3. /\ SubSeq(s, m, n) \in Seq(S)
      /\ Len(SubSeq(s, m, n)) = IF m <= n THEN n - m + 1 ELSE 0
      /\ \A i \in 1 .. n - m + 1 : SubSeq(s, m, n)[i] = s[m + i - 1]
  BY <1>1, <1>2, SubSeqProperties
<1> QED BY <1>1, <1>3

\* A function over the first n numbers is a sequence of length n.
LEMMA SeqOfLength ==
  ASSUME NEW S, NEW n \in Nat, NEW s \in [1 .. n -> S]
  PROVE  s \in Seq(S) /\ Len(s) = n
<1>1. s \in Seq(S)
  BY SeqDef
<1>2. DOMAIN s = 1 .. Len(s) /\ Len(s) \in Nat /\ DOMAIN s = 1 .. n
  BY <1>1, LenProperties
<1>3. Len(s) = n
  BY <1>2
<1> QED BY <1>1, <1>3

\* There is a function that a recursion over 0 .. n describes, each value made
\* by the function G from the one before.
LEMMA RecursionHasValue ==
  ASSUME NEW S, NEW base \in S, NEW n \in Nat, NEW G \in [1 .. n -> [S -> S]]
  PROVE  \E f \in [0 .. n -> S] :
            f[0] = base /\ \A i \in 1 .. n : f[i] = G[i][f[i - 1]]
<1> DEFINE Has(k) == \E f \in [0 .. k -> S] :
                        f[0] = base /\ \A i \in 1 .. k : f[i] = G[i][f[i - 1]]
           K == {k \in 0 .. n : ~ Has(k)}
<1>1. ASSUME K # {} PROVE FALSE
  <2>1. PICK m \in K : \A k \in K : m <= k
    <3>1. K \in SUBSET Nat
      OBVIOUS
    <3> HIDE DEF K
    <3> QED BY <3>1, <1>1, MinIsLeast
  <2>2. CASE m = 0
    <3> DEFINE f == [i \in 0 .. 0 |-> base]
    <3>1. f \in [0 .. 0 -> S] /\ f[0] = base /\ \A i \in 1 .. 0 : f[i] = G[i][f[i - 1]]
      OBVIOUS
    <3> HIDE DEF f
    <3> QED BY <3>1, <2>1, <2>2
  <2>3. CASE m # 0
    <3>1. m \in 1 .. n /\ m - 1 \in 0 .. n /\ ~ (m <= m - 1)
      BY <2>1, <2>3
    <3>2. Has(m - 1)
      <4> HIDE DEF Has
      <4> QED BY <3>1, <2>1
    <3>3. PICK f \in [0 .. m - 1 -> S] :
             f[0] = base /\ \A i \in 1 .. m - 1 : f[i] = G[i][f[i - 1]]
      BY <3>2
    <3>4. f[m - 1] \in S /\ G[m][f[m - 1]] \in S
      BY <3>1, <3>3
    <3> DEFINE g == [i \in 0 .. m |-> IF i = m THEN G[m][f[m - 1]] ELSE f[i]]
    <3>5. \A i \in 0 .. m : i # m => i \in 0 .. m - 1 /\ f[i] \in S
      BY <3>1, <3>3
    <3>6. g \in [0 .. m -> S]
      BY <3>4, <3>5
    <3>7. g[0] = base
      BY <3>1, <3>3
    <3>8. ASSUME NEW i \in 1 .. m PROVE g[i] = G[i][g[i - 1]]
      <4>1. i - 1 \in 0 .. m /\ i - 1 # m /\ i \in 0 .. m
        BY <3>1
      <4>2. g[i - 1] = f[i - 1]
        BY <4>1
      <4>3. CASE i = m
        <5>1. m \in 0 .. m /\ g[m] = G[m][f[m - 1]]
          BY <3>1
        <5> HIDE DEF g
        <5> QED BY <5>1, <4>2, <4>3
      <4>4. CASE i # m
        <5>1. g[i] = f[i] /\ i \in 1 .. m - 1
          BY <4>1, <4>4, <3>1
        <5> QED BY <5>1, <4>2, <3>3
      <4> QED BY <4>3, <4>4
    <3> HIDE DEF g
    <3>9. Has(m)
      BY <3>6, <3>7, <3>8
    <3> QED BY <3>9, <2>1
  <2> QED BY <2>2, <2>3
<1>2. Has(n)
  <2> HIDE DEF Has
  <2> QED BY <1>1
<1> QED BY <1>2

\* A remainder is smaller than what it is divided by.
LEMMA ModIs == ASSUME NEW a \in Int, NEW b \in Nat \ {0} PROVE a % b \in 0 .. b - 1
OBVIOUS

\* How many words of w bits hold n bits: the word of every bit is among them.
LEMMA WordOfBit ==
  ASSUME NEW w \in Nat \ {0}, NEW n \in Nat, NEW b \in 0 .. n - 1
  PROVE  b \div w < (n + w - 1) \div w
<1> DEFINE q == b \div w
           p == (n + w - 1) \div w
<1>1. ASSUME NEW a \in Nat
      PROVE  a \div w \in Nat /\ w * (a \div w) <= a /\ a < w * ((a \div w) + 1)
  OBVIOUS
<1>2. q \in Nat /\ w * q <= b
  BY <1>1
<1>3. p \in Nat /\ n + w - 1 < w * (p + 1)
  <2>1. n + w - 1 \in Nat
    OBVIOUS
  <2> QED BY <2>1, <1>1
<1> HIDE DEF q, p
<1>4. w * (q + 1) = w * q + w /\ w * q \in Nat /\ w * (p + 1) \in Nat
  BY <1>2, <1>3
<1>5. w * (q + 1) < w * (p + 1)
  <2> DEFINE x == w * q
             y == w * (p + 1)
  <2>1. x \in Nat /\ y \in Nat /\ x <= b /\ n + w - 1 < y
    BY <1>2, <1>3, <1>4
  <2> HIDE DEF x, y
  <2>2. x + w < y
    BY <2>1
  <2> QED BY <2>2, <1>4 DEF x, y
<1>6. q + 1 < p + 1
  BY <1>2, <1>3, <1>5
<1> QED BY <1>2, <1>3, <1>6 DEF q, p

\* Max takes the greatest member of a set of numbers that has a bound.
LEMMA MaxIsGreatest ==
  ASSUME NEW b \in Nat, NEW S \in SUBSET (0 .. b), S # {}
  PROVE  Max(S) \in S /\ \A y \in S : y <= Max(S)
<1> DEFINE T == {b - y : y \in S}
<1>0. \A y \in S : y \in Int /\ b - y \in Nat
  OBVIOUS
<1>1. T \in SUBSET Nat /\ T # {}
  BY <1>0
<1>2. Min(T) \in T /\ \A z \in T : Min(T) <= z
  <2> HIDE DEF T
  <2> QED BY <1>1, MinIsLeast
<1>3. PICK x \in S : Min(T) = b - x
  BY <1>2
<1>4. \A y \in S : x >= y
  <2> TAKE y \in S
  <2>1. b - x <= b - y
    BY <1>2, <1>3
  <2> QED BY <2>1, <1>0
<1>5. Max(S) \in S /\ \A y \in S : Max(S) >= y
  BY <1>3, <1>4 DEF Max
<1>6. Max(S) \in Int /\ \A y \in S : y \in Int
  BY <1>0, <1>5
<1> QED BY <1>5, <1>6

\* Induction from a to b, on the set of the numbers for which a fact is true.
LEMMA StepByStep ==
  ASSUME NEW a \in Nat, NEW b \in Nat, NEW P, a \in P,
         \A i \in a .. b - 1 : i \in P => i + 1 \in P
  PROVE  \A i \in a .. b : i \in P
<1> DEFINE K == {i \in a .. b : i \notin P}
<1>1. ASSUME K # {} PROVE FALSE
  <2>1. PICK m \in K : \A k \in K : m <= k
    <3>1. K \in SUBSET Nat
      OBVIOUS
    <3> HIDE DEF K
    <3> QED BY <3>1, <1>1, MinIsLeast
  <2>2. m # a /\ m \in a .. b /\ m \notin P
    BY <2>1
  <2>3. m - 1 \in a .. b - 1 /\ ~ (m <= m - 1) /\ m - 1 + 1 = m /\ m - 1 \in a .. b
    BY <2>2
  <2>4. m - 1 \in P
    BY <2>1, <2>3
  <2> QED BY <2>2, <2>3, <2>4
<1> QED BY <1>1

\* The first place of those that were looked for.
LEMMA LeastOf ==
  ASSUME NEW n \in Nat, NEW I \in SUBSET (1 .. n), NEW x, x = IF I # {} THEN Min(I) ELSE 0
  PROVE  /\ x \in 0 .. n /\ (x = 0 => I = {}) /\ (x # 0 => x \in I)
         /\ \A i \in 1 .. x - 1 : i \notin I
<1>1. CASE I = {}
  BY <1>1
<1>2. CASE I # {}
  <2>1. I \in SUBSET Nat
    OBVIOUS
  <2>2. Min(I) \in I /\ \A i \in I : Min(I) <= i
    BY <1>2, <2>1, MinIsLeast
  <2>3. x \in I /\ x \in 1 .. n /\ \A i \in I : x <= i
    BY <1>2, <2>2
  <2>4. \A i \in 1 .. x - 1 : ~ (x <= i)
    BY <2>3
  <2> QED BY <2>3, <2>4
<1> QED BY <1>1, <1>2

----------------------------------------------------------------------------
(* Division, and powers of two *)

\* Division with remainder.
LEMMA DivisionIs ==
  ASSUME NEW n \in Nat, NEW d \in Nat \ {0}
  PROVE  /\ n \div d \in Nat /\ n % d \in 0 .. d - 1
         /\ n = (n \div d) * d + (n % d)
<1>1. n % d \in 0 .. d - 1
  BY ModIs
<1>2. n \div d \in Nat /\ d * (n \div d) <= n /\ n < d * ((n \div d) + 1)
  OBVIOUS
<1>3. n \div d \in Int /\ n = (n \div d) * d + (n % d)
  OBVIOUS
<1> DEFINE q == n \div d
           r == n % d
<1> HIDE DEF q, r
<1>4. q \in Nat /\ r \in 0 .. d - 1 /\ n = q * d + r
  BY <1>1, <1>2, <1>3 DEF q, r
<1> QED
  BY <1>4 DEF q, r

\* Quotient and remainder are the only ones ...
LEMMA NoMultipleBetween ==
  ASSUME NEW d \in Nat \ {0}, NEW p \in Int, NEW q \in Int, NEW r \in 0 .. d - 1,
         NEW s \in 0 .. d - 1, p * d + r = q * d + s
  PROVE  p = q /\ r = s
<1>1. ASSUME p < q PROVE FALSE
  <2>1. PICK k \in Nat : q = p + 1 + k
    <3>1. q - p - 1 \in Nat
      BY <1>1
    <3> QED
      BY <3>1
  <2>2. q * d = p * d + d + k * d /\ k * d >= 0
    BY <2>1
  <2> QED
    BY <2>2
<1>2. ASSUME q < p PROVE FALSE
  <2>1. PICK k \in Nat : p = q + 1 + k
    <3>1. p - q - 1 \in Nat
      BY <1>2
    <3> QED
      BY <3>1
  <2>2. p * d = q * d + d + k * d /\ k * d >= 0
    BY <2>1
  <2> QED
    BY <2>2
<1>3. p = q
  BY <1>1, <1>2
<1> QED
  BY <1>3

\* ... so whatever has their form is what division gives.
LEMMA DivisionUnique ==
  ASSUME NEW n \in Nat, NEW d \in Nat \ {0}, NEW q \in Nat, NEW r \in 0 .. d - 1,
         n = q * d + r
  PROVE  n \div d = q /\ n % d = r
<1>1. n \div d \in Nat /\ n % d \in 0 .. d - 1 /\ n = (n \div d) * d + (n % d)
  BY DivisionIs
<1> DEFINE p == n \div d
           s == n % d
<1>2. p \in Int /\ s \in 0 .. d - 1 /\ p * d + s = q * d + r
  BY <1>1
<1> HIDE DEF p, s
<1>3. p = q /\ s = r
  BY <1>2, NoMultipleBetween
<1> QED
  BY <1>3 DEF p, s

\* A number is taken apart in two steps or in one.
LEMMA DivideTwice ==
  ASSUME NEW n \in Nat, NEW c \in Nat \ {0}, NEW d \in Nat \ {0}
  PROVE  /\ n \div (c * d) = (n \div d) \div c
         /\ (n % (c * d)) = (((n \div d) % c) * d) + (n % d)
<1> DEFINE q == n \div d
           m == n % d
           s == q \div c
           e == q % c
<1>1. q \in Nat /\ m \in 0 .. d - 1 /\ n = q * d + m
  BY DivisionIs
<1>2. s \in Nat /\ e \in 0 .. c - 1 /\ q = s * c + e
  <2> HIDE DEF q
  <2> QED
    BY <1>1, DivisionIs
<1> HIDE DEF q, m, s, e
<1>3. n = s * (c * d) + (e * d + m)
  <2>1. q * d = s * (c * d) + e * d
    BY <1>1, <1>2
  <2> QED
    BY <1>1, <1>2, <2>1
<1>4. c * d \in Nat \ {0} /\ e * d + m \in 0 .. c * d - 1
  <2>1. PICK k \in Nat : c = e + 1 + k
    <3>1. c - e - 1 \in Nat /\ c = e + 1 + (c - e - 1)
      BY <1>2
    <3> QED
      BY <3>1
  <2>2. c * d = e * d + d + k * d /\ k * d \in Nat /\ e * d \in Nat
    BY <1>2, <2>1
  <2> QED
    BY <1>1, <2>2
<1>5. n \div (c * d) = s /\ (n % (c * d)) = e * d + m
  <2> DEFINE f == c * d
             r == e * d + m
  <2>1. f \in Nat \ {0} /\ r \in 0 .. f - 1 /\ n = s * f + r
    BY <1>3, <1>4
  <2> HIDE DEF f, r
  <2>2. n \div f = s /\ n % f = r
    BY <1>2, <2>1, DivisionUnique
  <2> QED
    BY <2>2 DEF f, r
<1>6. /\ n \div (c * d) = (n \div d) \div c
      /\ (n % (c * d)) = (((n \div d) % c) * d) + (n % d)
  <2>1. s = (n \div d) \div c /\ e = (n \div d) % c /\ m = n % d
    BY DEF q, m, s, e
  <2> DEFINE f == c * d
             x == (n \div d) \div c
             y == (n \div d) % c
             z == n % d
  <2>2. n \div f = s /\ n % f = e * d + m /\ s = x /\ e = y /\ m = z
    BY <1>5, <2>1 DEF f
  <2> HIDE DEF f, x, y, z
  <2>3. n \div f = x /\ n % f = y * d + z
    BY <2>2
  <2> QED
    BY <2>3 DEF f, x, y, z
<1> QED
  BY <1>6

\* The powers of two, counted as the subsets of n things.
LEMMA PowerStep ==
  ASSUME NEW n \in Nat
  PROVE  2 ^ n \in Nat \ {0} /\ 2 ^ (n + 1) = 2 * 2 ^ n /\ 2 ^ 0 = 1
<1> DEFINE S == 1 .. n
           T == 1 .. n + 1
           A == SUBSET S
           B == {X \cup {n + 1} : X \in A}
<1>1. /\ IsFiniteSet(S) /\ Cardinality(S) = n
      /\ IsFiniteSet(T) /\ Cardinality(T) = n + 1
  BY FS_Interval
<1>2. /\ IsFiniteSet(A) /\ Cardinality(A) = 2 ^ n
  BY <1>1, FS_SUBSET
<1>3. Cardinality(SUBSET T) = 2 ^ (n + 1)
  BY <1>1, FS_SUBSET
<1>4. Cardinality(A) \in Nat /\ A # {}
  BY <1>2, FS_CardinalityType
<1>5. Cardinality(A) # 0
  BY <1>2, <1>4, FS_EmptySet
<1>6. IsFiniteSet(B) /\ Cardinality(B) = Cardinality(A)
  <2> DEFINE f == [X \in A |-> X \cup {n + 1}]
  <2>1. f \in Bijection(A, B)
    <3>1. f \in [A -> B] /\ \A Y \in B : \E X \in A : f[X] = Y
      OBVIOUS
    <3>2. ASSUME NEW X \in A, NEW Y \in A, f[X] = f[Y] PROVE X = Y
      <4>1. n + 1 \notin X /\ n + 1 \notin Y
        OBVIOUS
      <4>2. X \cup {n + 1} = Y \cup {n + 1}
        BY <3>2
      <4> QED
        BY <4>1, <4>2
    <3> QED
      BY <3>1, <3>2 DEF Bijection, Injection, Surjection, IsInjective
  <2>2. ExistsBijection(A, B)
    BY <2>1 DEF ExistsBijection
  <2> QED
    BY <1>2, <2>2, FS_Bijection
<1>7. SUBSET T = A \cup B
  <2>1. T = S \cup {n + 1} /\ S \subseteq T
    OBVIOUS
  <2>2. ASSUME NEW Y \in SUBSET T, n + 1 \in Y PROVE Y \in B
    <3>1. Y \ {n + 1} \in A /\ Y = (Y \ {n + 1}) \cup {n + 1}
      BY <2>1, <2>2
    <3> QED
      BY <3>1
  <2> QED
    BY <2>1, <2>2
<1>8. A \cap B = {}
  OBVIOUS
<1>9. Cardinality(SUBSET T) = 2 ^ n + 2 ^ n
  <2> HIDE DEF A, B
  <2>1. /\ IsFiniteSet(A) /\ IsFiniteSet(B)
        /\ Cardinality(A) = 2 ^ n /\ Cardinality(B) = 2 ^ n /\ 2 ^ n \in Nat
    BY <1>2, <1>4, <1>6
  <2>2. Cardinality(A \cup B) = Cardinality(A) + Cardinality(B) - Cardinality(A \cap B)
    BY <2>1, FS_Union
  <2>3. Cardinality(A \cap B) = 0
    BY <1>8, FS_EmptySet
  <2>4. Cardinality(A \cup B) = 2 ^ n + 2 ^ n
    BY <2>1, <2>2, <2>3
  <2> QED
    BY <1>7, <2>4
<1>10. 2 ^ 0 = 1
  OBVIOUS
<1>11. 2 ^ n \in Nat \ {0}
  <2> HIDE DEF A
  <2> QED
    BY <1>2, <1>4, <1>5
<1>12. 2 ^ (n + 1) = 2 ^ n + 2 ^ n
  BY <1>3, <1>9
<1> QED
  BY <1>10, <1>11, <1>12

\* The power of a sum is the product of the powers.
LEMMA PowerSum ==
  ASSUME NEW a \in Nat, NEW b \in Nat
  PROVE  2 ^ (a + b) = 2 ^ a * 2 ^ b
<1> DEFINE P == {i \in 0 .. b : 2 ^ (a + i) = 2 ^ a * 2 ^ i}
<1>1. 0 \in P
  <2>1. 2 ^ a \in Nat /\ 2 ^ 0 = 1 /\ a + 0 = a
    BY PowerStep
  <2> QED
    BY <2>1
<1>2. ASSUME NEW i \in 0 .. b - 1, i \in P PROVE i + 1 \in P
  <2>1. 2 ^ a \in Nat
    BY PowerStep
  <2>2. 2 ^ i \in Nat /\ 2 ^ (i + 1) = 2 * 2 ^ i
    BY PowerStep
  <2>3. 2 ^ ((a + i) + 1) = 2 * 2 ^ (a + i)
    <3>1. a + i \in Nat
      OBVIOUS
    <3> QED
      BY <3>1, PowerStep
  <2>4. (a + i) + 1 = a + (i + 1) /\ i + 1 \in 0 .. b /\ 2 ^ (a + i) = 2 ^ a * 2 ^ i
    BY <1>2
  <2> DEFINE x == 2 ^ a
             y == 2 ^ i
             z == 2 ^ (i + 1)
             w == 2 ^ (a + (i + 1))
  <2>5. w = 2 * (x * y) /\ z = 2 * y /\ x \in Nat /\ y \in Nat
    BY <2>1, <2>2, <2>3, <2>4
  <2> HIDE DEF x, y, z, w
  <2>6. w = x * z
    BY <2>5
  <2> QED
    BY <2>4, <2>6 DEF x, z, w
<1> HIDE DEF P
<1>3. b \in P
  <2>1. 0 \in Nat /\ \A i \in 0 .. b - 1 : i \in P => i + 1 \in P
    BY <1>2
  <2>2. \A i \in 0 .. b : i \in P
    BY <1>1, <2>1, StepByStep
  <2> QED
    BY <2>2
<1> QED
  BY <1>3 DEF P

\* What is below the modulus stays, also when the modulus is added.
LEMMA ModOnce ==
  ASSUME NEW b \in Nat \ {0}, NEW z \in 0 .. b - 1
  PROVE  z % b = z /\ (z + b) % b = z
OBVIOUS
=============================================================================
