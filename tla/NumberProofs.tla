---------------------------- MODULE NumberProofs ----------------------------
(***************************************************************************)
(* A LongInt behaves as an integer type of its width does, for every       *)
(* number of digits and of bits in a digit and for all operands.           *)
(*                                                                         *)
(* The loops of the operators are recursive functions over the places, and *)
(* each has an equation that holds up to every place: the sum of the first *)
(* digits and its carry, the part of a product that is added so far, what  *)
(* a shift leaves of the digits below.  At the last place the equation is  *)
(* about the whole numbers, modulo MODULUS (Same); the sign is a MODULUS   *)
(* that is taken off (Signed).                                             *)
(*                                                                         *)
(* The loops that overwrite a number digit by digit (LongIntSteps) end     *)
(* with these results: up to its place a loop has written the digits of    *)
(* the result, and behind it there are those of the operand (Upto).        *)
(***************************************************************************)
EXTENDS LongIntSteps, NatFacts, TLAPS

----------------------------------------------------------------------------
(* The digits of a number, and what they are worth *)

\* The recursion has a value.
LEMMA RunningExists ==
  ASSUME NEW n \in Nat, NEW f
  PROVE  (\A i \in 1 .. n : f[i] \in Int)
            => \E h : h = [i \in 0 .. n |-> IF i = 0 THEN 0 ELSE h[i - 1] + f[i]]
<1> DEFINE G == [i \in 1 .. n |-> [v \in Int |-> v + f[i]]]
           base == 0
           S == Int
<1>1. ASSUME \A i \in 1 .. n : f[i] \in Int
      PROVE  \E h : h = [i \in 0 .. n |-> IF i = 0 THEN 0 ELSE h[i - 1] + f[i]]
  <2>1. G \in [1 .. n -> [S -> S]] /\ base \in S /\ n \in Nat
    BY <1>1
  <2>2. \A i \in 1 .. n, v \in S : G[i][v] = v + f[i]
    OBVIOUS
  <2> HIDE DEF G, base, S
  <2>3. PICK h \in [0 .. n -> S] : h[0] = base /\ \A i \in 1 .. n : h[i] = G[i][h[i - 1]]
    BY <2>1, RecursionHasValue, SMTT(60)
  <2>4. \A i \in 0 .. n : h[i] = IF i = 0 THEN 0 ELSE h[i - 1] + f[i]
    <3> TAKE i \in 0 .. n
    <3>1. CASE i = 0
      BY <3>1, <2>3 DEF base
    <3>2. CASE i # 0
      <4>1. i \in 1 .. n /\ i - 1 \in 0 .. n
        BY <3>2
      <4>2. h[i - 1] \in S /\ h[i] = G[i][h[i - 1]]
        BY <4>1, <2>3
      <4> QED
        BY <4>1, <4>2, <3>2, <2>2
    <3> QED
      BY <3>1, <3>2
  <2>5. h = [i \in 0 .. n |-> IF i = 0 THEN 0 ELSE h[i - 1] + f[i]]
    BY <2>3, <2>4
  <2> QED
    BY <2>5
<1> QED
  BY <1>1

LEMMA RunningIs ==
  ASSUME NEW n \in Nat, NEW f \in [1 .. n -> Int]
  PROVE  /\ Running(n, f) \in [0 .. n -> Int] /\ Running(n, f)[0] = 0
         /\ \A i \in 1 .. n : Running(n, f)[i] = Running(n, f)[i - 1] + f[i]
<1> DEFINE s == CHOOSE h : h = [i \in 0 .. n |-> IF i = 0 THEN 0 ELSE h[i - 1] + f[i]]
<1>2. Running(n, f) = s
  BY DEF Running
<1>3. \E h : h = [i \in 0 .. n |-> IF i = 0 THEN 0 ELSE h[i - 1] + f[i]]
  BY RunningExists
<1>4. s = [i \in 0 .. n |-> IF i = 0 THEN 0 ELSE s[i - 1] + f[i]]
  BY <1>3
<1> HIDE DEF s
<1>5. s[0] = 0 /\ (\A i \in 1 .. n : s[i] = s[i - 1] + f[i]) /\ DOMAIN s = 0 .. n
  BY <1>4
<1>6. \A i \in 0 .. n : s[i] \in Int
  <2> DEFINE P == {i \in 0 .. n : s[i] \in Int}
  <2>1. 0 \in P
    BY <1>5
  <2>2. ASSUME NEW i \in 0 .. n - 1, i \in P PROVE i + 1 \in P
    <3>1. s[i + 1] = s[i] + f[i + 1] /\ f[i + 1] \in Int /\ s[i] \in Int
      <4>1. i + 1 \in 1 .. n /\ (i + 1) - 1 = i
        OBVIOUS
      <4> QED
        BY <1>5, <2>2, <4>1
    <3> QED
      BY <3>1
  <2> HIDE DEF P
  <2>3. \A i \in 0 .. n : i \in P
    BY <2>1, <2>2, StepByStep
  <2> QED
    BY <2>3 DEF P
<1>7. s \in [0 .. n -> Int]
  BY <1>4, <1>6
<1> QED
  BY <1>2, <1>5, <1>7

\* What a one in the digit behind the first i is worth.
W(i) == 2 ^ (BITS * i)

LEMMA WeightsAre ==
  ASSUME NEW i \in Nat
  PROVE  W(i) \in Nat \ {0} /\ W(i + 1) = BASE * W(i) /\ W(0) = 1
<1>1. BITS \in Nat /\ BITS * i \in Nat /\ BITS * (i + 1) = BITS * i + BITS /\ BITS * 0 = 0
  BY LongIntAssumption
<1>2. 2 ^ (BITS * i + BITS) = 2 ^ (BITS * i) * 2 ^ BITS
  BY <1>1, PowerSum
<1>3. 2 ^ (BITS * i) \in Nat \ {0} /\ 2 ^ BITS \in Nat \ {0} /\ 2 ^ 0 = 1
  BY <1>1, PowerStep
<1> DEFINE w == 2 ^ (BITS * i)
           b == 2 ^ BITS
<1>4. w * b = b * w
  <2>1. w \in Nat /\ b \in Nat
    BY <1>3
  <2> HIDE DEF w, b
  <2> QED BY <2>1
<1>5. W(i + 1) = 2 ^ (BITS * i + BITS)
  BY <1>1 DEF W
<1> QED
  BY <1>1, <1>2, <1>3, <1>4, <1>5 DEF W, BASE

LEMMA BaseIs == BASE \in Nat /\ BASE >= 2 /\ DIGITS \in Nat /\ DIGITS >= 1 /\ MODULUS = W(DIGITS)
                /\ BITS \in Nat /\ BITS >= 1
<1>1. BITS - 1 \in Nat /\ (BITS - 1) + 1 = BITS
  BY LongIntAssumption
<1>2. 2 ^ (BITS - 1) \in Nat \ {0} /\ 2 ^ ((BITS - 1) + 1) = 2 * 2 ^ (BITS - 1)
  BY <1>1, PowerStep
<1> DEFINE h == 2 ^ (BITS - 1)
<1>3. BASE = 2 * h /\ h \in Nat \ {0}
  BY <1>1, <1>2 DEF BASE
<1> HIDE DEF h
<1> QED
  BY <1>3, LongIntAssumption DEF MODULUS, W

\* The number that the first digits are: below the weight of the next one.
LEMMA ValuesAre ==
  ASSUME NEW x \in LongInts
  PROVE  /\ Values(x) \in [0 .. DIGITS -> Nat] /\ Values(x)[0] = 0
         /\ \A i \in Places : Values(x)[i] = Values(x)[i - 1] + x[i] * W(i - 1)
         /\ \A i \in 0 .. DIGITS : Values(x)[i] < W(i)
<1> DEFINE f == [i \in Places |-> x[i] * 2 ^ (BITS * (i - 1))]
           v == Values(x)
<1>1. \A i \in Places : f[i] = x[i] * W(i - 1) /\ x[i] \in 0 .. BASE - 1 /\ W(i - 1) \in Nat /\ f[i] \in Nat
  <2> TAKE i \in Places
  <2>1. i - 1 \in Nat /\ i \in Nat
    BY DEF Places
  <2>2. W(i - 1) \in Nat /\ x[i] \in Nat /\ x[i] \in 0 .. BASE - 1
    BY <2>1, WeightsAre, BaseIs DEF LongInts
  <2>3. f[i] = x[i] * W(i - 1)
    BY DEF W
  <2>4. x[i] * W(i - 1) \in Nat
    <3> DEFINE w == W(i - 1)
    <3> HIDE DEF w
    <3> QED BY <2>2
  <2> QED BY <2>2, <2>3, <2>4
<1>2. f \in [1 .. DIGITS -> Int] /\ DIGITS \in Nat
  BY <1>1, BaseIs DEF Places
<1>3. v = Running(DIGITS, f)
  BY DEF Values
<1>4. /\ v \in [0 .. DIGITS -> Int] /\ v[0] = 0
      /\ \A i \in 1 .. DIGITS : v[i] = v[i - 1] + f[i]
  <2> HIDE DEF f
  <2> QED BY <1>2, <1>3, RunningIs
<1> HIDE DEF v, f
<1>5. \A i \in 0 .. DIGITS : v[i] \in Nat /\ v[i] < W(i)
  <2> DEFINE P == {i \in 0 .. DIGITS : v[i] \in Nat /\ v[i] < W(i)}
  <2>1. 0 \in P
    <3>1. W(0) = 1 /\ 0 \in Nat
      BY WeightsAre
    <3>2. v[0] = 0 /\ 0 \in 0 .. DIGITS
      BY <1>4, <1>2
    <3> QED BY <3>1, <3>2
  <2>2. ASSUME NEW i \in 0 .. DIGITS - 1, i \in P PROVE i + 1 \in P
    <3>1. i + 1 \in Places /\ (i + 1) - 1 = i /\ i \in Nat /\ i + 1 \in 0 .. DIGITS
      BY <1>2 DEF Places
    <3>2. v[i + 1] = v[i] + x[i + 1] * W(i) /\ x[i + 1] \in 0 .. BASE - 1
      BY <3>1, <1>1, <1>4 DEF Places
    <3>3. W(i) \in Nat \ {0} /\ W(i + 1) = BASE * W(i) /\ v[i] \in Nat /\ v[i] < W(i) /\ BASE \in Nat
      BY <3>1, <2>2, WeightsAre, BaseIs
    <3> DEFINE w == W(i)
               u == W(i + 1)
               d == x[i + 1]
               p == v[i]
               q == v[i + 1]
    <3>4. w \in Nat /\ d \in Nat /\ d + 1 <= BASE /\ BASE \in Nat /\ p < w /\ p \in Nat
          /\ q = p + d * w /\ u = BASE * w
      BY <3>2, <3>3
    <3> HIDE DEF w, d, p, q, u
    <3>5. d * w \in Nat /\ d * w + w <= BASE * w
      <4>1. PICK k \in Nat : BASE = d + 1 + k
        <5>1. BASE - d - 1 \in Nat
          BY <3>4
        <5> QED BY <5>1, <3>4
      <4>2. BASE * w = d * w + w + k * w /\ k * w \in Nat /\ d * w \in Nat
        BY <4>1, <3>4
      <4> QED BY <4>2, <3>4
    <3>6. q \in Nat /\ q < u
      BY <3>4, <3>5
    <3> QED BY <3>6, <3>1 DEF q, u
  <2> HIDE DEF P
  <2>3. \A i \in 0 .. DIGITS : i \in P
    BY <2>1, <2>2, <1>2, StepByStep
  <2> QED BY <2>3 DEF P
<1>6. \A i \in Places : v[i] = v[i - 1] + x[i] * W(i - 1)
  BY <1>1, <1>4 DEF Places
<1>7. v \in [0 .. DIGITS -> Nat]
  BY <1>4, <1>5
<1> QED
  BY <1>4, <1>5, <1>6, <1>7 DEF v

LEMMA UnsignedIs ==
  ASSUME NEW x \in LongInts
  PROVE  Unsigned(x) \in Nat /\ Unsigned(x) < MODULUS /\ Unsigned(x) = Values(x)[DIGITS]
         /\ MODULUS \in Nat \ {0}
<1>1. DIGITS \in 0 .. DIGITS /\ DIGITS \in Nat /\ MODULUS = W(DIGITS)
  BY BaseIs
<1>2. W(DIGITS) \in Nat \ {0}
  BY <1>1, WeightsAre
<1>3. Values(x)[DIGITS] \in Nat /\ Values(x)[DIGITS] < W(DIGITS)
  BY <1>1, ValuesAre
<1> QED
  BY <1>1, <1>2, <1>3 DEF Unsigned

LEMMA CarriesAre ==
  ASSUME NEW x \in LongInts, NEW y \in LongInts
  PROVE  /\ Carries(x, y) \in [0 .. DIGITS -> {0, 1}] /\ Carries(x, y)[0] = 0
         /\ \A i \in Places : Carries(x, y)[i] =
              IF x[i] > BASE - 1 - y[i] \/ (Carries(x, y)[i - 1] = 1 /\ x[i] = BASE - 1 - y[i])
              THEN 1 ELSE 0
<1> DEFINE E(i, v) == IF x[i] > BASE - 1 - y[i] \/ (v = 1 /\ x[i] = BASE - 1 - y[i]) THEN 1 ELSE 0
           G == [i \in 1 .. DIGITS |-> [v \in {0, 1} |-> E(i, v)]]
           S == {0, 1}
           base == 0
<1>1. G \in [1 .. DIGITS -> [S -> S]] /\ base \in S /\ DIGITS \in Nat
  BY BaseIs
<1>2. \A i \in 1 .. DIGITS, v \in S : G[i][v] = E(i, v)
  OBVIOUS
<1> HIDE DEF G, base, S
<1>3. PICK h \in [0 .. DIGITS -> S] : h[0] = base /\ \A i \in 1 .. DIGITS : h[i] = G[i][h[i - 1]]
  BY <1>1, RecursionHasValue, SMTT(60)
<1>4. \A i \in 0 .. DIGITS : h[i] = IF i = 0 THEN 0 ELSE E(i, h[i - 1])
  <2> HIDE DEF E
  <2> TAKE i \in 0 .. DIGITS
  <2>1. CASE i = 0
    BY <2>1, <1>3 DEF base
  <2>2. CASE i # 0
    <3>1. i \in 1 .. DIGITS /\ i - 1 \in 0 .. DIGITS
      BY <2>2, <1>1
    <3>2. h[i - 1] \in S /\ h[i] = G[i][h[i - 1]]
      BY <3>1, <1>3
    <3> QED
      BY <3>1, <3>2, <2>2, <1>2
  <2> QED
    BY <2>1, <2>2
<1>5. h = [i \in 0 .. DIGITS |-> IF i = 0 THEN 0 ELSE E(i, h[i - 1])]
  BY <1>3, <1>4
<1> DEFINE c == CHOOSE g : g = [i \in 0 .. DIGITS |-> IF i = 0 THEN 0 ELSE E(i, g[i - 1])]
<1>6. Carries(x, y) = c
  BY DEF Carries
<1>7. c = [i \in 0 .. DIGITS |-> IF i = 0 THEN 0 ELSE E(i, c[i - 1])]
  <2> HIDE DEF E
  <2> QED BY <1>5
<1> HIDE DEF c
<1>8. c[0] = 0 /\ \A i \in Places : c[i] = E(i, c[i - 1])
  <2> HIDE DEF E
  <2> QED BY <1>7, <1>1 DEF Places
<1>9. \A i \in 0 .. DIGITS : c[i] \in {0, 1}
  BY <1>7
<1>10. c \in [0 .. DIGITS -> {0, 1}]
  <2> HIDE DEF E
  <2> QED BY <1>7, <1>9
<1> QED
  BY <1>6, <1>8, <1>10

LEMMA BorrowsAre ==
  ASSUME NEW x \in LongInts, NEW y \in LongInts
  PROVE  /\ Borrows(x, y) \in [0 .. DIGITS -> {0, 1}] /\ Borrows(x, y)[0] = 0
         /\ \A i \in Places : Borrows(x, y)[i] =
              IF y[i] > x[i] \/ (y[i] = x[i] /\ Borrows(x, y)[i - 1] = 1) THEN 1 ELSE 0
<1> DEFINE E(i, v) == IF y[i] > x[i] \/ (y[i] = x[i] /\ v = 1) THEN 1 ELSE 0
           G == [i \in 1 .. DIGITS |-> [v \in {0, 1} |-> E(i, v)]]
           S == {0, 1}
           base == 0
<1>1. G \in [1 .. DIGITS -> [S -> S]] /\ base \in S /\ DIGITS \in Nat
  BY BaseIs
<1>2. \A i \in 1 .. DIGITS, v \in S : G[i][v] = E(i, v)
  OBVIOUS
<1> HIDE DEF G, base, S
<1>3. PICK h \in [0 .. DIGITS -> S] : h[0] = base /\ \A i \in 1 .. DIGITS : h[i] = G[i][h[i - 1]]
  BY <1>1, RecursionHasValue, SMTT(60)
<1>4. \A i \in 0 .. DIGITS : h[i] = IF i = 0 THEN 0 ELSE E(i, h[i - 1])
  <2> HIDE DEF E
  <2> TAKE i \in 0 .. DIGITS
  <2>1. CASE i = 0
    BY <2>1, <1>3 DEF base
  <2>2. CASE i # 0
    <3>1. i \in 1 .. DIGITS /\ i - 1 \in 0 .. DIGITS
      BY <2>2, <1>1
    <3>2. h[i - 1] \in S /\ h[i] = G[i][h[i - 1]]
      BY <3>1, <1>3
    <3> QED
      BY <3>1, <3>2, <2>2, <1>2
  <2> QED
    BY <2>1, <2>2
<1>5. h = [i \in 0 .. DIGITS |-> IF i = 0 THEN 0 ELSE E(i, h[i - 1])]
  BY <1>3, <1>4
<1> DEFINE c == CHOOSE g : g = [i \in 0 .. DIGITS |-> IF i = 0 THEN 0 ELSE E(i, g[i - 1])]
<1>6. Borrows(x, y) = c
  BY DEF Borrows
<1>7. c = [i \in 0 .. DIGITS |-> IF i = 0 THEN 0 ELSE E(i, c[i - 1])]
  <2> HIDE DEF E
  <2> QED BY <1>5
<1> HIDE DEF c
<1>8. c[0] = 0 /\ \A i \in Places : c[i] = E(i, c[i - 1])
  <2> HIDE DEF E
  <2> QED BY <1>7, <1>1 DEF Places
<1>9. \A i \in 0 .. DIGITS : c[i] \in {0, 1}
  BY <1>7
<1>10. c \in [0 .. DIGITS -> {0, 1}]
  <2> HIDE DEF E
  <2> QED BY <1>7, <1>9
<1> QED
  BY <1>6, <1>8, <1>10

\* What a whole number of times m is, is 0 modulo m; and a number that is.
LEMMA MultipleMod ==
  ASSUME NEW m \in Nat \ {0}, NEW q \in Int, NEW a, a = q * m
  PROVE  a % m = 0
<1>1. q * m \in Int
  OBVIOUS
<1>2. (q * m) % m \in 0 .. m - 1
  BY <1>1, ModIs
<1> DEFINE n == q * m
           p == n \div m
           r == n % m
<1>3. n = p * m + r /\ p \in Int
  BY <1>1
<1> HIDE DEF p, r
<1>4. p * m + r = q * m + 0 /\ r \in 0 .. m - 1 /\ 0 \in 0 .. m - 1
  BY <1>2, <1>3 DEF r
<1>5. r = 0
  BY <1>3, <1>4, NoMultipleBetween
<1> QED
  BY <1>5 DEF r

\* One digit of a sum and of a difference.
LEMMA SumOfDigits ==
  ASSUME NEW b \in Nat, b >= 2, NEW x \in 0 .. b - 1, NEW y \in 0 .. b - 1, NEW c \in {0, 1}
  PROVE  /\ (x + y + c) % b \in 0 .. b - 1
         /\ x + y + c = ((x + y + c) % b)
              + (IF x > b - 1 - y \/ (c = 1 /\ x = b - 1 - y) THEN 1 ELSE 0) * b
<1> DEFINE s == x + y + c
           d == IF x > b - 1 - y \/ (c = 1 /\ x = b - 1 - y) THEN 1 ELSE 0
<1>1. s \in Nat /\ b \in Nat \ {0}
  OBVIOUS
<1>2. CASE s >= b
  <2>1. d = 1
    BY <1>2
  <2>2. s - b \in 0 .. b - 1 /\ (s - b) + b = s
    BY <1>2
  <2>3. s % b = s - b
    <3> DEFINE z == s - b
    <3>1. z \in 0 .. b - 1 /\ z + b = s
      BY <2>2
    <3> HIDE DEF z, s
    <3>2. (z + b) % b = z
      BY <3>1, <1>1, ModOnce
    <3> QED BY <3>1, <3>2 DEF z
  <2> QED BY <2>1, <2>2, <2>3
<1>3. CASE s < b
  <2>1. d = 0
    BY <1>3
  <2>2. s % b = s
    BY <1>1, <1>3, ModOnce
  <2> QED BY <2>1, <2>2, <1>3, <1>1
<1> QED BY <1>1, <1>2, <1>3

LEMMA DifferenceOfDigits ==
  ASSUME NEW b \in Nat, b >= 2, NEW x \in 0 .. b - 1, NEW y \in 0 .. b - 1, NEW c \in {0, 1}
  PROVE  /\ (x - y - c) % b \in 0 .. b - 1
         /\ x - y - c = ((x - y - c) % b) - (IF y > x \/ (y = x /\ c = 1) THEN 1 ELSE 0) * b
<1> DEFINE s == x - y - c
           d == IF y > x \/ (y = x /\ c = 1) THEN 1 ELSE 0
<1>1. s \in Int /\ b \in Nat \ {0}
  OBVIOUS
<1>2. CASE s < 0
  <2>1. d = 1
    BY <1>2
  <2>2. s + b \in 0 .. b - 1
    BY <1>2
  <2>3. s % b = s + b
    <3> DEFINE r == s % b
               p == s \div b
    <3>1. r \in 0 .. b - 1
      BY <1>1, ModIs
    <3>2. s = p * b + r /\ p \in Int
      BY <1>1
    <3> DEFINE z == s + b
    <3>3. z \in 0 .. b - 1 /\ p * b + r = (0 - 1) * b + z
      BY <2>2, <3>2
    <3> HIDE DEF r, p, z
    <3>4. r = z
      BY <3>1, <3>2, <3>3, <1>1, NoMultipleBetween
    <3> QED BY <3>4 DEF r, z
  <2> QED BY <2>1, <2>2, <2>3
<1>3. CASE s >= 0
  <2>1. d = 0 /\ s \in 0 .. b - 1
    BY <1>3
  <2>2. s % b = s
    BY <1>1, <2>1, ModOnce
  <2> QED BY <2>1, <2>2, <1>1
<1> QED BY <1>1, <1>2, <1>3

\* Numbers that are equal digit by digit up to a place are equal so far.
LEMMA PlusIs ==
  ASSUME NEW x \in LongInts, NEW y \in LongInts
  PROVE  /\ Plus(x, y) \in LongInts
         /\ \A i \in Places : Plus(x, y)[i] = (x[i] + y[i] + Carries(x, y)[i - 1]) % BASE
         /\ \A i \in Places : x[i] + y[i] + Carries(x, y)[i - 1]
                                = Plus(x, y)[i] + Carries(x, y)[i] * BASE
<1> DEFINE c == Carries(x, y)
           r == Plus(x, y)
<1>1. r = [i \in Places |-> (x[i] + y[i] + c[i - 1]) % BASE]
  BY DEF Plus, SumDigits
<1>2. \A i \in Places : r[i] \in 0 .. BASE - 1 /\ r[i] = (x[i] + y[i] + c[i - 1]) % BASE
                        /\ x[i] + y[i] + c[i - 1] = r[i] + c[i] * BASE
  <2> TAKE i \in Places
  <2>1. i \in 0 .. DIGITS /\ i - 1 \in 0 .. DIGITS
    BY BaseIs DEF Places
  <2>2. c[i - 1] \in {0, 1} /\ c[i] = IF x[i] > BASE - 1 - y[i] \/ (c[i - 1] = 1 /\ x[i] = BASE - 1 - y[i])
              THEN 1 ELSE 0
    BY <2>1, CarriesAre
  <2>3. x[i] \in 0 .. BASE - 1 /\ y[i] \in 0 .. BASE - 1 /\ BASE \in Nat /\ BASE >= 2
    BY BaseIs DEF LongInts
  <2> HIDE DEF c, r
  <2>4. (x[i] + y[i] + c[i - 1]) % BASE \in 0 .. BASE - 1
        /\ x[i] + y[i] + c[i - 1] = ((x[i] + y[i] + c[i - 1]) % BASE) + c[i] * BASE
    <3> DEFINE b == BASE
               p == x[i]
               q == y[i]
               e == c[i - 1]
               d == c[i]
    <3>1. b \in Nat /\ b >= 2 /\ p \in 0 .. b - 1 /\ q \in 0 .. b - 1 /\ e \in {0, 1}
      BY <2>2, <2>3
    <3>2. d = IF p > b - 1 - q \/ (e = 1 /\ p = b - 1 - q) THEN 1 ELSE 0
      BY <2>2
    <3> HIDE DEF b, p, q, e, d
    <3>3. (p + q + e) % b \in 0 .. b - 1 /\ p + q + e = ((p + q + e) % b) + d * b
      BY <3>1, <3>2, SumOfDigits
    <3> QED BY <3>3 DEF b, p, q, e, d
  <2> QED BY <2>4, <1>1
<1> HIDE DEF c, r
<1>3. r \in LongInts
  BY <1>1, <1>2 DEF LongInts
<1> QED BY <1>2, <1>3 DEF c, r

LEMMA MinusIs ==
  ASSUME NEW x \in LongInts, NEW y \in LongInts
  PROVE  /\ Minus(x, y) \in LongInts
         /\ \A i \in Places : Minus(x, y)[i] = (x[i] - y[i] - Borrows(x, y)[i - 1]) % BASE
         /\ \A i \in Places : x[i] - y[i] - Borrows(x, y)[i - 1]
                                = Minus(x, y)[i] - Borrows(x, y)[i] * BASE
<1> DEFINE c == Borrows(x, y)
           r == Minus(x, y)
<1>1. r = [i \in Places |-> (x[i] - y[i] - c[i - 1]) % BASE]
  BY DEF Minus
<1>2. \A i \in Places : r[i] \in 0 .. BASE - 1 /\ r[i] = (x[i] - y[i] - c[i - 1]) % BASE
                        /\ x[i] - y[i] - c[i - 1] = r[i] - c[i] * BASE
  <2> TAKE i \in Places
  <2>1. i \in 0 .. DIGITS /\ i - 1 \in 0 .. DIGITS
    BY BaseIs DEF Places
  <2>2. c[i - 1] \in {0, 1} /\ c[i] = IF y[i] > x[i] \/ (y[i] = x[i] /\ c[i - 1] = 1) THEN 1 ELSE 0
    BY <2>1, BorrowsAre
  <2>3. x[i] \in 0 .. BASE - 1 /\ y[i] \in 0 .. BASE - 1 /\ BASE \in Nat /\ BASE >= 2
    BY BaseIs DEF LongInts
  <2> HIDE DEF c, r
  <2>4. (x[i] - y[i] - c[i - 1]) % BASE \in 0 .. BASE - 1
        /\ x[i] - y[i] - c[i - 1] = ((x[i] - y[i] - c[i - 1]) % BASE) - c[i] * BASE
    <3> DEFINE b == BASE
               p == x[i]
               q == y[i]
               e == c[i - 1]
               d == c[i]
    <3>1. b \in Nat /\ b >= 2 /\ p \in 0 .. b - 1 /\ q \in 0 .. b - 1 /\ e \in {0, 1}
      BY <2>2, <2>3
    <3>2. d = IF q > p \/ (q = p /\ e = 1) THEN 1 ELSE 0
      BY <2>2
    <3> HIDE DEF b, p, q, e, d
    <3>3. (p - q - e) % b \in 0 .. b - 1 /\ p - q - e = ((p - q - e) % b) - d * b
      BY <3>1, <3>2, DifferenceOfDigits
    <3> QED BY <3>3 DEF b, p, q, e, d
  <2> QED BY <2>4, <1>1
<1> HIDE DEF c, r
<1>3. r \in LongInts
  BY <1>1, <1>2 DEF LongInts
<1> QED BY <1>2, <1>3 DEF c, r

\* Up to each place the sum of the numbers is the sum and its carry.
LEMMA PlusValues ==
  ASSUME NEW x \in LongInts, NEW y \in LongInts
  PROVE  \A i \in 0 .. DIGITS :
            Values(x)[i] + Values(y)[i] = Values(Plus(x, y))[i] + Carries(x, y)[i] * W(i)
<1> DEFINE c == Carries(x, y)
           r == Plus(x, y)
           P == {i \in 0 .. DIGITS : Values(x)[i] + Values(y)[i] = Values(r)[i] + c[i] * W(i)}
<1>1. r \in LongInts /\ DIGITS \in Nat
  BY PlusIs, BaseIs
<1>2. 0 \in P
  <2>1. Values(x)[0] = 0 /\ Values(y)[0] = 0 /\ Values(r)[0] = 0 /\ c[0] = 0 /\ 0 \in 0 .. DIGITS
    BY <1>1, ValuesAre, CarriesAre
  <2>2. W(0) = 1
    BY WeightsAre
  <2> QED BY <2>1, <2>2
<1>3. ASSUME NEW i \in 0 .. DIGITS - 1, i \in P PROVE i + 1 \in P
  <2> DEFINE k == i + 1
             w == W(i)
             w1 == W(k)
             d == c[i]
             d1 == c[k]
  <2>1. k \in Places /\ k - 1 = i /\ i \in Nat /\ i \in 0 .. DIGITS /\ k \in 0 .. DIGITS
    BY <1>1 DEF Places
  <2>2. /\ Values(x)[k] = Values(x)[i] + x[k] * w /\ Values(x)[i] \in Nat
        /\ Values(y)[k] = Values(y)[i] + y[k] * w /\ Values(y)[i] \in Nat
        /\ Values(r)[k] = Values(r)[i] + r[k] * w /\ Values(r)[i] \in Nat
    BY <1>1, <2>1, ValuesAre
  <2>3. x[k] + y[k] + d = r[k] + d1 * BASE
    BY <2>1, PlusIs
  <2>4. w \in Nat /\ w1 = BASE * w
    BY <2>1, WeightsAre
  <2>5. x[k] \in Nat /\ y[k] \in Nat /\ r[k] \in Nat /\ d \in Nat /\ d1 \in Nat /\ BASE \in Nat
    <3>1. BASE \in Nat /\ x[k] \in 0 .. BASE - 1 /\ y[k] \in 0 .. BASE - 1 /\ r[k] \in 0 .. BASE - 1
      BY <1>1, <2>1, BaseIs DEF LongInts
    <3>2. d \in {0, 1} /\ d1 \in {0, 1}
      BY <2>1, CarriesAre
    <3> HIDE DEF k, c, d, d1, r
    <3> QED BY <3>1, <3>2
  <2>6. Values(x)[i] + Values(y)[i] = Values(r)[i] + d * w
    BY <1>3
  <2> HIDE DEF k, w, w1, c, d, d1, r
  <2>7. (x[k] + y[k] + d) * w = (r[k] + d1 * BASE) * w
    BY <2>3
  <2>8. (x[k] + y[k] + d) * w = x[k] * w + y[k] * w + d * w
    BY <2>4, <2>5
  <2>9. (r[k] + d1 * BASE) * w = r[k] * w + d1 * w1
    BY <2>4, <2>5
  <2>10. x[k] * w \in Nat /\ y[k] * w \in Nat /\ d * w \in Nat /\ r[k] * w \in Nat /\ d1 * w1 \in Nat
    BY <2>4, <2>5
  <2>11. Values(x)[k] + Values(y)[k] = Values(r)[k] + d1 * w1
    <3> DEFINE xw == x[k] * w
               yw == y[k] * w
               rw == r[k] * w
               dw == d * w
               ew == d1 * w1
    <3>1. xw \in Nat /\ yw \in Nat /\ rw \in Nat /\ dw \in Nat /\ ew \in Nat
      BY <2>10
    <3>2. xw + yw + dw = rw + ew
      BY <2>7, <2>8, <2>9
    <3>3. /\ Values(x)[k] = Values(x)[i] + xw /\ Values(y)[k] = Values(y)[i] + yw
          /\ Values(r)[k] = Values(r)[i] + rw
          /\ Values(x)[i] + Values(y)[i] = Values(r)[i] + dw
      BY <2>2, <2>6
    <3>4. Values(x)[i] \in Nat /\ Values(y)[i] \in Nat /\ Values(r)[i] \in Nat
      BY <2>2
    <3> HIDE DEF xw, yw, rw, dw, ew
    <3>5. Values(x)[k] + Values(y)[k] = Values(r)[k] + ew
      BY <3>1, <3>2, <3>3, <3>4
    <3> QED BY <3>5 DEF ew
  <2> QED BY <2>1, <2>11 DEF k, d1, w1
<1> HIDE DEF P
<1>4. \A i \in 0 .. DIGITS : i \in P
  BY <1>1, <1>2, <1>3, StepByStep
<1> QED BY <1>4 DEF P

LEMMA MinusValues ==
  ASSUME NEW x \in LongInts, NEW y \in LongInts
  PROVE  \A i \in 0 .. DIGITS :
            Values(x)[i] - Values(y)[i] = Values(Minus(x, y))[i] - Borrows(x, y)[i] * W(i)
<1> DEFINE c == Borrows(x, y)
           r == Minus(x, y)
           P == {i \in 0 .. DIGITS : Values(x)[i] - Values(y)[i] = Values(r)[i] - c[i] * W(i)}
<1>1. r \in LongInts /\ DIGITS \in Nat
  BY MinusIs, BaseIs
<1>2. 0 \in P
  <2>1. Values(x)[0] = 0 /\ Values(y)[0] = 0 /\ Values(r)[0] = 0 /\ c[0] = 0 /\ 0 \in 0 .. DIGITS
    BY <1>1, ValuesAre, BorrowsAre
  <2>2. W(0) = 1
    BY WeightsAre
  <2> QED BY <2>1, <2>2
<1>3. ASSUME NEW i \in 0 .. DIGITS - 1, i \in P PROVE i + 1 \in P
  <2> DEFINE k == i + 1
             w == W(i)
             w1 == W(k)
             d == c[i]
             d1 == c[k]
  <2>1. k \in Places /\ k - 1 = i /\ i \in Nat /\ i \in 0 .. DIGITS /\ k \in 0 .. DIGITS
    BY <1>1 DEF Places
  <2>2. /\ Values(x)[k] = Values(x)[i] + x[k] * w /\ Values(x)[i] \in Nat
        /\ Values(y)[k] = Values(y)[i] + y[k] * w /\ Values(y)[i] \in Nat
        /\ Values(r)[k] = Values(r)[i] + r[k] * w /\ Values(r)[i] \in Nat
    BY <1>1, <2>1, ValuesAre
  <2>3. x[k] - y[k] - d = r[k] - d1 * BASE
    BY <2>1, MinusIs
  <2>4. w \in Nat /\ w1 = BASE * w
    BY <2>1, WeightsAre
  <2>5. x[k] \in Nat /\ y[k] \in Nat /\ r[k] \in Nat /\ d \in Nat /\ d1 \in Nat /\ BASE \in Nat
    <3>1. BASE \in Nat /\ x[k] \in 0 .. BASE - 1 /\ y[k] \in 0 .. BASE - 1 /\ r[k] \in 0 .. BASE - 1
      BY <1>1, <2>1, BaseIs DEF LongInts
    <3>2. d \in {0, 1} /\ d1 \in {0, 1}
      BY <2>1, BorrowsAre
    <3> HIDE DEF k, c, d, d1, r
    <3> QED BY <3>1, <3>2
  <2>6. Values(x)[i] - Values(y)[i] = Values(r)[i] - d * w
    BY <1>3
  <2> HIDE DEF k, w, w1, c, d, d1, r
  <2>7. (x[k] - y[k] - d) * w = (r[k] - d1 * BASE) * w
    BY <2>3
  <2>8. (x[k] - y[k] - d) * w = x[k] * w - y[k] * w - d * w
    BY <2>4, <2>5
  <2>9. (r[k] - d1 * BASE) * w = r[k] * w - d1 * w1
    BY <2>4, <2>5
  <2>10. x[k] * w \in Nat /\ y[k] * w \in Nat /\ d * w \in Nat /\ r[k] * w \in Nat /\ d1 * w1 \in Nat
    BY <2>4, <2>5
  <2>11. Values(x)[k] - Values(y)[k] = Values(r)[k] - d1 * w1
    <3> DEFINE xw == x[k] * w
               yw == y[k] * w
               rw == r[k] * w
               dw == d * w
               ew == d1 * w1
    <3>1. xw \in Nat /\ yw \in Nat /\ rw \in Nat /\ dw \in Nat /\ ew \in Nat
      BY <2>10
    <3>2. xw - yw - dw = rw - ew
      BY <2>7, <2>8, <2>9
    <3>3. /\ Values(x)[k] = Values(x)[i] + xw /\ Values(y)[k] = Values(y)[i] + yw
          /\ Values(r)[k] = Values(r)[i] + rw
          /\ Values(x)[i] - Values(y)[i] = Values(r)[i] - dw
      BY <2>2, <2>6
    <3>4. Values(x)[i] \in Nat /\ Values(y)[i] \in Nat /\ Values(r)[i] \in Nat
      BY <2>2
    <3> HIDE DEF xw, yw, rw, dw, ew
    <3>5. Values(x)[k] - Values(y)[k] = Values(r)[k] - ew
      BY <3>1, <3>2, <3>3, <3>4
    <3> QED BY <3>5 DEF ew
  <2> QED BY <2>1, <2>11 DEF k, d1, w1
<1> HIDE DEF P
<1>4. \A i \in 0 .. DIGITS : i \in P
  BY <1>1, <1>2, <1>3, StepByStep
<1> QED BY <1>4 DEF P

\* The complement is what is missing to the largest number.
LEMMA ComplementIs ==
  ASSUME NEW x \in LongInts
  PROVE  /\ Complement(x) \in LongInts
         /\ \A i \in 0 .. DIGITS : Values(Complement(x))[i] = W(i) - 1 - Values(x)[i]
<1> DEFINE r == Complement(x)
           P == {i \in 0 .. DIGITS : Values(r)[i] = W(i) - 1 - Values(x)[i]}
<1>1. r \in LongInts /\ DIGITS \in Nat /\ \A i \in Places : r[i] = BASE - 1 - x[i]
  BY BaseIs DEF Complement, LongInts
<1>2. 0 \in P
  <2>1. Values(x)[0] = 0 /\ Values(r)[0] = 0 /\ 0 \in 0 .. DIGITS
    BY <1>1, ValuesAre
  <2>2. W(0) = 1
    BY WeightsAre
  <2> QED BY <2>1, <2>2
<1>3. ASSUME NEW i \in 0 .. DIGITS - 1, i \in P PROVE i + 1 \in P
  <2> DEFINE k == i + 1
             w == W(i)
             w1 == W(k)
  <2>1. k \in Places /\ k - 1 = i /\ i \in Nat /\ i \in 0 .. DIGITS /\ k \in 0 .. DIGITS
    BY <1>1 DEF Places
  <2>2. /\ Values(x)[k] = Values(x)[i] + x[k] * w /\ Values(x)[i] \in Nat
        /\ Values(r)[k] = Values(r)[i] + r[k] * w /\ Values(r)[i] \in Nat
    BY <1>1, <2>1, ValuesAre
  <2>3. r[k] = BASE - 1 - x[k]
    BY <2>1, <1>1
  <2>4. w \in Nat /\ w1 = BASE * w
    BY <2>1, WeightsAre
  <2>5. x[k] \in Nat /\ BASE \in Nat
    BY <1>1, <2>1, BaseIs DEF LongInts
  <2>6. Values(r)[i] = w - 1 - Values(x)[i]
    BY <1>3
  <2> HIDE DEF k, w, w1, r
  <2>7. r[k] * w = w1 - w - x[k] * w /\ x[k] * w \in Nat /\ w1 \in Nat
    BY <2>3, <2>4, <2>5
  <2>8. Values(r)[k] = w1 - 1 - Values(x)[k]
    BY <2>2, <2>4, <2>6, <2>7
  <2> QED BY <2>1, <2>8 DEF k, w1
<1> HIDE DEF P
<1>4. \A i \in 0 .. DIGITS : i \in P
  BY <1>1, <1>2, <1>3, StepByStep
<1> QED BY <1>1, <1>4 DEF P

LEMMA SmallNumbers ==
  /\ ZERO \in LongInts /\ ONE \in LongInts
  /\ \A i \in 0 .. DIGITS : Values(ZERO)[i] = 0 /\ (i > 0 => Values(ONE)[i] = 1)
<1> DEFINE P == {i \in 0 .. DIGITS : Values(ZERO)[i] = 0 /\ (i > 0 => Values(ONE)[i] = 1)}
<1>1. ZERO \in LongInts /\ ONE \in LongInts /\ DIGITS \in Nat
  BY BaseIs DEF ZERO, ONE, LongInts
<1>2. 0 \in P
  BY <1>1, ValuesAre
<1>3. ASSUME NEW i \in 0 .. DIGITS - 1, i \in P PROVE i + 1 \in P
  <2> DEFINE k == i + 1
             w == W(i)
  <2>1. k \in Places /\ k - 1 = i /\ i \in Nat /\ i \in 0 .. DIGITS /\ k \in 0 .. DIGITS
    BY <1>1 DEF Places
  <2>2. /\ Values(ZERO)[k] = Values(ZERO)[i] + ZERO[k] * w
        /\ Values(ONE)[k] = Values(ONE)[i] + ONE[k] * w /\ Values(ONE)[0] = 0
    BY <1>1, <2>1, ValuesAre
  <2>3. ZERO[k] = 0 /\ ONE[k] = IF i = 0 THEN 1 ELSE 0
    BY <2>1 DEF ZERO, ONE
  <2>4. w \in Nat /\ (i = 0 => w = 1)
    BY <2>1, WeightsAre
  <2> HIDE DEF w
  <2>5. Values(ZERO)[k] = 0
    BY <1>3, <2>2, <2>3, <2>4
  <2>6. Values(ONE)[k] = 1
    <3>1. CASE i = 0
      BY <3>1, <2>2, <2>3, <2>4
    <3>2. CASE i # 0
      BY <3>2, <1>3, <2>2, <2>3, <2>4, <2>1
    <3> QED BY <3>1, <3>2
  <2> QED BY <2>1, <2>5, <2>6
<1> HIDE DEF P
<1>4. \A i \in 0 .. DIGITS : i \in P
  BY <1>1, <1>2, <1>3, StepByStep
<1> QED BY <1>1, <1>4 DEF P

\* The sums, differences and complements of whole numbers.
LEMMA PlusUnsigned ==
  ASSUME NEW x \in LongInts, NEW y \in LongInts
  PROVE  \E c \in {0, 1} : Unsigned(x) + Unsigned(y) = Unsigned(Plus(x, y)) + c * MODULUS
<1>1. DIGITS \in 0 .. DIGITS /\ MODULUS = W(DIGITS)
  BY BaseIs
<1>2. Carries(x, y)[DIGITS] \in {0, 1}
  BY <1>1, CarriesAre
<1> QED BY <1>1, <1>2, PlusValues DEF Unsigned

LEMMA MinusUnsigned ==
  ASSUME NEW x \in LongInts, NEW y \in LongInts
  PROVE  \E c \in {0, 1} : Unsigned(x) - Unsigned(y) = Unsigned(Minus(x, y)) - c * MODULUS
<1>1. DIGITS \in 0 .. DIGITS /\ MODULUS = W(DIGITS)
  BY BaseIs
<1>2. Borrows(x, y)[DIGITS] \in {0, 1}
  BY <1>1, BorrowsAre
<1> QED BY <1>1, <1>2, MinusValues DEF Unsigned

LEMMA ComplementUnsigned ==
  ASSUME NEW x \in LongInts
  PROVE  Complement(x) \in LongInts /\ Unsigned(Complement(x)) = MODULUS - 1 - Unsigned(x)
<1>1. DIGITS \in 0 .. DIGITS /\ MODULUS = W(DIGITS)
  BY BaseIs
<1> QED BY <1>1, ComplementIs DEF Unsigned

LEMMA SmallUnsigned == Unsigned(ZERO) = 0 /\ Unsigned(ONE) = 1
<1>1. DIGITS \in 0 .. DIGITS /\ DIGITS > 0
  BY BaseIs
<1> QED BY <1>1, SmallNumbers DEF Unsigned

LEMMA NegateUnsigned ==
  ASSUME NEW x \in LongInts
  PROVE  /\ Negate(x) \in LongInts
         /\ \E c \in {0, 1} : Unsigned(Negate(x)) = c * MODULUS - Unsigned(x)
<1> DEFINE n == Complement(x)
<1>1. n \in LongInts /\ ONE \in LongInts /\ Unsigned(n) = MODULUS - 1 - Unsigned(x) /\ Unsigned(ONE) = 1
  BY ComplementUnsigned, SmallNumbers, SmallUnsigned
<1> HIDE DEF n
<1>2. PICK c \in {0, 1} : Unsigned(n) + Unsigned(ONE) = Unsigned(Plus(n, ONE)) + c * MODULUS
  BY <1>1, PlusUnsigned
<1>3. Negate(x) = Plus(n, ONE)
  BY DEF Negate, n
<1>4. Plus(n, ONE) \in LongInts
  BY <1>1, PlusIs
<1>5. Unsigned(x) \in Nat /\ Unsigned(Plus(n, ONE)) \in Nat /\ MODULUS \in Nat
  BY <1>4, UnsignedIs
<1>6. (1 - c) \in {0, 1} /\ Unsigned(Plus(n, ONE)) = (1 - c) * MODULUS - Unsigned(x)
  <2>1. CASE c = 0
    BY <2>1, <1>1, <1>2, <1>5
  <2>2. CASE c = 1
    BY <2>2, <1>1, <1>2, <1>5
  <2> QED BY <2>1, <2>2
<1> QED BY <1>3, <1>4, <1>6

----------------------------------------------------------------------------
(* Order, and the bits of a number *)

\* A digit decides when all above it are the same.
LEMMA HighestDecides ==
  ASSUME NEW x \in LongInts, NEW y \in LongInts, NEW i \in Places, x[i] < y[i],
         \A j \in i + 1 .. DIGITS : x[j] = y[j]
  PROVE  Unsigned(x) < Unsigned(y)
<1> DEFINE P == {j \in i .. DIGITS : Values(x)[j] < Values(y)[j]}
<1>1. i \in Nat /\ DIGITS \in Nat /\ i <= DIGITS /\ i >= 1
  BY BaseIs DEF Places
<1>2. i \in P
  <2> DEFINE w == W(i - 1)
             u == Values(x)[i - 1]
             v == Values(y)[i - 1]
             a == x[i]
             b == y[i]
  <2>1. i - 1 \in 0 .. DIGITS /\ i - 1 \in Nat
    BY <1>1
  <2>2. Values(x)[i] = u + a * w /\ Values(y)[i] = v + b * w /\ u \in Nat /\ v \in Nat /\ u < w
    BY <2>1, ValuesAre
  <2>3. w \in Nat
    BY <2>1, WeightsAre
  <2>4. a \in Nat /\ b \in Nat /\ a < b
    BY BaseIs DEF LongInts
  <2> HIDE DEF u, v, w, a, b
  <2>5. PICK k \in Nat : b = a + 1 + k
    <3>1. b - a - 1 \in Nat
      BY <2>4
    <3> QED BY <3>1, <2>4
  <2>6. b * w = a * w + w + k * w /\ k * w \in Nat /\ a * w \in Nat
    BY <2>3, <2>4, <2>5
  <2>7. u + a * w < v + b * w
    BY <2>2, <2>3, <2>6
  <2> QED BY <2>2, <2>7, <1>1
<1>3. ASSUME NEW j \in i .. DIGITS - 1, j \in P PROVE j + 1 \in P
  <2> DEFINE k == j + 1
             w == W(j)
  <2>1. k \in Places /\ k - 1 = j /\ j \in Nat /\ j \in 0 .. DIGITS /\ k \in i .. DIGITS
        /\ k \in i + 1 .. DIGITS
    BY <1>1 DEF Places
  <2>2. /\ Values(x)[k] = Values(x)[j] + x[k] * w /\ Values(x)[j] \in Nat
        /\ Values(y)[k] = Values(y)[j] + y[k] * w /\ Values(y)[j] \in Nat
    BY <2>1, ValuesAre
  <2>3. x[k] = y[k] /\ x[k] \in Nat /\ w \in Nat
    BY <2>1, BaseIs, WeightsAre DEF LongInts
  <2>4. x[k] * w \in Nat /\ x[k] * w = y[k] * w
    <3> HIDE DEF w
    <3> QED BY <2>3
  <2>5. Values(x)[j] < Values(y)[j]
    BY <1>3
  <2>6. Values(x)[k] < Values(y)[k]
    <3> DEFINE d == x[k] * w
    <3>1. d \in Nat /\ Values(x)[k] = Values(x)[j] + d /\ Values(y)[k] = Values(y)[j] + d
      BY <2>2, <2>4
    <3> HIDE DEF d
    <3> QED BY <3>1, <2>2, <2>5
  <2> QED BY <2>1, <2>6
<1> HIDE DEF P
<1>4. \A j \in i .. DIGITS : j \in P
  BY <1>1, <1>2, <1>3, StepByStep
<1>5. DIGITS \in P
  BY <1>1, <1>4
<1> QED BY <1>5 DEF P, Unsigned

\* Different numbers have a highest place where they differ.
LEMMA HighestDifference ==
  ASSUME NEW x \in LongInts, NEW y \in LongInts, x # y
  PROVE  \E i \in Places : x[i] # y[i] /\ \A j \in i + 1 .. DIGITS : x[j] = y[j]
<1> DEFINE D == {i \in Places : x[i] # y[i]}
<1>1. D # {} /\ D \in SUBSET (0 .. DIGITS) /\ DIGITS \in Nat
  BY BaseIs DEF LongInts, Places
<1>2. \A i \in D : i \in Places /\ x[i] # y[i]
  OBVIOUS
<1>3. \A j \in Places : j \notin D => x[j] = y[j]
  OBVIOUS
<1> HIDE DEF D
<1>4. Max(D) \in D /\ \A j \in D : j <= Max(D)
  BY <1>1, MaxIsGreatest
<1>5. Max(D) \in Places /\ x[Max(D)] # y[Max(D)]
  BY <1>2, <1>4
<1>6. \A j \in Max(D) + 1 .. DIGITS : j \in Places /\ j \notin D
  BY <1>4, <1>5, <1>1 DEF Places
<1> QED BY <1>3, <1>5, <1>6

LEMMA OrderIs ==
  ASSUME NEW x \in LongInts, NEW y \in LongInts
  PROVE  /\ Unsigned(x) < Unsigned(y) <=>
              \E i \in Places : x[i] < y[i] /\ \A j \in i + 1 .. DIGITS : x[j] = y[j]
         /\ Unsigned(x) = Unsigned(y) <=> x = y
<1>1. Unsigned(x) \in Nat /\ Unsigned(y) \in Nat
  BY UnsignedIs
<1>2. ASSUME NEW i \in Places, x[i] < y[i], \A j \in i + 1 .. DIGITS : x[j] = y[j]
      PROVE  Unsigned(x) < Unsigned(y)
  BY <1>2, HighestDecides
<1>3. ASSUME x # y
      PROVE  \/ \E i \in Places : x[i] < y[i] /\ \A j \in i + 1 .. DIGITS : x[j] = y[j]
             \/ Unsigned(y) < Unsigned(x)
  <2>1. PICK i \in Places : x[i] # y[i] /\ \A j \in i + 1 .. DIGITS : x[j] = y[j]
    BY <1>3, HighestDifference
  <2>2. x[i] \in Nat /\ y[i] \in Nat
    BY BaseIs DEF LongInts
  <2>3. CASE x[i] < y[i]
    BY <2>1, <2>3
  <2>4. CASE y[i] < x[i]
    <3>1. \A j \in i + 1 .. DIGITS : y[j] = x[j]
      BY <2>1
    <3> QED BY <2>4, <3>1, HighestDecides
  <2> QED BY <2>1, <2>2, <2>3, <2>4
<1>4. Unsigned(x) = Unsigned(y) => x = y
  BY <1>1, <1>2, <1>3
<1>5. ASSUME Unsigned(x) < Unsigned(y)
      PROVE  \E i \in Places : x[i] < y[i] /\ \A j \in i + 1 .. DIGITS : x[j] = y[j]
  <2>1. x # y /\ ~ (Unsigned(y) < Unsigned(x))
    BY <1>1, <1>5
  <2> QED BY <2>1, <1>3
<1> QED BY <1>2, <1>4, <1>5

\* What is above a place is a multiple of its weight.
LEMMA AboveIs ==
  ASSUME NEW x \in LongInts, NEW i \in 0 .. DIGITS
  PROVE  \E q \in Nat : Unsigned(x) = Values(x)[i] + q * W(i)
<1> DEFINE P == {j \in i .. DIGITS : \E q \in Nat : Values(x)[j] = Values(x)[i] + q * W(i)}
<1>1. i \in Nat /\ DIGITS \in Nat /\ i <= DIGITS /\ W(i) \in Nat
  BY BaseIs, WeightsAre
<1>2. i \in P
  <2>1. Values(x)[i] \in Nat /\ i \in i .. DIGITS
    BY ValuesAre, <1>1
  <2>2. Values(x)[i] = Values(x)[i] + 0 * W(i)
    <3> DEFINE w == W(i)
    <3>1. w \in Nat
      BY <1>1
    <3> HIDE DEF w
    <3>2. 0 * w = 0
      BY <3>1
    <3> QED BY <2>1, <3>2 DEF w
  <2> QED BY <2>1, <2>2
<1>3. ASSUME NEW j \in i .. DIGITS - 1, j \in P PROVE j + 1 \in P
  <2> DEFINE k == j + 1
             w == W(i)
             z == 2 ^ (BITS * (j - i))
  <2>1. k \in Places /\ k - 1 = j /\ j \in Nat /\ j \in 0 .. DIGITS /\ k \in i .. DIGITS /\ j - i \in Nat
    BY <1>1 DEF Places
  <2>2. Values(x)[k] = Values(x)[j] + x[k] * W(j) /\ Values(x)[j] \in Nat
    BY <2>1, ValuesAre
  <2>3. x[k] \in Nat
    BY <2>1, BaseIs DEF LongInts
  <2>4. W(j) = w * z /\ w \in Nat /\ z \in Nat
    <3>1. BITS \in Nat /\ BITS * i \in Nat /\ BITS * (j - i) \in Nat /\ BITS * j = BITS * i + BITS * (j - i)
      BY BaseIs, <1>1, <2>1
    <3>2. 2 ^ (BITS * i + BITS * (j - i)) = 2 ^ (BITS * i) * 2 ^ (BITS * (j - i))
      BY <3>1, PowerSum
    <3>3. 2 ^ (BITS * (j - i)) \in Nat
      BY <3>1, PowerStep
    <3> QED BY <3>1, <3>2, <3>3, <1>1 DEF W
  <2>5. PICK q \in Nat : Values(x)[j] = Values(x)[i] + q * w
    BY <1>3
  <2>6. Values(x)[i] \in Nat
    BY ValuesAre
  <2> HIDE DEF w, z, k
  <2>7. x[k] * (w * z) = (x[k] * z) * w /\ x[k] * z \in Nat
    BY <2>3, <2>4
  <2> DEFINE e == x[k] * z
  <2>8. (q + e) * w = q * w + e * w /\ q + e \in Nat /\ e * w \in Nat /\ q * w \in Nat
    <3>1. e \in Nat
      BY <2>7
    <3> HIDE DEF e
    <3> QED BY <3>1, <2>4
  <2>9. Values(x)[k] = Values(x)[i] + (q + e) * w
    <3>1. Values(x)[k] = Values(x)[j] + e * w
      BY <2>2, <2>4, <2>7
    <3> HIDE DEF e
    <3> QED BY <3>1, <2>5, <2>6, <2>8
  <2> QED BY <2>1, <2>8, <2>9 DEF w, k
<1> HIDE DEF P
<1>4. \A j \in i .. DIGITS : j \in P
  BY <1>1, <1>2, <1>3, StepByStep
<1>5. DIGITS \in P
  BY <1>1, <1>4
<1> QED BY <1>5 DEF P, Unsigned

\* A bit of a number, and the number made of p in its lower n bits and q above.
Bit(z, n) == (z \div 2 ^ n) % 2
Splice(p, q, n) == p + q * 2 ^ n

LEMMA BitLow ==
  ASSUME NEW p \in Nat, NEW q \in Nat, NEW n \in Nat, NEW m \in Nat, m < n
  PROVE  Bit(Splice(p, q, n), m) = Bit(p, m)
<1> DEFINE d == 2 ^ m
           e == 2 ^ (n - m - 1)
           a == p \div d
           r == p % d
           b == a \div 2
           s == a % 2
<1>1. n - m - 1 \in Nat /\ (n - m - 1) + 1 = n - m /\ m + (n - m) = n /\ n - m \in Nat
  OBVIOUS
<1>2. d \in Nat \ {0} /\ e \in Nat \ {0} /\ 2 ^ n = d * (2 * e)
  <2>1. 2 ^ (m + (n - m)) = 2 ^ m * 2 ^ (n - m)
    BY <1>1, PowerSum
  <2>2. 2 ^ ((n - m - 1) + 1) = 2 * 2 ^ (n - m - 1)
    BY <1>1, PowerStep
  <2>3. 2 ^ m \in Nat \ {0} /\ 2 ^ (n - m - 1) \in Nat \ {0}
    BY <1>1, PowerStep
  <2> QED BY <1>1, <2>1, <2>2, <2>3
<1>3. a \in Nat /\ r \in 0 .. d - 1 /\ p = a * d + r
  <2> HIDE DEF d
  <2> QED BY <1>2, DivisionIs
<1>4. b \in Nat /\ s \in 0 .. 2 - 1 /\ a = b * 2 + s
  <2> HIDE DEF a
  <2> QED BY <1>3, DivisionIs
<1> DEFINE t == 2 ^ n
           c == a + q * (2 * e)
<1>5. q * t = (q * (2 * e)) * d /\ q * (2 * e) \in Nat
  <2>1. t = d * (2 * e)
    BY <1>2
  <2> HIDE DEF t, d, e
  <2> QED BY <2>1, <1>2
<1>6. p + q * t = c * d + r /\ c \in Nat
  <2> DEFINE f == q * (2 * e)
  <2>1. f \in Nat /\ q * t = f * d
    BY <1>5
  <2> HIDE DEF f, a, d, r, t
  <2>2. (a + f) * d = a * d + f * d
    BY <1>2, <1>3, <2>1
  <2>3. c = a + f
    BY DEF c, f
  <2> QED BY <2>1, <2>2, <2>3, <1>2, <1>3
<1>7. (p + q * t) \div d = c
  <2> HIDE DEF c, d, r, t
  <2>1. p + q * t \in Nat
    BY <1>6, <1>2, <1>3
  <2> QED BY <1>6, <1>2, <1>3, <2>1, DivisionUnique
<1>8. c = (b + q * e) * 2 + s /\ b + q * e \in Nat
  <2> HIDE DEF e, b, s, a
  <2>1. q * (2 * e) = 2 * (q * e) /\ q * e \in Nat
    BY <1>2
  <2> QED BY <2>1, <1>4
<1>9. c % 2 = s
  <2> DEFINE g == b + q * e
  <2>1. g \in Nat /\ c = g * 2 + s /\ c \in Nat /\ s \in 0 .. 2 - 1
    BY <1>8, <1>6, <1>4
  <2> HIDE DEF g, c, s
  <2> QED BY <2>1, DivisionUnique
<1> QED BY <1>7, <1>9 DEF Bit, Splice

LEMMA BitHigh ==
  ASSUME NEW p \in Nat, NEW q \in Nat, NEW n \in Nat, p < 2 ^ n, NEW k \in Nat, k >= n
  PROVE  /\ Splice(p, q, n) \div 2 ^ k = q \div 2 ^ (k - n)
         /\ Bit(Splice(p, q, n), k) = Bit(q, k - n)
<1> DEFINE m == k - n
<1>0. m \in Nat /\ n + m = k
  OBVIOUS
<1> HIDE DEF m
<1> DEFINE d == 2 ^ n
           c == 2 ^ m
           z == p + q * d
<1>1. d \in Nat \ {0} /\ c \in Nat \ {0} /\ 2 ^ (n + m) = d * c
  BY <1>0, PowerStep, PowerSum
<1>2. z \in Nat /\ z = q * d + p /\ p \in 0 .. d - 1
  <2>1. p \in 0 .. d - 1
    OBVIOUS
  <2> HIDE DEF d
  <2> QED BY <2>1, <1>1
<1> HIDE DEF d, c, z
<1>3. z \div d = q
  BY <1>1, <1>2, DivisionUnique
<1>4. z \div (c * d) = (z \div d) \div c
  BY <1>1, <1>2, DivideTwice
<1>5. c * d = d * c
  BY <1>1
<1>6. (p + q * 2 ^ n) \div 2 ^ k = q \div 2 ^ m
  BY <1>0, <1>1, <1>3, <1>4, <1>5 DEF d, c, z
<1> QED BY <1>6 DEF Bit, Splice, m

LEMMA BitsAbove ==
  ASSUME NEW n \in Nat, NEW p \in Nat, p < 2 ^ n, NEW m \in Nat, m >= n
  PROVE  p \div 2 ^ m = 0 /\ Bit(p, m) = 0
<1> DEFINE d == 2 ^ m
<1>1. d \in Nat \ {0} /\ 2 ^ n \in Nat /\ 2 ^ n <= d
  <2>1. m - n \in Nat /\ n + (m - n) = m
    OBVIOUS
  <2>2. 2 ^ (n + (m - n)) = 2 ^ n * 2 ^ (m - n)
    BY <2>1, PowerSum
  <2>3. 2 ^ n \in Nat \ {0} /\ 2 ^ (m - n) \in Nat \ {0} /\ 2 ^ m \in Nat \ {0}
    BY <2>1, PowerStep
  <2> DEFINE a == 2 ^ n
             b == 2 ^ (m - n)
  <2>4. a \in Nat /\ b \in Nat \ {0} /\ d = a * b
    BY <2>1, <2>2, <2>3
  <2> HIDE DEF a, b, d
  <2>5. a <= a * b
    <3>1. PICK k \in Nat : b = 1 + k
      <4>1. b - 1 \in Nat
        BY <2>4
      <4> QED BY <4>1, <2>4
    <3>2. a * b = a + a * k /\ a * k \in Nat
      BY <3>1, <2>4
    <3> QED BY <3>2, <2>4
  <2> QED BY <2>3, <2>4, <2>5 DEF a, d
<1>2. p \in 0 .. d - 1 /\ p \in Nat
  BY <1>1
<1> HIDE DEF d
<1>3. p = 0 * d + p
  BY <1>1, <1>2
<1>4. p \div d = 0
  BY <1>1, <1>2, <1>3, DivisionUnique
<1>5. 0 % 2 = 0
  OBVIOUS
<1> QED BY <1>4, <1>5 DEF d, Bit

\* The bits of a digit.
LEMMA OnesAre ==
  ASSUME NEW z \in Nat
  PROVE  /\ Ones(z) \in SUBSET (0 .. BITS - 1)
         /\ \A n \in 0 .. BITS - 1 : n \in Ones(z) <=> Bit(z, n) = 1
BY DEF Ones, Bit

LEMMA FromOnesIs ==
  ASSUME NEW bits
  PROVE  \E v \in [0 .. BITS -> Int] :
            /\ v[0] = 0 /\ FromOnes(bits) = v[BITS]
            /\ \A n \in 0 .. BITS - 1 : v[n + 1] = v[n] + (IF n \in bits THEN 1 ELSE 0) * 2 ^ n
<1> DEFINE f == [n \in 1 .. BITS |-> IF n - 1 \in bits THEN 2 ^ (n - 1) ELSE 0]
           v == Running(BITS, f)
<1>1. BITS \in Nat
  BY BaseIs
<1>2. \A n \in 1 .. BITS : 2 ^ (n - 1) \in Nat
  <2> TAKE n \in 1 .. BITS
  <2>1. n - 1 \in Nat
    OBVIOUS
  <2> QED BY <2>1, PowerStep
<1>3. f \in [1 .. BITS -> Int]
  BY <1>2
<1>4. v \in [0 .. BITS -> Int] /\ v[0] = 0 /\ \A n \in 1 .. BITS : v[n] = v[n - 1] + f[n]
  <2> HIDE DEF f
  <2> QED BY <1>1, <1>3, RunningIs
<1>5. \A n \in 0 .. BITS - 1 : v[n + 1] = v[n] + (IF n \in bits THEN 1 ELSE 0) * 2 ^ n
  <2> TAKE n \in 0 .. BITS - 1
  <2>1. n + 1 \in 1 .. BITS /\ (n + 1) - 1 = n /\ n \in Nat
    BY <1>1
  <2>2. v[n + 1] = v[n] + f[n + 1]
    <3> HIDE DEF v, f
    <3> QED BY <1>4, <2>1
  <2>3. f[n + 1] = IF n \in bits THEN 2 ^ n ELSE 0
    BY <2>1
  <2>4. 2 ^ n \in Nat
    BY <2>1, PowerStep
  <2> HIDE DEF v, f
  <2> QED BY <2>2, <2>3, <2>4
<1>6. FromOnes(bits) = v[BITS]
  BY DEF FromOnes
<1> HIDE DEF v
<1> QED BY <1>4, <1>5, <1>6

LEMMA OnesBack ==
  ASSUME NEW z \in 0 .. BASE - 1
  PROVE  FromOnes(Ones(z)) = z
<1>1. PICK v \in [0 .. BITS -> Int] :
            /\ v[0] = 0 /\ FromOnes(Ones(z)) = v[BITS]
            /\ \A n \in 0 .. BITS - 1 : v[n + 1] = v[n] + (IF n \in Ones(z) THEN 1 ELSE 0) * 2 ^ n
  BY FromOnesIs
<1>2. BITS \in Nat /\ z \in Nat /\ BASE \in Nat
  BY BaseIs
<1> DEFINE P == {n \in 0 .. BITS : v[n] = z % 2 ^ n}
<1>3. 0 \in P
  <2>1. 2 ^ 0 = 1
    BY PowerStep
  <2>2. z % 1 = 0
    BY <1>2
  <2> QED BY <1>1, <1>2, <2>1, <2>2
<1>4. ASSUME NEW n \in 0 .. BITS - 1, n \in P PROVE n + 1 \in P
  <2> DEFINE d == 2 ^ n
             b == (z \div d) % 2
  <2>1. n \in Nat /\ n + 1 \in 0 .. BITS
    BY <1>2
  <2>2. d \in Nat \ {0} /\ 2 ^ (n + 1) = 2 * d
    BY <2>1, PowerStep
  <2>3. v[n + 1] = v[n] + (IF n \in Ones(z) THEN 1 ELSE 0) * d /\ v[n] = z % d
    BY <1>1, <1>4
  <2>4. n \in Ones(z) <=> b = 1
    BY <1>2, OnesAre DEF Bit
  <2> HIDE DEF d
  <2>5. z \div d \in Nat
    BY <1>2, <2>2, DivisionIs
  <2>6. b \in 0 .. 2 - 1
    BY <2>5
  <2>7. (z % (2 * d)) = (b * d) + (z % d)
    <3> DEFINE c == 2
    <3>1. c \in Nat \ {0}
      OBVIOUS
    <3>2. b = (z \div d) % c
      OBVIOUS
    <3> HIDE DEF b, c
    <3>3. (z % (c * d)) = (((z \div d) % c) * d) + (z % d)
      BY <1>2, <2>2, <3>1, DivideTwice
    <3> QED BY <3>2, <3>3 DEF c
  <2>8. z % d \in Nat
    BY <1>2, <2>2, ModIs
  <2> HIDE DEF b
  <2>9. v[n + 1] = z % (2 * d)
    <3>1. CASE b = 1
      BY <3>1, <2>2, <2>3, <2>4, <2>7, <2>8
    <3>2. CASE b = 0
      BY <3>2, <2>2, <2>3, <2>4, <2>7, <2>8
    <3> QED BY <3>1, <3>2, <2>6
  <2> QED BY <2>1, <2>2, <2>9
<1> HIDE DEF P
<1>5. \A n \in 0 .. BITS : n \in P
  BY <1>2, <1>3, <1>4, StepByStep
<1>6. v[BITS] = z % BASE
  BY <1>2, <1>5 DEF P, BASE
<1>7. z % BASE = z
  BY <1>2, BaseIs, ModOnce
<1> QED BY <1>1, <1>6, <1>7

LEMMA OnesOfBits ==
  ASSUME NEW bits \in SUBSET (0 .. BITS - 1)
  PROVE  FromOnes(bits) \in 0 .. BASE - 1 /\ Ones(FromOnes(bits)) = bits
<1>1. PICK v \in [0 .. BITS -> Int] :
            /\ v[0] = 0 /\ FromOnes(bits) = v[BITS]
            /\ \A n \in 0 .. BITS - 1 : v[n + 1] = v[n] + (IF n \in bits THEN 1 ELSE 0) * 2 ^ n
  BY FromOnesIs
<1>2. BITS \in Nat /\ BASE \in Nat
  BY BaseIs
<1> DEFINE Right(n) == /\ v[n] \in 0 .. 2 ^ n - 1
                       /\ \A m \in 0 .. n - 1 : Bit(v[n], m) = 1 <=> m \in bits
           P == {n \in 0 .. BITS : Right(n)}
<1>3. 0 \in P
  <2>1. 2 ^ 0 = 1
    BY PowerStep
  <2> QED BY <1>1, <1>2, <2>1
<1>4. ASSUME NEW n \in 0 .. BITS - 1, n \in P PROVE n + 1 \in P
  <2> DEFINE e == IF n \in bits THEN 1 ELSE 0
             d == 2 ^ n
  <2>1. n \in Nat /\ n + 1 \in 0 .. BITS /\ e \in {0, 1}
    BY <1>2
  <2>2. d \in Nat \ {0} /\ 2 ^ (n + 1) = 2 * d
    BY <2>1, PowerStep
  <2>3. v[n + 1] = v[n] + e * d
    BY <1>1
  <2>4. v[n] \in 0 .. d - 1
    BY <1>4
  <2>5. v[n + 1] \in 0 .. 2 ^ (n + 1) - 1
    <3> HIDE DEF d, e
    <3>1. CASE e = 0
      BY <3>1, <2>1, <2>2, <2>3, <2>4
    <3>2. CASE e = 1
      BY <3>2, <2>1, <2>2, <2>3, <2>4
    <3> QED BY <2>1, <3>1, <3>2
  <2>6. ASSUME NEW m \in 0 .. (n + 1) - 1
        PROVE  Bit(v[n + 1], m) = 1 <=> m \in bits
    <3>1. CASE m < n
      <4>1. m \in Nat /\ m \in 0 .. n - 1 /\ e \in Nat /\ v[n] \in Nat
        BY <2>1, <3>1, <2>4, <2>2
      <4> HIDE DEF e
      <4>2. Bit(Splice(v[n], e, n), m) = Bit(v[n], m)
        BY <4>1, <2>1, <3>1, BitLow
      <4>3. Bit(v[n], m) = 1 <=> m \in bits
        BY <1>4, <4>1
      <4>4. Splice(v[n], e, n) = v[n + 1]
        BY <2>3 DEF Splice
      <4> QED BY <4>2, <4>3, <4>4
    <3>2. CASE m = n
      <4>1. v[n + 1] = e * d + v[n] /\ v[n + 1] \in Nat
        <5> HIDE DEF d, e
        <5>1. CASE e = 0
          BY <5>1, <2>1, <2>2, <2>3, <2>4
        <5>2. CASE e = 1
          BY <5>2, <2>1, <2>2, <2>3, <2>4
        <5> QED BY <2>1, <5>1, <5>2
      <4>2. e \in Nat
        BY <2>1
      <4>3. v[n + 1] \div d = e
        <5> HIDE DEF d, e
        <5> QED BY <4>1, <4>2, <2>2, <2>4, DivisionUnique
      <4>4. e % 2 = e
        BY <2>1
      <4> QED BY <4>3, <4>4, <3>2 DEF Bit
    <3> QED BY <3>1, <3>2, <2>1
  <2> HIDE DEF e, d
  <2> QED BY <2>1, <2>5, <2>6
<1> HIDE DEF P
<1>5. \A n \in 0 .. BITS : n \in P
  BY <1>2, <1>3, <1>4, StepByStep
<1>6. Right(BITS)
  BY <1>2, <1>5 DEF P
<1>7. FromOnes(bits) \in 0 .. BASE - 1
  BY <1>1, <1>6 DEF BASE
<1>8. FromOnes(bits) \in Nat
  BY <1>7, <1>2
<1>9. \A m \in 0 .. BITS - 1 : m \in Ones(FromOnes(bits)) <=> m \in bits
  BY <1>1, <1>6, <1>8, OnesAre
<1>10. Ones(FromOnes(bits)) \in SUBSET (0 .. BITS - 1)
  BY <1>8, OnesAre
<1> QED BY <1>7, <1>9, <1>10

\* Disjoint bits: or is a sum.
LEMMA OrIsSum ==
  ASSUME NEW n \in 0 .. BITS, NEW p \in Nat, p < 2 ^ n, NEW t \in Nat, Splice(p, t, n) \in 0 .. BASE - 1
  PROVE  OrSame(p, t * 2 ^ n) = Splice(p, t, n)
<1> DEFINE d == 2 ^ n
           q == t * d
           z == Splice(p, t, n)
<1>1. BITS \in Nat /\ BASE \in Nat /\ n \in Nat /\ d \in Nat \ {0}
  BY BaseIs, PowerStep
<1>2. z \in 0 .. BASE - 1 /\ z \in Nat
  BY <1>1
<1>3. q \in Nat /\ Splice(0, t, n) = q
  <2>1. Splice(0, t, n) = 0 + t * d
    BY DEF Splice
  <2> HIDE DEF d
  <2> QED BY <1>1, <2>1
<1>4. ASSUME NEW m \in 0 .. BITS - 1
      PROVE  m \in Ones(z) <=> m \in Ones(p) \/ m \in Ones(q)
  <2>1. m \in Nat
    BY <1>1
  <2>2. /\ m \in Ones(z) <=> Bit(z, m) = 1
        /\ m \in Ones(p) <=> Bit(p, m) = 1
        /\ m \in Ones(q) <=> Bit(q, m) = 1
    <3> HIDE DEF z, q, d
    <3> QED BY <1>2, <1>3, OnesAre
  <2>3. CASE m < n
    <3>1. Bit(z, m) = Bit(p, m)
      BY <1>1, <2>1, <2>3, BitLow
    <3>2. Bit(Splice(0, t, n), m) = Bit(0, m)
      BY <1>1, <2>1, <2>3, BitLow
    <3>3. Bit(0, m) = 0
      <4> DEFINE o == 0
      <4>1. o \in Nat /\ o < 2 ^ o /\ m >= o
        BY PowerStep, <2>1
      <4> HIDE DEF o
      <4>2. Bit(o, m) = 0
        BY <2>1, <4>1, BitsAbove
      <4> QED BY <4>2 DEF o
    <3>4. Bit(q, m) = 0
      BY <1>3, <3>2, <3>3
    <3> QED BY <2>2, <3>1, <3>4
  <2>4. CASE m >= n
    <3>1. Bit(p, m) = 0
      BY <1>1, <2>1, <2>4, BitsAbove
    <3>2. Bit(z, m) = Bit(t, m - n)
      BY <1>1, <2>1, <2>4, BitHigh
    <3>3. Bit(Splice(0, t, n), m) = Bit(t, m - n)
      <4> DEFINE o == 0
      <4>1. o \in Nat /\ o < 2 ^ n
        BY <1>1
      <4> HIDE DEF o
      <4>2. Bit(Splice(o, t, n), m) = Bit(t, m - n)
        BY <1>1, <2>1, <2>4, <4>1, BitHigh
      <4> QED BY <4>2 DEF o
    <3>4. Bit(q, m) = Bit(z, m)
      BY <1>3, <3>2, <3>3
    <3> QED BY <2>2, <3>1, <3>4
  <2> QED BY <2>1, <1>1, <2>3, <2>4
<1>5. Ones(z) = Ones(p) \cup Ones(q)
  <2>1. Ones(z) \in SUBSET (0 .. BITS - 1) /\ Ones(p) \in SUBSET (0 .. BITS - 1)
        /\ Ones(q) \in SUBSET (0 .. BITS - 1)
    <3> HIDE DEF z, q, d
    <3> QED BY <1>2, <1>3, OnesAre
  <2> QED BY <2>1, <1>4
<1>6. FromOnes(Ones(z)) = z
  BY <1>2, OnesBack
<1> QED BY <1>5, <1>6 DEF OrSame

----------------------------------------------------------------------------
(* Numbers that are the same modulo 2 to the width *)

\* Numbers that are the same modulo MODULUS.
Same(a, b) == \E q \in Int : a = b + q * MODULUS

LEMMA SameMeans ==
  ASSUME NEW a \in Int, NEW b \in Int, Same(a, b)
  PROVE  (a - b) % MODULUS = 0
<1>1. PICK q \in Int : a = b + q * MODULUS
  BY DEF Same
<1>2. MODULUS \in Nat \ {0}
  BY BaseIs, WeightsAre
<1> DEFINE m == MODULUS
<1>3. m \in Nat \ {0} /\ q * m \in Int /\ a = b + q * m
  <2>1. m \in Nat \ {0} /\ a = b + q * m
    BY <1>1, <1>2
  <2> HIDE DEF m
  <2> QED BY <2>1
<1> DEFINE d == q * m
<1>4. a - b = d
  <2>1. d \in Int /\ a = b + d
    BY <1>3
  <2> HIDE DEF d
  <2> QED BY <2>1
<1>5. d % m = 0
  <2>1. m \in Nat \ {0} /\ d = q * m
    BY <1>3
  <2> HIDE DEF d, m
  <2> QED BY <2>1, MultipleMod
<1> QED BY <1>4, <1>5 DEF m

\* The signed value of a number, and what it is modulo MODULUS.
Negative(kind, x) == IF is_negative(kind, x) THEN 1 ELSE 0
Signed(kind, x) == Unsigned(x) - Negative(kind, x) * MODULUS

LEMMA SignedIs ==
  ASSUME NEW kind, NEW x \in LongInts
  PROVE  /\ Signed(kind, x) \in Int /\ Negative(kind, x) \in {0, 1}
         /\ Signed(kind, x) = IF is_negative(kind, x) THEN Unsigned(x) - MODULUS ELSE Unsigned(x)
         /\ Unsigned(x) = Signed(kind, x) + Negative(kind, x) * MODULUS
         /\ is_negative(kind, x) <=> Signed(kind, x) < 0
<1>1. Unsigned(x) \in Nat /\ Unsigned(x) < MODULUS /\ MODULUS \in Nat
  BY UnsignedIs
<1>2. CASE is_negative(kind, x)
  BY <1>1, <1>2 DEF Signed, Negative
<1>3. CASE ~ is_negative(kind, x)
  BY <1>1, <1>3 DEF Signed, Negative
<1> QED BY <1>2, <1>3

LEMMA LessIsRight ==
  ASSUME NEW kind, NEW x \in LongInts, NEW y \in LongInts
  PROVE  Less(kind, x, y) <=> Signed(kind, x) < Signed(kind, y)
<1>1. /\ Signed(kind, x) = IF is_negative(kind, x) THEN Unsigned(x) - MODULUS ELSE Unsigned(x)
      /\ Signed(kind, y) = IF is_negative(kind, y) THEN Unsigned(y) - MODULUS ELSE Unsigned(y)
  BY SignedIs
<1>2. /\ Unsigned(x) \in Nat /\ Unsigned(x) < MODULUS /\ MODULUS \in Nat
      /\ Unsigned(y) \in Nat /\ Unsigned(y) < MODULUS
  BY UnsignedIs
<1>3. CASE is_negative(kind, x) # is_negative(kind, y)
  <2>1. Less(kind, x, y) <=> is_negative(kind, x)
    BY <1>3 DEF Less
  <2>2. CASE is_negative(kind, x) /\ ~ is_negative(kind, y)
    BY <2>1, <2>2, <1>1, <1>2
  <2>3. CASE ~ is_negative(kind, x) /\ is_negative(kind, y)
    BY <2>1, <2>3, <1>1, <1>2
  <2>4. \/ is_negative(kind, x) /\ ~ is_negative(kind, y)
        \/ ~ is_negative(kind, x) /\ is_negative(kind, y)
    BY <1>3 DEF is_negative
  <2> QED BY <2>2, <2>3, <2>4
<1>4. CASE is_negative(kind, x) = is_negative(kind, y)
  <2>1. Less(kind, x, y) <=> Unsigned(x) < Unsigned(y)
    <3>1. Less(kind, x, y) <=> \E i \in Places : x[i] < y[i] /\ \A j \in i + 1 .. DIGITS : x[j] = y[j]
      BY <1>4 DEF Less
    <3> QED BY <3>1, OrderIs, Zenon
  <2> QED BY <2>1, <1>4, <1>1, <1>2
<1> QED BY <1>3, <1>4

\* The places of the bits of a number.
At(i, m) == BITS * (i - 1) + m

LEMMA BitOfNumber ==
  ASSUME NEW x \in LongInts, NEW i \in Places, NEW m \in 0 .. BITS - 1
  PROVE  Bit(Unsigned(x), At(i, m)) = Bit(x[i], m)
<1> DEFINE n == BITS * (i - 1)
           lo == Values(x)[i - 1]
           w == W(i - 1)
           d == x[i]
<1>1. i \in Nat /\ i - 1 \in Nat /\ i - 1 \in 0 .. DIGITS /\ i \in 0 .. DIGITS /\ (i - 1) + 1 = i
  BY BaseIs DEF Places
<1>2. /\ Values(x)[i] = lo + d * w /\ lo \in Nat /\ lo < w
      /\ w \in Nat \ {0} /\ W(i) = BASE * w
  BY <1>1, ValuesAre, WeightsAre
<1>3. PICK hi \in Nat : Unsigned(x) = Values(x)[i] + hi * W(i)
  BY <1>1, AboveIs
<1>4. d \in Nat /\ BASE \in Nat /\ BITS \in Nat /\ m \in Nat /\ m < BITS /\ n \in Nat
  BY <1>1, BaseIs DEF LongInts
<1> DEFINE q == Splice(d, hi, BITS)
<1>5. q \in Nat /\ q = d + hi * BASE
  <2>1. q = d + hi * BASE
    BY DEF Splice, BASE
  <2> HIDE DEF q, d
  <2> QED BY <2>1, <1>4
<1>6. Unsigned(x) = Splice(lo, q, n)
  <2>1. Splice(lo, q, n) = lo + q * w
    BY DEF Splice, W
  <2>2. (d + hi * BASE) * w = d * w + hi * (BASE * w)
    <3> HIDE DEF d, w
    <3> QED BY <1>2, <1>4
  <2>3. lo + d * w + hi * (BASE * w) = lo + (d * w + hi * (BASE * w))
    <3> HIDE DEF d, w, lo
    <3>1. d * w \in Nat /\ hi * (BASE * w) \in Nat
      BY <1>2, <1>4
    <3> QED BY <3>1, <1>2
  <2> QED BY <2>1, <2>2, <2>3, <1>2, <1>3, <1>5
<1>7. lo < 2 ^ n
  BY <1>2 DEF W
<1> HIDE DEF n, lo, w, d, q
<1> DEFINE k == n + m
<1>8. k \in Nat /\ k >= n /\ k - n = m
  BY <1>4
<1> HIDE DEF k
<1>9. Bit(Splice(lo, q, n), k) = Bit(q, k - n)
  <2>1. lo \in Nat /\ q \in Nat /\ n \in Nat
    BY <1>2, <1>4, <1>5
  <2> QED BY ONLY <2>1, <1>7, <1>8, BitHigh
<1>10. Bit(q, m) = Bit(d, m)
  BY <1>3, <1>4, BitLow DEF q
<1> QED BY <1>6, <1>8, <1>9, <1>10 DEF k, n, At, d

LEMMA AtIs ==
  /\ \A i \in Places, m \in 0 .. BITS - 1 : At(i, m) \in 0 .. DIGITS * BITS - 1
  /\ \A n \in 0 .. DIGITS * BITS - 1 : \E i \in Places, m \in 0 .. BITS - 1 : n = At(i, m)
<1>1. BITS \in Nat \ {0} /\ DIGITS \in Nat
  BY BaseIs
<1>2. ASSUME NEW i \in Places, NEW m \in 0 .. BITS - 1
      PROVE  At(i, m) \in 0 .. DIGITS * BITS - 1
  <2>1. PICK r \in Nat : DIGITS = i + r
    <3>1. DIGITS - i \in Nat /\ i \in Nat
      BY <1>1 DEF Places
    <3> QED BY <3>1, <1>1
  <2>2. i \in Nat /\ i - 1 \in Nat
    BY <1>1 DEF Places
  <2>3. DIGITS * BITS = BITS * (i - 1) + BITS + r * BITS /\ r * BITS \in Nat /\ BITS * (i - 1) \in Nat
    BY <1>1, <2>1, <2>2
  <2> QED BY <2>3, <1>1 DEF At
<1>3. ASSUME NEW n \in 0 .. DIGITS * BITS - 1
      PROVE  \E i \in Places, m \in 0 .. BITS - 1 : n = At(i, m)
  <2> DEFINE p == n \div BITS
             m == n % BITS
  <2>1. n \in Nat /\ n < DIGITS * BITS
    <3>1. DIGITS * BITS \in Nat
      BY <1>1
    <3> QED BY <3>1
  <2>2. p \in Nat /\ m \in 0 .. BITS - 1 /\ n = p * BITS + m
    BY <1>1, <2>1, DivisionIs
  <2> HIDE DEF p, m
  <2>3. p < DIGITS
    <3>1. ASSUME p >= DIGITS PROVE FALSE
      <4>1. PICK r \in Nat : p = DIGITS + r
        <5>1. p - DIGITS \in Nat
          BY <3>1, <2>2, <1>1
        <5> QED BY <5>1, <2>2, <1>1
      <4>2. p * BITS = DIGITS * BITS + r * BITS /\ r * BITS \in Nat /\ DIGITS * BITS \in Nat
        BY <4>1, <1>1
      <4> QED BY <4>2, <2>1, <2>2
    <3> QED BY <3>1, <2>2, <1>1
  <2>4. p + 1 \in Places /\ (p + 1) - 1 = p
    BY <2>2, <2>3, <1>1 DEF Places
  <2>5. n = At(p + 1, m)
    <3>1. p * BITS = BITS * p
      BY <2>2, <1>1
    <3> QED BY <3>1, <2>2, <2>4 DEF At
  <2> QED BY <2>2, <2>4, <2>5
<1> QED BY <1>2, <1>3

LEMMA BitsOfIs ==
  ASSUME NEW x \in LongInts
  PROVE  /\ BitsOf(x) \in SUBSET (0 .. DIGITS * BITS - 1)
         /\ \A i \in Places, m \in 0 .. BITS - 1 : At(i, m) \in BitsOf(x) <=> m \in Ones(x[i])
<1>1. BitsOf(x) = {n \in 0 .. DIGITS * BITS - 1 : Bit(Unsigned(x), n) = 1}
  BY DEF BitsOf, Bit
<1>2. ASSUME NEW i \in Places, NEW m \in 0 .. BITS - 1
      PROVE  At(i, m) \in BitsOf(x) <=> m \in Ones(x[i])
  <2>1. At(i, m) \in 0 .. DIGITS * BITS - 1
    BY AtIs
  <2>2. x[i] \in Nat
    BY BaseIs DEF LongInts
  <2>3. m \in Ones(x[i]) <=> Bit(x[i], m) = 1
    BY <2>2, OnesAre
  <2>4. Bit(Unsigned(x), At(i, m)) = Bit(x[i], m)
    BY BitOfNumber
  <2> QED BY <1>1, <2>1, <2>3, <2>4
<1> QED BY <1>1, <1>2

\* An operation on the bits of every digit is one on the bits of the number.
LEMMA CommonBits ==
  ASSUME NEW x \in LongInts, NEW y \in LongInts, NEW r \in LongInts,
         \A i \in Places : Ones(r[i]) = Ones(x[i]) \cap Ones(y[i])
  PROVE  BitsOf(r) = BitsOf(x) \cap BitsOf(y)
<1> DEFINE N == 0 .. DIGITS * BITS - 1
<1>1. BitsOf(x) \in SUBSET N /\ BitsOf(y) \in SUBSET N /\ BitsOf(r) \in SUBSET N
  BY BitsOfIs
<1>2. \A i \in Places, m \in 0 .. BITS - 1 :
         /\ At(i, m) \in BitsOf(x) <=> m \in Ones(x[i])
         /\ At(i, m) \in BitsOf(y) <=> m \in Ones(y[i])
         /\ At(i, m) \in BitsOf(r) <=> m \in Ones(r[i])
  BY BitsOfIs
<1>3. \A n \in N : \E i \in Places, m \in 0 .. BITS - 1 : n = At(i, m)
  BY AtIs
<1> HIDE DEF N
<1>4. \A n \in N : n \in BitsOf(r) <=> n \in BitsOf(x) /\ n \in BitsOf(y)
  <2> TAKE n \in N
  <2>1. PICK i \in Places, m \in 0 .. BITS - 1 : n = At(i, m)
    BY <1>3
  <2> QED BY <2>1, <1>2
<1> QED BY <1>4, <1>1

LEMMA EitherBits ==
  ASSUME NEW x \in LongInts, NEW y \in LongInts, NEW r \in LongInts,
         \A i \in Places : Ones(r[i]) = Ones(x[i]) \cup Ones(y[i])
  PROVE  BitsOf(r) = BitsOf(x) \cup BitsOf(y)
<1> DEFINE N == 0 .. DIGITS * BITS - 1
<1>1. BitsOf(x) \in SUBSET N /\ BitsOf(y) \in SUBSET N /\ BitsOf(r) \in SUBSET N
  BY BitsOfIs
<1>2. \A i \in Places, m \in 0 .. BITS - 1 :
         /\ At(i, m) \in BitsOf(x) <=> m \in Ones(x[i])
         /\ At(i, m) \in BitsOf(y) <=> m \in Ones(y[i])
         /\ At(i, m) \in BitsOf(r) <=> m \in Ones(r[i])
  BY BitsOfIs
<1>3. \A n \in N : \E i \in Places, m \in 0 .. BITS - 1 : n = At(i, m)
  BY AtIs
<1> HIDE DEF N
<1>4. \A n \in N : n \in BitsOf(r) <=> n \in BitsOf(x) \/ n \in BitsOf(y)
  <2> TAKE n \in N
  <2>1. PICK i \in Places, m \in 0 .. BITS - 1 : n = At(i, m)
    BY <1>3
  <2> QED BY <2>1, <1>2
<1> QED BY <1>4, <1>1

LEMMA OddBits ==
  ASSUME NEW x \in LongInts, NEW y \in LongInts, NEW r \in LongInts,
         \A i \in Places : Ones(r[i]) = (Ones(x[i]) \ Ones(y[i])) \cup (Ones(y[i]) \ Ones(x[i]))
  PROVE  BitsOf(r) = (BitsOf(x) \ BitsOf(y)) \cup (BitsOf(y) \ BitsOf(x))
<1> DEFINE N == 0 .. DIGITS * BITS - 1
<1>1. BitsOf(x) \in SUBSET N /\ BitsOf(y) \in SUBSET N /\ BitsOf(r) \in SUBSET N
  BY BitsOfIs
<1>2. \A i \in Places, m \in 0 .. BITS - 1 :
         /\ At(i, m) \in BitsOf(x) <=> m \in Ones(x[i])
         /\ At(i, m) \in BitsOf(y) <=> m \in Ones(y[i])
         /\ At(i, m) \in BitsOf(r) <=> m \in Ones(r[i])
  BY BitsOfIs
<1>3. \A n \in N : \E i \in Places, m \in 0 .. BITS - 1 : n = At(i, m)
  BY AtIs
<1> HIDE DEF N
<1>4. \A n \in N : n \in BitsOf(r) <=> n \in (BitsOf(x) \ BitsOf(y)) \cup (BitsOf(y) \ BitsOf(x))
  <2> TAKE n \in N
  <2>1. PICK i \in Places, m \in 0 .. BITS - 1 : n = At(i, m)
    BY <1>3
  <2> QED BY <2>1, <1>2
<1> QED BY <1>4, <1>1

LEMMA EvenIsRight ==
  ASSUME NEW x \in LongInts
  PROVE  is_even(x) <=> Unsigned(x) % 2 = 0
<1>1. 1 \in Places /\ 0 \in 0 .. BITS - 1 /\ x[1] \in Nat /\ Unsigned(x) \in Nat
  BY BaseIs, UnsignedIs DEF Places, LongInts
<1>2. At(1, 0) = 0
  BY BaseIs DEF At
<1>3. Bit(Unsigned(x), 0) = Bit(x[1], 0)
  BY <1>1, <1>2, BitOfNumber
<1>4. \A z \in Nat : z \div 2 ^ 0 = z
  <2>1. 2 ^ 0 = 1
    BY PowerStep
  <2>2. \A z \in Nat : z \div 1 = z
    OBVIOUS
  <2> QED BY <2>1, <2>2
<1> QED BY <1>1, <1>3, <1>4 DEF Bit, is_even

LEMMA ZeroIsRight ==
  ASSUME NEW x \in LongInts
  PROVE  long_is_zero(x) <=> Unsigned(x) = 0
<1>1. Unsigned(x) = Unsigned(ZERO) <=> x = ZERO
  BY SmallNumbers, OrderIs
<1>2. x = ZERO <=> \A i \in Places : x[i] = 0
  BY DEF ZERO, LongInts
<1> QED BY <1>1, <1>2, SmallUnsigned DEF long_is_zero

----------------------------------------------------------------------------
(* A shift to the left *)

LEMMA WeightsMultiply ==
  ASSUME NEW i \in Nat, NEW j \in Nat
  PROVE  W(i + j) = W(i) * W(j)
<1>1. BITS * i \in Nat /\ BITS * j \in Nat /\ BITS * (i + j) = BITS * i + BITS * j
  BY BaseIs
<1>2. 2 ^ (BITS * i + BITS * j) = 2 ^ (BITS * i) * 2 ^ (BITS * j)
  BY <1>1, PowerSum
<1> QED BY <1>1, <1>2 DEF W

\* A shift goes by whole digits and some bits.
LEMMA ShiftParts ==
  ASSUME NEW k \in Nat
  PROVE  /\ k \div BITS \in Nat /\ k % BITS \in 0 .. BITS - 1 /\ k % BITS \in Nat
         /\ 2 ^ k = 2 ^ (k % BITS) * W(k \div BITS)
<1> DEFINE n == k \div BITS
           b == k % BITS
<1>1. n \in Nat /\ b \in 0 .. BITS - 1 /\ k = n * BITS + b /\ BITS \in Nat
  <2>1. BITS \in Nat \ {0}
    BY LongIntAssumption
  <2> QED BY ONLY <2>1, k \in Nat, DivisionIs
<1> HIDE DEF n, b
<1>2. BITS * n \in Nat /\ b \in Nat /\ k = b + BITS * n
  BY <1>1
<1>3. 2 ^ (b + BITS * n) = 2 ^ b * 2 ^ (BITS * n)
  BY <1>2, PowerSum
<1> QED BY <1>1, <1>2, <1>3 DEF W, n, b

LEMMA BaseParts ==
  ASSUME NEW b \in 0 .. BITS
  PROVE  /\ 2 ^ b \in Nat \ {0} /\ 2 ^ (BITS - b) \in Nat \ {0} /\ BASE = 2 ^ b * 2 ^ (BITS - b)
         /\ b = 0 => 2 ^ b = 1
<1>1. b \in Nat /\ BITS - b \in Nat /\ b + (BITS - b) = BITS
  BY BaseIs
<1>2. 2 ^ (b + (BITS - b)) = 2 ^ b * 2 ^ (BITS - b)
  BY <1>1, PowerSum
<1> QED BY <1>1, <1>2, PowerStep DEF BASE

\* A digit shifted to the left: what stays in it and what leaves it.
LEMMA ShiftedDigit ==
  ASSUME NEW b \in 0 .. BITS, NEW d \in 0 .. BASE - 1
  PROVE  LET e == 2 ^ b  f == 2 ^ (BITS - b)  q == d \div f  s == d % f
         IN  /\ q \in 0 .. e - 1 /\ s \in 0 .. f - 1 /\ d = q * f + s
             /\ (d * e) % BASE = s * e /\ s * e \in Nat /\ s * e + e <= BASE
             /\ d * e = s * e + q * BASE
             /\ b = 0 => q = 0
<1> DEFINE e == 2 ^ b
           f == 2 ^ (BITS - b)
           q == d \div f
           s == d % f
           B == BASE
<1>1. e \in Nat \ {0} /\ f \in Nat \ {0} /\ B = e * f /\ (b = 0 => e = 1) /\ B \in Nat \ {0} /\ d \in 0 .. B - 1
      /\ d \in Nat
  BY BaseParts, BaseIs
<1> HIDE DEF e, f, B
<1>2. q \in Nat /\ s \in 0 .. f - 1 /\ d = q * f + s
  BY <1>1, DivisionIs
<1> HIDE DEF q, s
<1>3. q < e
  <2>1. ASSUME q >= e PROVE FALSE
    <3>1. PICK r \in Nat : q = e + r
      <4>1. q - e \in Nat
        BY <2>1, <1>1, <1>2
      <4> QED BY <4>1, <1>1, <1>2
    <3>2. q * f = e * f + r * f /\ r * f \in Nat /\ e * f \in Nat
      BY <3>1, <1>1
    <3> QED BY <3>2, <1>1, <1>2
  <2> QED BY <2>1, <1>1, <1>2
<1>4. s * e \in Nat /\ s * e + e <= B
  <2>1. PICK r \in Nat : f = s + 1 + r
    <3>1. f - s - 1 \in Nat /\ s \in Nat
      BY <1>1, <1>2
    <3> QED BY <3>1, <1>1
  <2>2. s \in Nat /\ e * f = s * e + e + r * e /\ r * e \in Nat /\ s * e \in Nat
    BY <2>1, <1>1, <1>2
  <2> QED BY <2>2, <1>1
<1>5. d * e = s * e + q * B /\ d * e \in Nat
  <2>1. s \in Nat
    BY <1>1, <1>2
  <2>2. (q * f + s) * e = s * e + q * (e * f)
    BY <2>1, <1>1, <1>2
  <2>3. d * e \in Nat
    BY <1>1
  <2> QED BY <2>2, <2>3, <1>1, <1>2
<1>6. (d * e) % B = s * e
  <2> DEFINE z == d * e
             t == s * e
  <2>1. z \in Nat /\ t \in 0 .. B - 1 /\ B \in Nat \ {0} /\ q \in Nat /\ z = q * B + t
    <3>1. z \in Nat /\ z = t + q * B /\ t \in Nat /\ t + e <= B
      BY <1>4, <1>5
    <3>2. q * B \in Nat
      BY <1>1, <1>2
    <3> HIDE DEF z, t
    <3> QED BY <3>1, <3>2, <1>1, <1>2
  <2> HIDE DEF z, t
  <2>2. z % B = t
    BY <2>1, DivisionUnique
  <2> QED BY <2>2 DEF z, t
<1>7. q \in 0 .. e - 1
  BY <1>1, <1>2, <1>3
<1>8. b = 0 => q = 0
  BY <1>1, <1>3, <1>2
<1> QED BY <1>2, <1>4, <1>5, <1>6, <1>7, <1>8 DEF e, f, B, q, s

\* The digits of a number shifted to the left: Kept by digits, Gone into the next.
Kept(x, b, i) == (x[i] * 2 ^ b) % BASE
Gone(x, b, i) == x[i] \div 2 ^ (BITS - b)

LEMMA ShiftLeftIs ==
  ASSUME NEW x \in LongInts, NEW k \in Nat
  PROVE  LET n == k \div BITS  b == k % BITS  r == ShiftLeft(x, k)
         IN  /\ r \in LongInts
             /\ \A i \in Places : r[i] = (IF i > n THEN Kept(x, b, i - n) ELSE 0)
                                          + (IF i > n + 1 THEN Gone(x, b, i - n - 1) ELSE 0)
             /\ \A i \in Places : /\ Kept(x, b, i) \in Nat /\ Gone(x, b, i) \in Nat
                                  /\ x[i] * 2 ^ b = Kept(x, b, i) + Gone(x, b, i) * BASE
<1> DEFINE n == k \div BITS
           b == k % BITS
           r == ShiftLeft(x, k)
           e == 2 ^ b
<1>1. n \in Nat /\ b \in 0 .. BITS - 1 /\ b \in 0 .. BITS /\ BASE \in Nat /\ DIGITS \in Nat
  <2>1. n \in Nat /\ b \in 0 .. BITS - 1
    BY ShiftParts
  <2> HIDE DEF n, b
  <2> QED BY <2>1, BaseIs
<1>2. \A i \in Places : x[i] \in 0 .. BASE - 1
  BY DEF LongInts
<1>3. r = [i \in Places |-> (IF i > n THEN (x[i - n] * 2 ^ b) % BASE ELSE 0)
                             + (IF i > n + 1 /\ b # 0 THEN x[i - n - 1] \div 2 ^ (BITS - b) ELSE 0)]
  BY DEF ShiftLeft
<1> HIDE DEF n, b, r
<1>4. \A i \in Places : /\ Kept(x, b, i) \in Nat /\ Gone(x, b, i) \in Nat
                        /\ Kept(x, b, i) + e <= BASE /\ Gone(x, b, i) < e /\ e \in Nat
                        /\ x[i] * e = Kept(x, b, i) + Gone(x, b, i) * BASE
                        /\ b = 0 => Gone(x, b, i) = 0
  <2> TAKE i \in Places
  <2> DEFINE d == x[i]
             f == 2 ^ (BITS - b)
             q == d \div f
             s == d % f
  <2>1. d \in 0 .. BASE - 1
    BY <1>2
  <2> HIDE DEF d
  <2>2. /\ q \in 0 .. e - 1 /\ (d * e) % BASE = s * e /\ s * e \in Nat /\ s * e + e <= BASE
        /\ d * e = s * e + q * BASE /\ (b = 0 => q = 0)
    BY <1>1, <2>1, ShiftedDigit
  <2>3. Kept(x, b, i) = (d * e) % BASE /\ Gone(x, b, i) = q
    BY DEF Kept, Gone, d
  <2>4. e \in Nat
    BY <1>1, BaseParts
  <2> HIDE DEF q, s, e
  <2>5. q \in Nat /\ q < e
    BY <2>2, <2>4
  <2> QED BY <2>2, <2>3, <2>4, <2>5 DEF d
<1> HIDE DEF e
<1>5. \A i \in Places : r[i] = (IF i > n THEN Kept(x, b, i - n) ELSE 0)
                                + (IF i > n + 1 THEN Gone(x, b, i - n - 1) ELSE 0)
  <2> TAKE i \in Places
  <2>1. CASE b = 0
    <3>1. i > n + 1 => i - n - 1 \in Places
      BY <1>1 DEF Places
    <3>2. i > n + 1 => Gone(x, b, i - n - 1) = 0
      BY <2>1, <3>1, <1>4
    <3> QED BY <1>3, <2>1, <3>2 DEF Kept
  <2>2. CASE b # 0
    BY <1>3, <2>2 DEF Kept, Gone
  <2> QED BY <2>1, <2>2
<1>6. \A i \in Places : r[i] \in 0 .. BASE - 1
  <2> TAKE i \in Places
  <2>1. (i > n => i - n \in Places) /\ (i > n + 1 => i - n - 1 \in Places) /\ i \in Nat
    BY <1>1 DEF Places
  <2> DEFINE u == IF i > n THEN Kept(x, b, i - n) ELSE 0
             v == IF i > n + 1 THEN Gone(x, b, i - n - 1) ELSE 0
  <2>2. u \in Nat /\ (i > n => u + e <= BASE) /\ (~ (i > n) => u = 0)
    BY <2>1, <1>4
  <2>3. v \in Nat /\ (i > n + 1 => v < e) /\ (~ (i > n + 1) => v = 0)
    BY <2>1, <1>4
  <2>4. i > n => e \in Nat \ {0}
    <3>1. e \in Nat \ {0}
      BY <1>1, BaseParts DEF e
    <3> QED BY <3>1
  <2>5. r[i] = u + v
    BY <1>5
  <2>6. BASE >= 2
    BY BaseIs
  <2> HIDE DEF u, v
  <2>7. CASE i > n + 1
    BY <2>7, <2>1, <2>2, <2>3, <2>4, <2>5, <1>1
  <2>8. CASE ~ (i > n + 1)
    BY <2>8, <2>1, <2>2, <2>3, <2>4, <2>5, <2>6, <1>1
  <2> QED BY <2>7, <2>8
<1>7. r \in LongInts
  BY <1>3, <1>6 DEF LongInts
<1> QED BY <1>4, <1>5, <1>7 DEF n, b, r, e

\* The lower digits that a shift to the left leaves empty.
LEMMA EmptyBelow ==
  ASSUME NEW r \in LongInts, NEW n \in 0 .. DIGITS, \A i \in Places : i <= n => r[i] = 0
  PROVE  Values(r)[n] = 0
<1> DEFINE P == {i \in 0 .. n : Values(r)[i] = 0}
<1>1. n \in Nat /\ 0 \in P
  BY ValuesAre, BaseIs
<1>2. ASSUME NEW i \in 0 .. n - 1, i \in P PROVE i + 1 \in P
  <2>1. i + 1 \in Places /\ i + 1 <= n /\ (i + 1) - 1 = i /\ i \in Nat
    BY <1>1, BaseIs DEF Places
  <2>2. Values(r)[i + 1] = Values(r)[i] + r[i + 1] * W(i)
    BY <2>1, ValuesAre
  <2>3. r[i + 1] = 0 /\ W(i) \in Nat /\ Values(r)[i] = 0
    BY <2>1, <1>2, WeightsAre
  <2>4. 0 * W(i) = 0
    BY <2>3
  <2>5. Values(r)[i + 1] = 0
    BY <2>2, <2>3, <2>4
  <2> QED BY <2>5, <2>1, <1>1
<1> HIDE DEF P
<1>3. \A i \in 0 .. n : i \in P
  BY <1>1, <1>2, StepByStep
<1> QED BY <1>1, <1>3 DEF P

\* One step of it: the digits that are done, and the next.
LEMMA ShiftLeftStepIs ==
  ASSUME NEW vr \in Int, NEW vx \in Int, NEW c \in Int, NEW kept \in Int, NEW gone \in Int,
         NEW d \in Int, NEW e \in Int, NEW wn \in Int, NEW wj \in Int, NEW b \in Int,
         vr + c * (wn * wj) = (e * wn) * vx, d * e = kept + gone * b
  PROVE  vr + (kept + c) * (wn * wj) + gone * (b * (wn * wj)) = (e * wn) * (vx + d * wj)
<1> DEFINE w == wn * wj
           cw == c * w
           t == (e * wn) * vx
<1>1. w \in Int /\ cw \in Int /\ t \in Int /\ vr + cw = t
  OBVIOUS
<1>2. (kept + c) * w = kept * w + cw /\ kept * w \in Int
  <2> HIDE DEF w
  <2> QED BY <1>1
<1>3. (d * e) * w = kept * w + gone * (b * w)
  <2>1. (kept + gone * b) * w = kept * w + gone * (b * w)
    <3> HIDE DEF w
    <3> QED BY <1>1
  <2> QED BY <2>1
<1>4. (e * wn) * (vx + d * wj) = t + (d * e) * w
  OBVIOUS
<1>5. gone * (b * w) \in Int /\ (d * e) * w \in Int
  BY <1>1
<1> DEFINE p == kept * w
           q == gone * (b * w)
           z == (d * e) * w
<1>6. p \in Int /\ q \in Int /\ z = p + q
  BY <1>2, <1>3, <1>5
<1>7. vr + (p + cw) + q = t + z
  <2> HIDE DEF p, q, z, t, cw, w
  <2> QED BY <1>1, <1>6
<1> QED BY <1>2, <1>4, <1>7

LEMMA ShiftLeftValues ==
  ASSUME NEW x \in LongInts, NEW k \in Nat, k \div BITS < DIGITS
  PROVE  LET n == k \div BITS  b == k % BITS  r == ShiftLeft(x, k)
         IN  \A j \in 0 .. DIGITS - n :
               Values(r)[n + j] + (IF j = 0 THEN 0 ELSE Gone(x, b, j)) * W(n + j)
                 = (2 ^ b * W(n)) * Values(x)[j]
<1> DEFINE n == k \div BITS
           b == k % BITS
           r == ShiftLeft(x, k)
           e == 2 ^ b
           C(j) == IF j = 0 THEN 0 ELSE Gone(x, b, j)
           P == {j \in 0 .. DIGITS - n : Values(r)[n + j] + C(j) * W(n + j) = (e * W(n)) * Values(x)[j]}
<1>1. n \in Nat /\ b \in Nat /\ n < DIGITS /\ b \in 0 .. BITS
  <2>1. n \in Nat /\ b \in 0 .. BITS - 1 /\ n < DIGITS
    BY ShiftParts
  <2> HIDE DEF n, b
  <2> QED BY <2>1, BaseIs
<1>2. /\ r \in LongInts
      /\ \A i \in Places : r[i] = (IF i > n THEN Kept(x, b, i - n) ELSE 0)
                                   + (IF i > n + 1 THEN Gone(x, b, i - n - 1) ELSE 0)
      /\ \A i \in Places : /\ Kept(x, b, i) \in Nat /\ Gone(x, b, i) \in Nat
                           /\ x[i] * e = Kept(x, b, i) + Gone(x, b, i) * BASE
  BY ShiftLeftIs
<1>3. e \in Nat \ {0}
  BY <1>1, BaseParts
<1> HIDE DEF n, b, r, e
<1>4. Values(r)[n] = 0
  <2>1. \A i \in Places : i <= n => r[i] = 0
    BY <1>1, <1>2 DEF Places
  <2>2. n \in 0 .. DIGITS
    BY <1>1, BaseIs
  <2> QED BY <2>1, <2>2, <1>2, EmptyBelow
<1>5. DIGITS - n \in Nat
  BY <1>1, BaseIs
<1>6. 0 \in P
  <2>1. Values(x)[0] = 0 /\ W(n) \in Nat /\ n + 0 = n /\ 0 \in 0 .. DIGITS - n
    BY ValuesAre, WeightsAre, <1>1, <1>5
  <2>2. (e * W(n)) * 0 = 0 /\ 0 * W(n) = 0
    BY <2>1, <1>3
  <2> QED BY <2>1, <2>2, <1>4
<1>7. ASSUME NEW j \in 0 .. DIGITS - n - 1, j \in P PROVE j + 1 \in P
  <2> DEFINE i == n + j + 1
             c == C(j)
             h == j + 1
             wn == W(n)
             wj == W(j)
  <2>1. /\ i \in Places /\ h \in Places /\ i - n = h /\ i - n - 1 = j /\ i > n /\ i - 1 = n + j /\ h - 1 = j
        /\ h \in 0 .. DIGITS - n /\ h # 0 /\ n + h = i /\ j \in Nat /\ n + j \in Nat /\ (j # 0 => j \in Places)
        /\ (i > n + 1 <=> j # 0) /\ (n + j) + 1 = i /\ j \in 0 .. DIGITS
    BY <1>1, BaseIs DEF Places
  <2>2. W(n + j) = wn * wj /\ W(i) = BASE * W(n + j) /\ wn \in Nat /\ wj \in Nat
    BY <2>1, <1>1, WeightsAre, WeightsMultiply
  <2>3. Values(r)[i] = Values(r)[n + j] + r[i] * W(n + j) /\ Values(r)[n + j] \in Nat
    <3>1. n + j \in 0 .. DIGITS /\ i \in Places /\ i - 1 = n + j
      BY <1>1, BaseIs DEF Places
    <3> HIDE DEF i
    <3>2. Values(r)[i] = Values(r)[i - 1] + r[i] * W(i - 1)
      BY <3>1, <1>2, ValuesAre
    <3>3. Values(r)[n + j] \in Nat
      BY <3>1, <1>2, ValuesAre
    <3> QED BY <3>1, <3>2, <3>3
  <2>4. Values(x)[h] = Values(x)[j] + x[h] * wj /\ Values(x)[j] \in Nat
    <3> HIDE DEF h
    <3>1. Values(x)[h] = Values(x)[h - 1] + x[h] * W(h - 1)
      BY <2>1, ValuesAre
    <3>2. Values(x)[j] \in Nat
      BY <2>1, ValuesAre
    <3> QED BY <3>1, <3>2, <2>1
  <2>5. r[i] = Kept(x, b, h) + c
    <3>1. r[i] = Kept(x, b, h) + (IF i > n + 1 THEN Gone(x, b, j) ELSE 0)
      BY <1>2, <2>1
    <3>2. c = IF i > n + 1 THEN Gone(x, b, j) ELSE 0
      BY <2>1
    <3> HIDE DEF c
    <3> QED BY <3>1, <3>2
  <2>6. c \in Nat
    BY <1>2, <2>1
  <2>7. Values(r)[n + j] + c * W(n + j) = (e * wn) * Values(x)[j]
    BY <1>7
  <2>8. C(h) = Gone(x, b, h)
    BY <2>1
  <2>9. x[h] * e = Kept(x, b, h) + Gone(x, b, h) * BASE /\ Kept(x, b, h) \in Nat /\ Gone(x, b, h) \in Nat
        /\ x[h] \in Nat /\ BASE \in Nat
    BY <1>2, <2>1, BaseIs DEF LongInts
  <2> DEFINE vr == Values(r)[n + j]
             vx == Values(x)[j]
             kept == Kept(x, b, h)
             gone == Gone(x, b, h)
             d == x[h]
  <2>10. /\ vr \in Int /\ vx \in Int /\ c \in Int /\ kept \in Int /\ gone \in Int /\ d \in Int /\ e \in Int
         /\ wn \in Int /\ wj \in Int /\ BASE \in Int
         /\ vr + c * (wn * wj) = (e * wn) * vx /\ d * e = kept + gone * BASE
    BY <2>2, <2>3, <2>4, <2>6, <2>7, <2>9, <1>3
  <2>11. /\ Values(r)[i] = vr + (kept + c) * (wn * wj)
         /\ Values(x)[h] = vx + d * wj /\ W(i) = BASE * (wn * wj)
    BY <2>2, <2>3, <2>4, <2>5
  <2> HIDE DEF vr, vx, kept, d, c, wn, wj
  <2>12. vr + (kept + c) * (wn * wj) + gone * (BASE * (wn * wj)) = (e * wn) * (vx + d * wj)
    <3> HIDE DEF gone
    <3> QED BY ONLY <2>10, ShiftLeftStepIs
  <2>13. Values(r)[i] + gone * W(i) = (e * wn) * Values(x)[h]
    BY <2>11, <2>12
  <2>14. Values(r)[n + h] + C(h) * W(n + h) = (e * W(n)) * Values(x)[h]
    BY <2>13, <2>8, <2>1 DEF wn
  <2> HIDE DEF C, i
  <2> QED BY <2>14, <2>1 DEF P
<1> HIDE DEF P
<1>8. \A j \in 0 .. DIGITS - n : j \in P
  <2> DEFINE o == 0
             m == DIGITS - n
  <2>1. o \in Nat /\ m \in Nat /\ o \in P /\ \A j \in o .. m - 1 : j \in P => j + 1 \in P
    BY <1>5, <1>6, <1>7
  <2> HIDE DEF o, m
  <2>2. \A j \in o .. m : j \in P
    BY <2>1, StepByStep
  <2> QED BY <2>2 DEF o, m
<1> QED BY <1>8 DEF P, n, b, r, e, C

\* Sums and products of numbers that are the same modulo MODULUS.
LEMMA SamePlus ==
  ASSUME NEW a \in Int, NEW b \in Int, NEW c \in Int, NEW d \in Int, Same(a, b), Same(c, d)
  PROVE  Same(a + c, b + d)
<1> DEFINE m == MODULUS
<1>1. PICK p \in Int : a = b + p * m
  BY DEF Same
<1>2. PICK q \in Int : c = d + q * m
  BY DEF Same
<1>3. m \in Int
  BY BaseIs, WeightsAre
<1> HIDE DEF m
<1>4. a + c = (b + d) + (p + q) * m /\ p + q \in Int
  BY <1>1, <1>2, <1>3
<1> QED BY <1>4 DEF Same, m

LEMMA SameTimes ==
  ASSUME NEW a \in Int, NEW b \in Int, NEW c \in Int, Same(a, b)
  PROVE  Same(c * a, c * b)
<1> DEFINE m == MODULUS
<1>1. PICK p \in Int : a = b + p * m
  BY DEF Same
<1>3. m \in Int
  BY BaseIs, WeightsAre
<1> HIDE DEF m
<1>4. c * a = c * b + (c * p) * m /\ c * p \in Int
  BY <1>1, <1>3
<1> QED BY <1>4 DEF Same, m

LEMMA SameNegative ==
  ASSUME NEW a \in Int, NEW b \in Int, Same(a, b)
  PROVE  Same(-a, -b)
<1> DEFINE m == MODULUS
<1>1. PICK p \in Int : a = b + p * m
  BY DEF Same
<1>3. m \in Int
  BY BaseIs, WeightsAre
<1> HIDE DEF m
<1>4. -a = -b + (-p) * m /\ -p \in Int
  BY <1>1, <1>3
<1> QED BY <1>4 DEF Same, m

LEMMA SameTurns ==
  ASSUME NEW a \in Int, NEW b \in Int, Same(a, b)
  PROVE  Same(b, a)
<1> DEFINE m == MODULUS
<1>1. PICK p \in Int : a = b + p * m
  BY DEF Same
<1>3. m \in Int
  BY BaseIs, WeightsAre
<1> HIDE DEF m
<1>4. b = a + (-p) * m /\ -p \in Int
  BY <1>1, <1>3
<1> QED BY <1>4 DEF Same, m

LEMMA SameChain ==
  ASSUME NEW a \in Int, NEW b \in Int, NEW c \in Int, Same(a, b), Same(b, c)
  PROVE  Same(a, c)
<1> DEFINE m == MODULUS
<1>1. PICK p \in Int : a = b + p * m
  BY DEF Same
<1>2. PICK q \in Int : b = c + q * m
  BY DEF Same
<1>3. m \in Int
  BY BaseIs, WeightsAre
<1> HIDE DEF m
<1>4. a = c + (p + q) * m /\ p + q \in Int
  BY <1>1, <1>2, <1>3
<1> QED BY <1>4 DEF Same, m

LEMMA SameIs ==
  ASSUME NEW a \in Int, NEW b \in Int, NEW q \in Int, a = b + q * MODULUS
  PROVE  Same(a, b)
BY DEF Same

LEMMA SameAsItself == ASSUME NEW a \in Int PROVE Same(a, a)
<1> DEFINE m == MODULUS
           o == 0
<1>1. m \in Int
  BY BaseIs, WeightsAre
<1>2. a = a + o * m /\ o \in Int
  <2> HIDE DEF m
  <2> QED BY <1>1
<1> HIDE DEF o
<1> QED BY <1>2 DEF Same, m

\* A shift to the left is a product.
LEMMA ShiftLeftSame ==
  ASSUME NEW x \in LongInts, NEW k \in Nat
  PROVE  /\ ShiftLeft(x, k) \in LongInts
         /\ Same(Unsigned(ShiftLeft(x, k)), 2 ^ k * Unsigned(x))
<1> DEFINE n == k \div BITS
           b == k % BITS
           r == ShiftLeft(x, k)
           e == 2 ^ b
           u == Unsigned(x)
           m == MODULUS
<1>1. n \in Nat /\ b \in Nat /\ b \in 0 .. BITS /\ 2 ^ k = e * W(n)
  <2>1. n \in Nat /\ b \in 0 .. BITS - 1 /\ 2 ^ k = e * W(n)
    BY ShiftParts
  <2> HIDE DEF n, b, e
  <2> QED BY <2>1, BaseIs
<1>2. /\ r \in LongInts
      /\ \A i \in Places : r[i] = (IF i > n THEN Kept(x, b, i - n) ELSE 0)
                                   + (IF i > n + 1 THEN Gone(x, b, i - n - 1) ELSE 0)
      /\ \A i \in Places : Gone(x, b, i) \in Nat
  BY ShiftLeftIs
<1>3. e \in Nat \ {0} /\ u \in Nat /\ m \in Nat /\ W(n) \in Nat /\ Unsigned(r) \in Nat /\ m = W(DIGITS)
      /\ DIGITS \in Nat /\ DIGITS >= 1
  BY <1>1, <1>2, BaseParts, BaseIs, UnsignedIs, WeightsAre
<1>4. CASE n < DIGITS
  <2> DEFINE j == DIGITS - n
             g == Gone(x, b, j)
  <2>1. j \in 1 .. DIGITS /\ j \in 0 .. DIGITS - n /\ n + j = DIGITS /\ j # 0 /\ j \in Places /\ j \in 0 .. DIGITS
        /\ j \in Nat
    <3> HIDE DEF n
    <3> QED BY <1>1, <1>3, <1>4 DEF Places
  <2>2. Values(r)[n + j] + (IF j = 0 THEN 0 ELSE Gone(x, b, j)) * W(n + j) = (e * W(n)) * Values(x)[j]
    <3> HIDE DEF j
    <3>1. \A i \in 0 .. DIGITS - n :
            Values(r)[n + i] + (IF i = 0 THEN 0 ELSE Gone(x, b, i)) * W(n + i) = (e * W(n)) * Values(x)[i]
      BY <1>4, ShiftLeftValues
    <3> QED BY <2>1, <3>1
  <2>3. Unsigned(r) + g * m = (e * W(n)) * Values(x)[j] /\ g \in Nat
    <3> HIDE DEF j
    <3>1. Unsigned(r) = Values(r)[DIGITS]
      BY <1>2, UnsignedIs
    <3> QED BY <2>1, <2>2, <3>1, <1>2, <1>3
  <2>4. PICK q \in Nat : u = Values(x)[j] + q * W(j)
    <3> HIDE DEF j
    <3> QED BY <2>1, AboveIs
  <2>5. W(n) * W(j) = m /\ W(j) \in Nat
    <3> HIDE DEF j
    <3>1. W(n + j) = W(n) * W(j)
      BY <2>1, <1>1, WeightsMultiply
    <3> QED BY <3>1, <2>1, <1>3, WeightsAre
  <2>6. Values(x)[j] \in Nat
    <3> HIDE DEF j
    <3> QED BY <2>1, ValuesAre
  <2> DEFINE vx == Values(x)[j]
             wn == W(n)
             wj == W(j)
             ur == Unsigned(r)
             z == g + q * e
  <2>7. /\ ur \in Int /\ g \in Int /\ m \in Int /\ e \in Int /\ wn \in Int /\ wj \in Int /\ vx \in Int /\ u \in Int
        /\ ur + g * m = (e * wn) * vx /\ u = vx + q * wj /\ wn * wj = m /\ q \in Int
    BY <1>3, <2>3, <2>4, <2>5, <2>6
  <2>8. (e * wn) * u = ur + z * m /\ z \in Int /\ (e * wn) * u \in Int
    <3> HIDE DEF vx, wn, wj, ur, m, g, e, u
    <3>1. (e * wn) * u = (e * wn) * vx + (q * e) * (wn * wj)
      BY ONLY <2>7
    <3>2. (e * wn) * u = ur + g * m + (q * e) * m
      BY ONLY <2>7, <3>1
    <3>3. g * m + (q * e) * m = (g + q * e) * m
      BY ONLY <2>7
    <3>4. (e * wn) * u \in Int /\ g * m \in Int /\ (q * e) * m \in Int /\ g + q * e \in Int
      BY ONLY <2>7
    <3> QED BY ONLY <2>7, <3>2, <3>3, <3>4
  <2> DEFINE p == (e * wn) * u
  <2>9. Same(p, ur)
    <3> HIDE DEF p, z, ur, m
    <3> QED BY <2>7, <2>8, SameIs DEF p, m
  <2>10. Same(ur, p)
    <3> HIDE DEF p, ur
    <3> QED BY <2>7, <2>8, <2>9, SameTurns DEF p
  <2> QED BY <2>10, <1>1, <1>2
<1>5. CASE n >= DIGITS
  <2> DEFINE h == n - DIGITS
             wh == W(h)
             wn == W(n)
  <2>1. h \in Nat /\ h + DIGITS = n
    <3> HIDE DEF n
    <3> QED BY <1>1, <1>3, <1>5
  <2>2. wn = wh * m /\ wh \in Nat
    <3> HIDE DEF h, n
    <3>1. W(h + DIGITS) = W(h) * W(DIGITS)
      BY <2>1, <1>3, WeightsMultiply
    <3> QED BY <3>1, <2>1, <1>3, WeightsAre
  <2>3. Unsigned(r) = 0
    <3>1. \A i \in Places : ~ (i > n) /\ ~ (i > n + 1)
      <4> HIDE DEF n
      <4> QED BY <1>1, <1>3, <1>5 DEF Places
    <3>2. \A i \in Places : r[i] = 0
      <4> HIDE DEF n, b, r
      <4>1. \A i \in Places : r[i] = 0 + 0
        BY <1>2, <3>1
      <4> QED BY <4>1
    <3>3. r = ZERO
      <4> HIDE DEF r
      <4>1. r \in [Places -> 0 .. BASE - 1]
        BY <1>2 DEF LongInts
      <4> QED BY <3>2, <4>1 DEF ZERO
    <3> QED BY <3>3, SmallUnsigned
  <2> DEFINE z == (e * wh) * u
             p == (e * wn) * u
             o == 0
  <2>4. p = o + z * m /\ p \in Int /\ z \in Int
    <3> HIDE DEF wh, wn, e, u, m
    <3>1. e \in Int /\ u \in Int /\ m \in Int /\ wh \in Int /\ wn = wh * m
      BY <1>3, <2>2
    <3>2. (e * (wh * m)) * u = ((e * wh) * u) * m /\ (e * (wh * m)) * u \in Int /\ z \in Int
      BY ONLY <3>1
    <3> QED BY ONLY <3>1, <3>2
  <2>5. Same(o, p)
    <3> HIDE DEF p, z, m
    <3> HIDE DEF o
    <3>1. o \in Int
      BY DEF o
    <3>2. Same(p, o)
      BY <3>1, <2>4, SameIs DEF m
    <3> QED BY <3>1, <3>2, <2>4, SameTurns
  <2> QED BY <2>5, <2>3, <1>1, <1>2
<1>6. n < DIGITS \/ n >= DIGITS
  <2> HIDE DEF n
  <2> QED BY <1>1, <1>3
<1> QED BY <1>4, <1>5, <1>6

----------------------------------------------------------------------------
(* Products *)

\* The number of two digits that is made of the product of two digits.
Pair(p) == [n \in Places |-> CASE n = 1 -> p % BASE [] n = 2 -> p \div BASE [] OTHER -> 0]

LEMMA ProductOfDigits ==
  ASSUME NEW d \in 0 .. BASE - 1, NEW g \in 0 .. BASE - 1
  PROVE  /\ d * g \in Nat /\ (d * g) % BASE \in 0 .. BASE - 1 /\ (d * g) \div BASE \in 0 .. BASE - 1
         /\ d * g = ((d * g) % BASE) + ((d * g) \div BASE) * BASE
<1> DEFINE b == BASE
           p == d * g
           q == p \div b
           s == p % b
<1>1. b \in Nat \ {0} /\ b >= 2 /\ d \in 0 .. b - 1 /\ g \in 0 .. b - 1
  BY BaseIs
<1> HIDE DEF b
<1>2. p \in Nat
  BY <1>1
<1>3. PICK h \in Nat : b = g + 1 + h
  <2>1. b - g - 1 \in Nat /\ b = g + 1 + (b - g - 1)
    BY <1>1
  <2> QED BY <2>1
<1>4. PICK j \in Nat : b = d + 1 + j
  <2>1. b - d - 1 \in Nat /\ b = d + 1 + (b - d - 1)
    BY <1>1
  <2> QED BY <2>1
<1>5. b * b = p + d + d * h + (1 + j) * b /\ d * h \in Nat /\ (1 + j) * b \in Nat
  <2>1. b * b = d * b + (1 + j) * b
    BY <1>1, <1>4
  <2>2. d * b = d * g + d + d * h
    BY <1>1, <1>3
  <2>3. d * h \in Nat /\ (1 + j) * b \in Nat
    BY <1>1, <1>3, <1>4
  <2> QED BY <2>1, <2>2, <2>3, <1>1
<1>6. (1 + j) * b = b + j * b /\ j * b \in Nat /\ b * b \in Nat
  BY ONLY <1>1, j \in Nat
<1>7. p < b * b
  <2> HIDE DEF p
  <2> DEFINE bb == b * b
             dh == d * h
             jb == j * b
  <2>1. bb = p + d + dh + b + jb /\ dh \in Nat /\ jb \in Nat /\ bb \in Nat /\ d \in Nat
    <3> DEFINE z == (1 + j) * b
    <3>1. /\ bb = p + d + dh + z /\ z = b + jb /\ dh \in Nat /\ jb \in Nat /\ bb \in Nat /\ d \in Nat
          /\ z \in Nat
      BY <1>1, <1>5, <1>6
    <3> HIDE DEF z, bb, dh, jb
    <3> QED BY <3>1, <1>1, <1>2
  <2> HIDE DEF bb, dh, jb
  <2>2. p < bb
    BY <2>1, <1>1, <1>2
  <2> QED BY <2>2 DEF bb
<1> HIDE DEF p
<1>8. q \in Nat /\ s \in 0 .. b - 1 /\ p = q * b + s
  BY ONLY <1>1, <1>2, DivisionIs
<1> HIDE DEF q, s
<1>9. q < b
  <2>1. ASSUME q >= b PROVE FALSE
    <3>1. q - b \in Nat
      BY <2>1, <1>1, <1>8
    <3>2. q * b = b * b + (q - b) * b /\ (q - b) * b \in Nat
      BY <3>1, <1>1, <1>8
    <3> QED BY <3>2, <1>6, <1>7, <1>8, <1>1, <1>2
  <2> QED BY <2>1, <1>1, <1>8
<1>10. q \in 0 .. b - 1 /\ q * b \in Nat
  BY <1>9, <1>8, <1>1
<1> QED BY <1>2, <1>8, <1>10 DEF p, q, s, b

LEMMA PairIs ==
  ASSUME NEW d \in 0 .. BASE - 1, NEW g \in 0 .. BASE - 1
  PROVE  /\ Pair(d * g) \in LongInts
         /\ Same(Unsigned(Pair(d * g)), d * g)
<1> DEFINE b == BASE
           p == d * g
           q == p \div b
           s == p % b
           r == Pair(p)
<1>1. p \in Nat /\ s \in 0 .. b - 1 /\ q \in 0 .. b - 1 /\ p = s + q * b
  BY ProductOfDigits
<1>2. b \in Nat /\ b >= 2 /\ DIGITS \in Nat /\ DIGITS >= 1 /\ BASE = b
  BY BaseIs
<1>3. r = [n \in Places |-> CASE n = 1 -> s [] n = 2 -> q [] OTHER -> 0]
  BY DEF Pair
<1> HIDE DEF p, q, s, r, b
<1>4. r \in LongInts
  BY <1>1, <1>2, <1>3 DEF LongInts
<1>5. 1 \in Places /\ 1 - 1 = 0 /\ r[1] = s
  BY <1>2, <1>3 DEF Places
<1>6. Values(r)[1] = s
  <2>1. Values(r)[1] = Values(r)[0] + r[1] * W(0) /\ Values(r)[0] = 0 /\ W(0) = 1
    BY <1>4, <1>5, ValuesAre, WeightsAre
  <2>2. s * 1 = s /\ 0 + s = s
    BY <1>1, <1>2
  <2> QED BY <2>1, <2>2, <1>5
<1>7. CASE DIGITS = 1
  <2>1. Unsigned(r) = s /\ MODULUS = b
    <3>1. MODULUS = W(0 + 1) /\ W(0 + 1) = BASE * W(0) /\ W(0) = 1
      BY <1>7, BaseIs, WeightsAre
    <3> QED BY <1>7, <1>4, <1>6, <3>1, <1>2, UnsignedIs
  <2>2. p = s + q * MODULUS /\ s \in Int /\ q \in Int /\ p \in Int
    BY <2>1, <1>1, <1>2
  <2>3. Same(p, s)
    BY <2>2, SameIs
  <2> QED BY <2>1, <2>2, <2>3, <1>4, SameTurns DEF p, r
<1>8. CASE DIGITS > 1
  <2> DEFINE P == {i \in 2 .. DIGITS : Values(r)[i] = p}
  <2>1. 2 \in P
    <3>1. 2 \in Places /\ 2 - 1 = 1 /\ r[2] = q /\ 1 = 0 + 1
      BY <1>2, <1>3, <1>8 DEF Places
    <3>2. Values(r)[2] = Values(r)[1] + r[2] * W(1)
      BY <3>1, <1>4, ValuesAre
    <3>3. W(1) = b
      <4>1. W(0 + 1) = BASE * W(0) /\ W(0) = 1
        BY WeightsAre
      <4> QED BY <4>1, <1>2
    <3> QED BY <3>1, <3>2, <3>3, <1>1, <1>6, <1>8, <1>2
  <2>2. ASSUME NEW i \in 2 .. DIGITS - 1, i \in P PROVE i + 1 \in P
    <3>1. i + 1 \in Places /\ (i + 1) - 1 = i /\ i \in Nat /\ i + 1 \in 2 .. DIGITS /\ i + 1 # 1 /\ i + 1 # 2
      BY <1>2 DEF Places
    <3>2. Values(r)[i + 1] = Values(r)[i] + r[i + 1] * W(i)
      BY <3>1, <1>4, ValuesAre
    <3>3. r[i + 1] = 0 /\ W(i) \in Nat /\ Values(r)[i] = p
      BY <3>1, <1>3, <2>2, WeightsAre
    <3>4. 0 * W(i) = 0
      BY <3>3
    <3>5. Values(r)[i + 1] = p
      BY <3>2, <3>3, <3>4, <1>1
    <3> QED BY <3>5, <3>1
  <2> HIDE DEF P
  <2>3. \A i \in 2 .. DIGITS : i \in P
    <3> DEFINE two == 2
    <3>1. two \in Nat /\ two \in P /\ \A i \in two .. DIGITS - 1 : i \in P => i + 1 \in P
      BY <2>1, <2>2
    <3> HIDE DEF two
    <3>2. \A i \in two .. DIGITS : i \in P
      BY <3>1, <1>2, StepByStep
    <3> QED BY <3>2 DEF two
  <2>4. Unsigned(r) = p
    <3>1. DIGITS \in 2 .. DIGITS
      BY <1>2, <1>8
    <3> QED BY <3>1, <2>3, <1>4, UnsignedIs DEF P
  <2>5. p \in Int
    BY <1>1
  <2> QED BY <2>4, <2>5, <1>4, SameAsItself DEF p, r
<1> QED BY <1>2, <1>7, <1>8

\* It is shifted to where the product of the two belongs.
LEMMA PairProductIs ==
  ASSUME NEW x \in LongInts, NEW y \in LongInts, NEW i \in Places, NEW j \in Places
  PROVE  /\ PairProduct(x, y, i, j) \in LongInts
         /\ Same(Unsigned(PairProduct(x, y, i, j)), (x[i] * W(i - 1)) * (y[j] * W(j - 1)))
<1> DEFINE d == x[i]
           g == y[j]
           k == (i + j - 2) * BITS
           r == PairProduct(x, y, i, j)
           q == Pair(d * g)
           wi == W(i - 1)
           wj == W(j - 1)
           p == d * g
<1>1. d \in 0 .. BASE - 1 /\ g \in 0 .. BASE - 1
  BY DEF LongInts
<1>2. /\ i \in Nat /\ j \in Nat /\ i - 1 \in Nat /\ j - 1 \in Nat /\ (i - 1) + (j - 1) = i + j - 2
      /\ k \in Nat /\ BITS * (i + j - 2) = k
  <2>1. i \in Nat /\ j \in Nat /\ i >= 1 /\ j >= 1 /\ BITS \in Nat
    BY BaseIs DEF Places
  <2>2. i + j - 2 \in Nat /\ i - 1 \in Nat /\ j - 1 \in Nat /\ (i - 1) + (j - 1) = i + j - 2
    BY <2>1
  <2> DEFINE n == i + j - 2
  <2> HIDE DEF n
  <2>3. n \in Nat => n * BITS \in Nat /\ BITS * n = n * BITS
    BY <2>1
  <2> QED BY <2>1, <2>2, <2>3 DEF n
<1>3. 2 ^ k = wi * wj /\ wi \in Nat /\ wj \in Nat
  <2>1. W((i - 1) + (j - 1)) = wi * wj /\ W(i + j - 2) = 2 ^ (BITS * (i + j - 2)) /\ wi \in Nat /\ wj \in Nat
    BY <1>2, WeightsMultiply, WeightsAre DEF W
  <2> HIDE DEF wi, wj
  <2> QED BY <2>1, <1>2
<1>4. q \in LongInts /\ Same(Unsigned(q), p)
  BY <1>1, PairIs
<1>5. r = ShiftLeft(q, k)
  BY DEF PairProduct, Pair
<1> HIDE DEF q, k, r, wi, wj
<1>6. r \in LongInts /\ Same(Unsigned(r), 2 ^ k * Unsigned(q))
  BY <1>2, <1>4, <1>5, ShiftLeftSame
<1> DEFINE c == 2 ^ k
           u == Unsigned(q)
           ur == Unsigned(r)
<1>7. c \in Int /\ u \in Int /\ ur \in Int /\ p \in Int /\ d \in Int /\ g \in Int
  <2>1. d \in Nat /\ g \in Nat
    BY <1>1, BaseIs
  <2>2. d * g \in Nat
    <3> HIDE DEF d, g
    <3> QED BY <2>1
  <2>3. 2 ^ k \in Nat
    BY <1>2, PowerStep
  <2> QED BY <2>1, <2>2, <2>3, <1>4, <1>6, UnsignedIs
<1>8. Same(c * u, c * p)
  <2> HIDE DEF c, u, p
  <2> QED BY <1>4, <1>7, SameTimes DEF u
<1>9. c * u \in Int /\ c * p \in Int
  <2> HIDE DEF c, u, p
  <2> QED BY <1>7
<1>10. Same(ur, c * p)
  <2> DEFINE v == c * u
             z == c * p
  <2>1. ur \in Int /\ v \in Int /\ z \in Int /\ Same(ur, v) /\ Same(v, z)
    BY <1>6, <1>7, <1>8, <1>9
  <2> HIDE DEF v, z, ur
  <2>2. Same(ur, z)
    BY <2>1, SameChain
  <2> QED BY <2>2 DEF z
<1>11. c * p = (d * wi) * (g * wj)
  <2>1. c = wi * wj
    BY <1>3
  <2> HIDE DEF c, d, g
  <2> QED BY <2>1, <1>3, <1>7
<1> QED BY <1>6, <1>10, <1>11 DEF r, wi, wj

\* The products of one digit, added to what was there.
LEMMA RowIs ==
  ASSUME NEW x \in LongInts, NEW y \in LongInts, NEW i \in Places, NEW before \in LongInts
  PROVE  /\ Row(x, y, i, before) \in [0 .. DIGITS -> LongInts] /\ Row(x, y, i, before)[0] = before
         /\ \A j \in Places :
              Row(x, y, i, before)[j] = Plus(Row(x, y, i, before)[j - 1], PairProduct(x, y, i, j))
<1> DEFINE G == [j \in 1 .. DIGITS |-> [v \in LongInts |-> Plus(v, PairProduct(x, y, i, j))]]
           F(f) == [j \in 0 .. DIGITS |-> IF j = 0 THEN before ELSE Plus(f[j - 1], PairProduct(x, y, i, j))]
           h == CHOOSE f : f = F(f)
<1>1. DIGITS \in Nat /\ Places = 1 .. DIGITS
  BY BaseIs DEF Places
<1>2. G \in [1 .. DIGITS -> [LongInts -> LongInts]]
  BY <1>1, PairProductIs, PlusIs
<1>3. \A j \in 1 .. DIGITS, v \in LongInts : G[j][v] = Plus(v, PairProduct(x, y, i, j))
  OBVIOUS
<1> HIDE DEF G
<1>4. PICK f \in [0 .. DIGITS -> LongInts] : f[0] = before /\ \A j \in 1 .. DIGITS : f[j] = G[j][f[j - 1]]
  <2> DEFINE S == LongInts
  <2>1. before \in S /\ G \in [1 .. DIGITS -> [S -> S]]
    BY <1>2
  <2> HIDE DEF S
  <2>2. \E f \in [0 .. DIGITS -> S] : f[0] = before /\ \A j \in 1 .. DIGITS : f[j] = G[j][f[j - 1]]
    BY ONLY <2>1, <1>1, RecursionHasValue
  <2> QED BY <2>2 DEF S
<1>5. f = F(f)
  <2>1. \A j \in 1 .. DIGITS : f[j - 1] \in LongInts
    BY <1>1, <1>4
  <2>2. \A j \in 0 .. DIGITS : j # 0 => j \in 1 .. DIGITS
    BY <1>1
  <2> QED BY <1>3, <1>4, <2>1, <2>2
<1>6. h = F(h)
  BY <1>5
<1>7. Row(x, y, i, before) = h
  BY DEF Row
<1> HIDE DEF h
<1>8. /\ h[0] = before
      /\ \A j \in Places : h[j] = Plus(h[j - 1], PairProduct(x, y, i, j))
  <2>1. 0 \in 0 .. DIGITS /\ \A j \in Places : j \in 0 .. DIGITS /\ j # 0
    BY <1>1
  <2> QED BY <1>6, <2>1
<1>9. \A j \in 0 .. DIGITS : h[j] \in LongInts
  <2> DEFINE P == {j \in 0 .. DIGITS : h[j] \in LongInts}
             o == 0
  <2>1. o \in Nat /\ o \in P
    BY <1>1, <1>8
  <2>2. ASSUME NEW j \in o .. DIGITS - 1, j \in P PROVE j + 1 \in P
    <3>1. j + 1 \in Places /\ (j + 1) - 1 = j /\ j + 1 \in 0 .. DIGITS
      BY <1>1 DEF Places
    <3> DEFINE n == j + 1
    <3> HIDE DEF n
    <3>2. h[j] \in LongInts /\ n \in Places /\ n - 1 = j /\ n \in 0 .. DIGITS
      BY <3>1, <2>2 DEF n
    <3>3. h[n] = Plus(h[j], PairProduct(x, y, i, n))
      BY <3>2, <1>8
    <3>4. h[n] \in LongInts
      <4> DEFINE r == PairProduct(x, y, i, n)
      <4>1. r \in LongInts
        BY <3>2, PairProductIs
      <4> HIDE DEF r
      <4>2. Plus(h[j], r) \in LongInts
        BY <3>2, <4>1, PlusIs
      <4> QED BY <4>2, <3>3 DEF r
    <3> QED BY <3>2, <3>4 DEF n
  <2> HIDE DEF P, o
  <2>3. \A j \in o .. DIGITS : j \in P
    BY <2>1, <2>2, <1>1, StepByStep
  <2> QED BY <2>3 DEF P, o
<1> QED BY <1>6, <1>7, <1>8, <1>9

LEMMA RowSame ==
  ASSUME NEW x \in LongInts, NEW y \in LongInts, NEW i \in Places, NEW before \in LongInts
  PROVE  /\ Row(x, y, i, before)[DIGITS] \in LongInts
         /\ Same(Unsigned(Row(x, y, i, before)[DIGITS]), Unsigned(before) + (x[i] * W(i - 1)) * Unsigned(y))
<1> DEFINE s == Row(x, y, i, before)
           u == Unsigned(before)
           c == x[i] * W(i - 1)
           P == {j \in 0 .. DIGITS : Same(Unsigned(s[j]), u + c * Values(y)[j])}
           o == 0
<1>1. DIGITS \in Nat /\ DIGITS >= 1 /\ u \in Int /\ c \in Int
  <2>1. x[i] \in Nat /\ W(i - 1) \in Nat
    <3>1. i - 1 \in Nat
      BY BaseIs DEF Places
    <3> QED BY <3>1, BaseIs, WeightsAre DEF LongInts
  <2> QED BY <2>1, BaseIs, UnsignedIs
<1>2. /\ s \in [0 .. DIGITS -> LongInts] /\ s[0] = before
      /\ \A j \in Places : s[j] = Plus(s[j - 1], PairProduct(x, y, i, j))
  BY RowIs
<1> HIDE DEF c, s
<1>3. o \in P
  <2>1. Values(y)[0] = 0
    BY ValuesAre
  <2>2. u = u + c * 0
    <3> HIDE DEF u
    <3> QED BY <1>1
  <2>3. Same(u, u)
    <3> HIDE DEF u
    <3> QED BY <1>1, SameAsItself
  <2> QED BY <2>1, <2>2, <2>3, <1>1, <1>2
<1>4. ASSUME NEW j \in o .. DIGITS - 1, j \in P PROVE j + 1 \in P
  <2> DEFINE h == j + 1
             r == PairProduct(x, y, i, h)
             v == s[j]
             t == y[h] * W(j)
             uv == Unsigned(v)
             ur == Unsigned(r)
             w == Unsigned(s[h])
             vy == Values(y)[j]
  <2>1. h \in Places /\ h - 1 = j /\ h \in 0 .. DIGITS /\ j \in 0 .. DIGITS /\ j \in Nat
    BY <1>1 DEF Places
  <2> HIDE DEF h
  <2>2. r \in LongInts /\ v \in LongInts /\ s[h] = Plus(v, r) /\ s[h] \in LongInts
    BY <2>1, <1>2, PairProductIs
  <2>3. Same(ur, c * t)
    BY <2>1, PairProductIs DEF c
  <2>4. Same(uv, u + c * vy)
    BY <1>4
  <2>5. Values(y)[h] = vy + t /\ vy \in Int
    <3>1. Values(y)[h] = Values(y)[h - 1] + y[h] * W(h - 1)
      BY <2>1, ValuesAre
    <3>2. vy \in Int
      <4>1. Values(y)[j] \in Nat
        BY <2>1, ValuesAre
      <4> QED BY <4>1
    <3> QED BY <3>1, <3>2, <2>1
  <2>6. t \in Int
    <3>1. y[h] \in Nat /\ W(j) \in Nat
      BY <2>1, BaseIs, WeightsAre DEF LongInts
    <3> QED BY <3>1
  <2>7. \E e \in {0, 1} : uv + ur = w + e * MODULUS
    BY <2>2, PlusUnsigned
  <2>8. uv \in Int /\ ur \in Int /\ w \in Int
    BY <2>2, UnsignedIs
  <2> HIDE DEF r, v, t, uv, ur, w, vy, u
  <2>9. Same(w, uv + ur)
    <3>1. PICK e \in {0, 1} : uv + ur = w + e * MODULUS
      BY <2>7
    <3>2. e \in Int /\ uv + ur \in Int
      BY <2>8
    <3>3. Same(uv + ur, w)
      BY <3>1, <3>2, <2>8, SameIs
    <3> QED BY <3>2, <3>3, <2>8, SameTurns
  <2>10. u + c * vy \in Int /\ c * t \in Int /\ (u + c * vy) + c * t = u + c * (vy + t) /\ u + c * (vy + t) \in Int
    BY <1>1, <2>5, <2>6
  <2>11. Same(uv + ur, (u + c * vy) + c * t)
    <3> DEFINE p == u + c * vy
               q == c * t
    <3>1. p \in Int /\ q \in Int /\ Same(uv, p) /\ Same(ur, q)
      BY <2>3, <2>4, <2>10
    <3> HIDE DEF p, q
    <3>2. Same(uv + ur, p + q)
      BY <3>1, <2>8, SamePlus
    <3> QED BY <3>2 DEF p, q
  <2>12. Same(w, u + c * (vy + t))
    <3> DEFINE p == uv + ur
               q == u + c * (vy + t)
    <3>1. p \in Int /\ q \in Int /\ Same(w, p) /\ Same(p, q)
      BY <2>8, <2>9, <2>10, <2>11
    <3> HIDE DEF p, q
    <3>2. Same(w, q)
      BY <3>1, <2>8, SameChain
    <3> QED BY <3>2 DEF q
  <2>13. Same(Unsigned(s[h]), u + c * Values(y)[h])
    BY <2>12, <2>5 DEF w
  <2> QED BY <2>13, <2>1 DEF h
<1> HIDE DEF P
<1>5. \A j \in 0 .. DIGITS : j \in P
  <2>1. o \in Nat
    OBVIOUS
  <2> HIDE DEF o
  <2>2. \A j \in o .. DIGITS : j \in P
    BY <2>1, <1>1, <1>3, <1>4, StepByStep
  <2> QED BY <2>2 DEF o
<1>6. DIGITS \in 0 .. DIGITS
  BY <1>1
<1> QED BY <1>2, <1>5, <1>6, UnsignedIs DEF P, s, c

\* All of them.
LEMMA RowsAre ==
  ASSUME NEW x \in LongInts, NEW y \in LongInts
  PROVE  /\ Rows(x, y) \in [0 .. DIGITS -> LongInts] /\ Rows(x, y)[0] = ZERO
         /\ \A i \in Places : Rows(x, y)[i] = Row(x, y, i, Rows(x, y)[i - 1])[DIGITS]
<1> DEFINE G == [i \in 1 .. DIGITS |-> [v \in LongInts |-> Row(x, y, i, v)[DIGITS]]]
           F(f) == [i \in 0 .. DIGITS |-> IF i = 0 THEN ZERO ELSE Row(x, y, i, f[i - 1])[DIGITS]]
           h == CHOOSE f : f = F(f)
<1>1. DIGITS \in Nat /\ Places = 1 .. DIGITS
  BY BaseIs DEF Places
<1>2. G \in [1 .. DIGITS -> [LongInts -> LongInts]]
  BY <1>1, RowSame
<1>3. \A i \in 1 .. DIGITS, v \in LongInts : G[i][v] = Row(x, y, i, v)[DIGITS]
  OBVIOUS
<1> HIDE DEF G
<1>4. PICK f \in [0 .. DIGITS -> LongInts] : f[0] = ZERO /\ \A i \in 1 .. DIGITS : f[i] = G[i][f[i - 1]]
  <2> DEFINE S == LongInts
  <2>1. ZERO \in S /\ G \in [1 .. DIGITS -> [S -> S]]
    BY <1>2, SmallNumbers
  <2> HIDE DEF S
  <2>2. ASSUME NEW z \in S PROVE \E f \in [0 .. DIGITS -> S] : f[0] = z /\ \A i \in 1 .. DIGITS : f[i] = G[i][f[i - 1]]
    BY ONLY <2>1, <1>1, RecursionHasValue
  <2>3. \E f \in [0 .. DIGITS -> S] : f[0] = ZERO /\ \A i \in 1 .. DIGITS : f[i] = G[i][f[i - 1]]
    BY ONLY <2>1, <2>2, Zenon
  <2> QED BY <2>3 DEF S
<1>5. f = F(f)
  <2>1. \A i \in 1 .. DIGITS : f[i - 1] \in LongInts
    BY <1>1, <1>4
  <2>2. \A i \in 0 .. DIGITS : i # 0 => i \in 1 .. DIGITS
    BY <1>1
  <2> QED BY <1>3, <1>4, <2>1, <2>2
<1>6. h = F(h)
  BY <1>5
<1>7. Rows(x, y) = h
  BY DEF Rows
<1> HIDE DEF h
<1>8. /\ h[0] = ZERO
      /\ \A i \in Places : h[i] = Row(x, y, i, h[i - 1])[DIGITS]
  <2>1. 0 \in 0 .. DIGITS /\ \A i \in Places : i \in 0 .. DIGITS /\ i # 0
    BY <1>1
  <2> QED BY <1>6, <2>1
<1>9. \A i \in 0 .. DIGITS : h[i] \in LongInts
  <2> DEFINE P == {i \in 0 .. DIGITS : h[i] \in LongInts}
             o == 0
  <2>1. o \in Nat /\ o \in P
    BY <1>1, <1>8, SmallNumbers
  <2>2. ASSUME NEW i \in o .. DIGITS - 1, i \in P PROVE i + 1 \in P
    <3>1. i + 1 \in Places /\ (i + 1) - 1 = i /\ i + 1 \in 0 .. DIGITS
      BY <1>1 DEF Places
    <3> DEFINE n == i + 1
    <3> HIDE DEF n
    <3>2. h[i] \in LongInts /\ n \in Places /\ n - 1 = i /\ n \in 0 .. DIGITS
      BY <3>1, <2>2 DEF n
    <3>3. h[n] = Row(x, y, n, h[i])[DIGITS]
      BY <3>2, <1>8
    <3>4. h[n] \in LongInts
      BY <3>2, <3>3, RowSame
    <3> QED BY <3>2, <3>4 DEF n
  <2> HIDE DEF P, o
  <2>3. \A i \in o .. DIGITS : i \in P
    BY <2>1, <2>2, <1>1, StepByStep
  <2> QED BY <2>3 DEF P, o
<1> QED BY <1>6, <1>7, <1>8, <1>9

LEMMA RowsSame ==
  ASSUME NEW x \in LongInts, NEW y \in LongInts
  PROVE  /\ Rows(x, y)[DIGITS] \in LongInts
         /\ Same(Unsigned(Rows(x, y)[DIGITS]), Unsigned(x) * Unsigned(y))
<1> DEFINE s == Rows(x, y)
           u == Unsigned(y)
           P == {i \in 0 .. DIGITS : Same(Unsigned(s[i]), Values(x)[i] * u)}
           o == 0
<1>1. DIGITS \in Nat /\ DIGITS >= 1 /\ u \in Int
  BY BaseIs, UnsignedIs
<1>2. /\ s \in [0 .. DIGITS -> LongInts] /\ s[0] = ZERO
      /\ \A i \in Places : s[i] = Row(x, y, i, s[i - 1])[DIGITS]
  BY RowsAre
<1> HIDE DEF s
<1>3. o \in P
  <2>1. Values(x)[0] = 0 /\ Unsigned(s[0]) = 0
    BY ValuesAre, SmallUnsigned, <1>2
  <2>2. 0 * u = 0
    <3> HIDE DEF u
    <3> QED BY <1>1
  <2>3. Same(0, 0)
    BY SameAsItself
  <2> QED BY <2>1, <2>2, <2>3, <1>1
<1>4. ASSUME NEW i \in o .. DIGITS - 1, i \in P PROVE i + 1 \in P
  <2> DEFINE h == i + 1
             v == s[i]
             c == x[h] * W(i)
             uv == Unsigned(v)
             w == Unsigned(s[h])
             vx == Values(x)[i]
  <2>1. h \in Places /\ h - 1 = i /\ h \in 0 .. DIGITS /\ i \in 0 .. DIGITS /\ i \in Nat
    BY <1>1 DEF Places
  <2> HIDE DEF h
  <2>2. v \in LongInts /\ s[h] = Row(x, y, h, v)[DIGITS] /\ s[h] \in LongInts
    BY <2>1, <1>2
  <2>3. Same(w, uv + c * u)
    <3>1. Same(Unsigned(Row(x, y, h, v)[DIGITS]), Unsigned(v) + (x[h] * W(h - 1)) * Unsigned(y))
      BY <2>1, <2>2, RowSame
    <3> QED BY <3>1, <2>1, <2>2
  <2>4. Same(uv, vx * u)
    BY <1>4
  <2>5. Values(x)[h] = vx + c /\ vx \in Int
    <3>1. Values(x)[h] = Values(x)[h - 1] + x[h] * W(h - 1)
      BY <2>1, ValuesAre
    <3>2. vx \in Int
      <4>1. Values(x)[i] \in Nat
        BY <2>1, ValuesAre
      <4> QED BY <4>1
    <3> QED BY <3>1, <3>2, <2>1
  <2>6. c \in Int
    <3>1. x[h] \in Nat /\ W(i) \in Nat
      BY <2>1, BaseIs, WeightsAre DEF LongInts
    <3> QED BY <3>1
  <2>7. uv \in Int /\ w \in Int
    BY <2>2, UnsignedIs
  <2> HIDE DEF v, c, uv, w, vx, u
  <2>8. vx * u \in Int /\ c * u \in Int /\ vx * u + c * u = (vx + c) * u /\ uv + c * u \in Int /\ (vx + c) * u \in Int
    BY <1>1, <2>5, <2>6, <2>7
  <2>9. Same(uv + c * u, (vx + c) * u)
    <3> DEFINE p == vx * u
               q == c * u
    <3>1. p \in Int /\ q \in Int /\ Same(uv, p) /\ Same(q, q) /\ p + q = (vx + c) * u
      BY <2>4, <2>8, SameAsItself
    <3>2. Same(uv + q, p + q)
      <4> HIDE DEF p, q
      <4> QED BY <3>1, <2>7, SamePlus
    <3> QED BY <3>1, <3>2
  <2>10. Same(w, (vx + c) * u)
    <3> DEFINE p == uv + c * u
               q == (vx + c) * u
    <3>1. p \in Int /\ q \in Int /\ Same(w, p) /\ Same(p, q)
      BY <2>3, <2>8, <2>9
    <3> HIDE DEF p, q
    <3>2. Same(w, q)
      BY <3>1, <2>7, SameChain
    <3> QED BY <3>2 DEF q
  <2>11. Same(Unsigned(s[h]), Values(x)[h] * u)
    BY <2>10, <2>5 DEF w
  <2> QED BY <2>11, <2>1 DEF h
<1> HIDE DEF P
<1>5. \A i \in 0 .. DIGITS : i \in P
  <2>1. o \in Nat
    OBVIOUS
  <2> HIDE DEF o
  <2>2. \A i \in o .. DIGITS : i \in P
    BY <2>1, <1>1, <1>3, <1>4, StepByStep
  <2> QED BY <2>2 DEF o
<1>6. DIGITS \in 0 .. DIGITS
  BY <1>1
<1> QED BY <1>2, <1>5, <1>6, UnsignedIs DEF P, s

----------------------------------------------------------------------------
(* The arithmetic operators modulo 2 to the width *)

LEMMA ModulusIs == MODULUS \in Nat \ {0} /\ MODULUS \in Int
BY BaseIs, WeightsAre

LEMMA SameProducts ==
  ASSUME NEW a \in Int, NEW b \in Int, NEW c \in Int, NEW d \in Int, Same(a, b), Same(c, d)
  PROVE  Same(a * c, b * d)
<1> DEFINE p == a * c
           q == a * d
           r == b * d
<1>1. Same(p, q)
  BY SameTimes
<1>2. Same(q, r)
  <2>1. Same(d * a, d * b)
    BY SameTimes
  <2>2. d * a = q /\ d * b = r
    OBVIOUS
  <2> QED BY <2>1, <2>2
<1>3. p \in Int /\ q \in Int /\ r \in Int
  OBVIOUS
<1> HIDE DEF p, q, r
<1>4. Same(p, r)
  BY <1>1, <1>2, <1>3, SameChain
<1> QED BY <1>4 DEF p, r

LEMMA SameDifferences ==
  ASSUME NEW a \in Int, NEW b \in Int, NEW c \in Int, NEW d \in Int, Same(a, b), Same(c, d)
  PROVE  Same(a - c, b - d)
<1> DEFINE p == -c
           q == -d
<1>1. Same(p, q) /\ p \in Int /\ q \in Int /\ a + p = a - c /\ b + q = b - d
  BY SameNegative
<1> HIDE DEF p, q
<1>2. Same(a + p, b + q)
  BY <1>1, SamePlus
<1> QED BY <1>1, <1>2

\* A number and its value with a sign.
LEMMA SignedSame ==
  ASSUME NEW kind, NEW x \in LongInts
  PROVE  /\ Signed(kind, x) \in Int /\ Unsigned(x) \in Int
         /\ Same(Unsigned(x), Signed(kind, x)) /\ Same(Signed(kind, x), Unsigned(x))
<1> DEFINE u == Unsigned(x)
           s == Signed(kind, x)
           c == Negative(kind, x)
<1>1. s \in Int /\ u \in Int /\ c \in {0, 1} /\ u = s + c * MODULUS
  BY SignedIs, UnsignedIs
<1> HIDE DEF u, s, c
<1>2. c \in Int
  BY <1>1
<1>3. Same(u, s)
  BY <1>1, <1>2, SameIs
<1>4. Same(s, u)
  BY <1>1, <1>3, SameTurns
<1> QED BY <1>1, <1>3, <1>4 DEF u, s

LEMMA SignedResult ==
  ASSUME NEW kind, NEW r \in LongInts, NEW v \in Int, Same(Unsigned(r), v)
  PROVE  Same(Signed(kind, r), v)
BY SignedSame, SameChain

LEMMA PlusSame ==
  ASSUME NEW x \in LongInts, NEW y \in LongInts
  PROVE  Plus(x, y) \in LongInts /\ Same(Unsigned(Plus(x, y)), Unsigned(x) + Unsigned(y))
<1> DEFINE r == Plus(x, y)
           u == Unsigned(r)
           v == Unsigned(x) + Unsigned(y)
<1>1. r \in LongInts
  BY PlusIs
<1>2. PICK c \in {0, 1} : v = u + c * MODULUS
  BY PlusUnsigned
<1>3. u \in Int /\ v \in Int /\ c \in Int
  <2> HIDE DEF r
  <2>1. Unsigned(x) \in Int /\ Unsigned(y) \in Int /\ u \in Int
    BY <1>1, UnsignedIs
  <2> QED BY <2>1
<1> HIDE DEF u, v, r
<1>4. Same(v, u)
  BY <1>2, <1>3, SameIs
<1>5. Same(u, v)
  BY <1>3, <1>4, SameTurns
<1> QED BY <1>1, <1>5 DEF r, u, v

LEMMA MinusSame ==
  ASSUME NEW x \in LongInts, NEW y \in LongInts
  PROVE  Minus(x, y) \in LongInts /\ Same(Unsigned(Minus(x, y)), Unsigned(x) - Unsigned(y))
<1> DEFINE r == Minus(x, y)
           u == Unsigned(r)
           v == Unsigned(x) - Unsigned(y)
<1>1. r \in LongInts
  BY MinusIs
<1>2. PICK c \in {0, 1} : v = u - c * MODULUS
  BY MinusUnsigned
<1>3. u \in Int /\ v \in Int /\ c \in Int
  <2> HIDE DEF r
  <2>1. Unsigned(x) \in Int /\ Unsigned(y) \in Int /\ u \in Int
    BY <1>1, UnsignedIs
  <2> QED BY <2>1
<1> HIDE DEF u, v, r
<1>4. u = v + c * MODULUS
  <2> DEFINE z == c * MODULUS
  <2>1. z \in Int /\ v = u - z
    BY <1>2, <1>3, ModulusIs
  <2> HIDE DEF z
  <2>2. u = v + z
    BY <2>1, <1>3
  <2> QED BY <2>2 DEF z
<1>5. Same(u, v)
  BY <1>3, <1>4, SameIs
<1> QED BY <1>1, <1>5 DEF r, u, v

LEMMA NegateSame ==
  ASSUME NEW x \in LongInts
  PROVE  Negate(x) \in LongInts /\ Same(Unsigned(Negate(x)), -Unsigned(x))
<1> DEFINE r == Negate(x)
           u == Unsigned(r)
           ux == Unsigned(x)
           v == -ux
<1>1. r \in LongInts
  BY NegateUnsigned
<1>2. PICK c \in {0, 1} : u = c * MODULUS - ux
  BY NegateUnsigned
<1>3. u \in Int /\ ux \in Int /\ v \in Int /\ c \in Int
  <2> HIDE DEF r
  <2>1. ux \in Int /\ u \in Int
    BY <1>1, UnsignedIs
  <2> QED BY <2>1
<1> HIDE DEF u, ux, r
<1>4. u = v + c * MODULUS
  <2> DEFINE z == c * MODULUS
  <2>1. z \in Int /\ u = z - ux
    BY <1>2, <1>3, ModulusIs
  <2> HIDE DEF z
  <2>2. u = v + z
    BY <2>1, <1>3
  <2> QED BY <2>2 DEF z
<1> HIDE DEF v
<1>5. Same(u, v)
  BY <1>3, <1>4, SameIs
<1> QED BY <1>1, <1>5 DEF r, u, v, ux

LEMMA ComplementSame ==
  ASSUME NEW x \in LongInts
  PROVE  Complement(x) \in LongInts /\ Same(Unsigned(Complement(x)), -Unsigned(x) - 1)
<1> DEFINE r == Complement(x)
           u == Unsigned(r)
           ux == Unsigned(x)
           m == MODULUS
           one == 1
<1>1. r \in LongInts /\ u = m - 1 - ux
  BY ComplementUnsigned
<1>2. u \in Int /\ ux \in Int /\ m \in Int
  <2> HIDE DEF r
  <2> QED BY <1>1, UnsignedIs, ModulusIs
<1> HIDE DEF u, ux, r, m
<1> DEFINE v == -ux - 1
<1>3. u = v + one * m /\ v \in Int /\ one \in Int
  BY <1>1, <1>2
<1> HIDE DEF v, one
<1>4. Same(u, v)
  BY <1>2, <1>3, SameIs DEF m
<1> QED BY <1>1, <1>4 DEF r, u, ux, v

\* The absolute value, and the sign that makes the number of it.
LEMMA AbsoluteSame ==
  ASSUME NEW kind, NEW x \in LongInts
  PROVE  /\ AbsoluteOf(kind, x) \in LongInts
         /\ Same(Unsigned(AbsoluteOf(kind, x)),
                 IF is_negative(kind, x) THEN -Signed(kind, x) ELSE Signed(kind, x))
<1> DEFINE s == Signed(kind, x)
           u == Unsigned(x)
<1>1. s \in Int /\ u \in Int /\ Same(u, s)
  BY SignedSame
<1>2. CASE is_negative(kind, x)
  <2> DEFINE w == Unsigned(Negate(x))
             p == -u
             q == -s
  <2>1. Negate(x) \in LongInts /\ Same(w, p)
    BY NegateSame
  <2>2. w \in Int /\ p \in Int /\ q \in Int
    <3>1. w \in Int
      BY <2>1, UnsignedIs
    <3> HIDE DEF u, s
    <3> QED BY <3>1, <1>1
  <2>3. Same(p, q)
    <3> HIDE DEF u, s
    <3> QED BY <1>1, SameNegative
  <2>4. Same(w, q)
    <3> HIDE DEF w, p, q
    <3> QED BY <2>1, <2>2, <2>3, SameChain
  <2> QED BY <2>1, <2>4, <1>2 DEF AbsoluteOf
<1>3. CASE ~ is_negative(kind, x)
  BY <1>1, <1>3 DEF AbsoluteOf
<1> QED BY <1>2, <1>3

LEMMA Signs ==
  ASSUME NEW a \in Int, NEW b \in Int, NEW s \in BOOLEAN, NEW t \in BOOLEAN
  PROVE  /\ s # t => -((IF s THEN -a ELSE a) * (IF t THEN -b ELSE b)) = a * b
         /\ s = t => (IF s THEN -a ELSE a) * (IF t THEN -b ELSE b) = a * b
<1>1. (-a) * b = -(a * b) /\ a * (-b) = -(a * b) /\ (-a) * (-b) = a * b /\ -(-(a * b)) = a * b
  OBVIOUS
<1>2. (s = TRUE \/ s = FALSE) /\ (t = TRUE \/ t = FALSE)
  OBVIOUS
<1>3. CASE s = TRUE /\ t = TRUE
  BY <1>1, <1>3
<1>4. CASE s = TRUE /\ t = FALSE
  BY <1>1, <1>4
<1>5. CASE s = FALSE /\ t = TRUE
  BY <1>1, <1>5
<1>6. CASE s = FALSE /\ t = FALSE
  BY <1>1, <1>6
<1> QED BY <1>2, <1>3, <1>4, <1>5, <1>6

LEMMA TimesSame ==
  ASSUME NEW kind, NEW x \in LongInts, NEW y \in LongInts
  PROVE  /\ Times(kind, x, y) \in LongInts
         /\ Same(Unsigned(Times(kind, x, y)), Signed(kind, x) * Signed(kind, y))
<1> DEFINE ax == AbsoluteOf(kind, x)
           ay == AbsoluteOf(kind, y)
           sx == Signed(kind, x)
           sy == Signed(kind, y)
           nx == is_negative(kind, x)
           ny == is_negative(kind, y)
           px == IF nx THEN -sx ELSE sx
           py == IF ny THEN -sy ELSE sy
           all == Rows(ax, ay)[DIGITS]
           ua == Unsigned(ax)
           ub == Unsigned(ay)
           u == Unsigned(all)
           r == Times(kind, x, y)
<1>1. /\ ax \in LongInts /\ Same(ua, px) /\ ay \in LongInts /\ Same(ub, py)
      /\ sx \in Int /\ sy \in Int
  BY AbsoluteSame, SignedSame
<1>2. r = IF nx # ny THEN Negate(all) ELSE all
  BY DEF Times
<1> HIDE DEF ax, ay, sx, sy, nx, ny, r
<1>3. all \in LongInts /\ Same(u, ua * ub)
  BY <1>1, RowsSame
<1>4. ua \in Int /\ ub \in Int /\ u \in Int /\ px \in Int /\ py \in Int
  BY <1>1, <1>3, UnsignedIs
<1> HIDE DEF ua, ub, all
<1> DEFINE p == ua * ub
           q == px * py
<1>5. p \in Int /\ q \in Int /\ (nx # ny => -q = sx * sy) /\ ((nx <=> ny) => q = sx * sy)
  <2>1. p \in Int /\ q \in Int
    <3> HIDE DEF px, py
    <3> QED BY <1>4
  <2>2. nx \in BOOLEAN /\ ny \in BOOLEAN
    BY DEF nx, ny, is_negative
  <2>3. (nx # ny => -q = sx * sy) /\ (nx = ny => q = sx * sy)
    BY ONLY <2>2, <1>1, Signs
  <2> QED BY <2>1, <2>2, <2>3
<1>6. Same(p, q)
  <2> HIDE DEF px, py
  <2> QED BY <1>1, <1>4, SameProducts
<1> HIDE DEF p, q, u
<1>7. Same(u, q)
  BY <1>3, <1>4, <1>5, <1>6, SameChain DEF p
<1>8. CASE nx # ny
  <2> DEFINE w == Unsigned(Negate(all))
             v == -u
             z == -q
  <2>1. Negate(all) \in LongInts /\ Same(w, v)
    BY <1>3, NegateSame DEF u
  <2>2. Same(v, z)
    BY <1>4, <1>5, <1>7, SameNegative
  <2>3. w \in Int /\ v \in Int /\ z \in Int
    <3>1. w \in Int
      BY <2>1, UnsignedIs
    <3> QED BY <3>1, <1>4, <1>5
  <2>4. Same(w, z)
    <3> HIDE DEF w, v, z
    <3> QED BY <2>1, <2>2, <2>3, SameChain
  <2>5. r = Negate(all) /\ z = sx * sy
    BY <1>2, <1>5, <1>8
  <2> QED BY <2>1, <2>4, <2>5 DEF r, sx, sy
<1>9. CASE nx = ny
  <2>1. r = all /\ q = sx * sy
    <3>1. nx <=> ny
      BY <1>9
    <3> QED BY <1>2, <1>5, <1>9, <3>1
  <2> QED BY <2>1, <1>3, <1>7 DEF r, sx, sy, u
<1> QED BY <1>8, <1>9

----------------------------------------------------------------------------
(* A shift to the right *)

\* Division with remainder, of negative numbers too.
LEMMA IntDivisionIs ==
  ASSUME NEW n \in Int, NEW d \in Nat \ {0}
  PROVE  /\ n \div d \in Int /\ n % d \in 0 .. d - 1
         /\ n = (n \div d) * d + (n % d)
<1>1. d \in Nat /\ d > 0
  OBVIOUS
<1>2. n \div d \in Int /\ n % d \in 0 .. d - 1
  BY <1>1
<1>3. n = d * (n \div d) + (n % d)
  BY <1>1
<1> QED BY <1>1, <1>2, <1>3

LEMMA IntDivisionUnique ==
  ASSUME NEW n \in Int, NEW d \in Nat \ {0}, NEW q \in Int, NEW r \in 0 .. d - 1,
         n = q * d + r
  PROVE  n \div d = q /\ n % d = r
<1> DEFINE p == n \div d
           s == n % d
<1>1. p \in Int /\ s \in 0 .. d - 1 /\ n = p * d + s
  BY IntDivisionIs
<1> HIDE DEF p, s
<1>2. p * d + s = q * d + r
  BY <1>1
<1>3. p = q /\ s = r
  BY ONLY <1>1, <1>2, d \in Nat \ {0}, q \in Int, r \in 0 .. d - 1, NoMultipleBetween
<1> QED BY <1>3 DEF p, s

LEMMA IntDivideTwice ==
  ASSUME NEW n \in Int, NEW c \in Nat \ {0}, NEW d \in Nat \ {0}
  PROVE  n \div (c * d) = (n \div d) \div c
<1> DEFINE q == n \div d
           m == n % d
           s == q \div c
           e == q % c
<1>1. q \in Int /\ m \in 0 .. d - 1 /\ n = q * d + m
  BY IntDivisionIs
<1>2. s \in Int /\ e \in 0 .. c - 1 /\ q = s * c + e
  <2> HIDE DEF q
  <2> QED BY ONLY <1>1, c \in Nat \ {0}, IntDivisionIs
<1> HIDE DEF q, m, s, e
<1>3. n = s * (c * d) + (e * d + m)
  <2>1. q * d = s * (c * d) + e * d
    BY <1>1, <1>2
  <2> QED BY <1>1, <1>2, <2>1
<1>4. c * d \in Nat \ {0} /\ e * d + m \in 0 .. c * d - 1
  <2>1. PICK k \in Nat : c = e + 1 + k
    <3>1. c - e - 1 \in Nat /\ c = e + 1 + (c - e - 1)
      BY <1>2
    <3> QED BY <3>1
  <2>2. c * d = e * d + d + k * d /\ k * d \in Nat /\ e * d \in Nat
    BY <1>2, <2>1
  <2> QED BY <1>1, <2>2
<1>5. n \div (c * d) = s
  <2> DEFINE f == c * d
             r == e * d + m
  <2>1. f \in Nat \ {0} /\ r \in 0 .. f - 1 /\ n = s * f + r
    BY <1>3, <1>4
  <2> HIDE DEF f, r
  <2>2. n \div f = s
    BY ONLY <1>2, <2>1, n \in Int, IntDivisionUnique
  <2> QED BY <2>2 DEF f
<1> QED BY <1>5 DEF q, s

\* The digits of a number whose sign is repeated above them.
LEMMA DigitIs ==
  ASSUME NEW kind, NEW x \in LongInts, NEW i \in Nat \ {0}
  PROVE  /\ Digit(kind, x, i) \in 0 .. BASE - 1 /\ Digit(kind, x, i) \in Nat
         /\ i \in Places => Digit(kind, x, i) = x[i]
         /\ i > DIGITS => Digit(kind, x, i) = Negative(kind, x) * (BASE - 1)
<1>1. BASE \in Nat /\ BASE >= 2 /\ DIGITS \in Nat /\ DIGITS >= 1
  BY BaseIs
<1>2. CASE i <= DIGITS
  <2>1. i \in Places /\ ~ (i > DIGITS) /\ Digit(kind, x, i) = x[i]
    BY <1>1, <1>2 DEF Places, Digit
  <2> QED BY <1>1, <2>1 DEF LongInts
<1>3. CASE i > DIGITS
  <2>1. Digit(kind, x, i) = IF is_negative(kind, x) THEN BASE - 1 ELSE 0
    BY <1>1, <1>3 DEF Digit
  <2>2. Digit(kind, x, i) = Negative(kind, x) * (BASE - 1)
    <3>1. 1 * (BASE - 1) = BASE - 1 /\ 0 * (BASE - 1) = 0
      BY <1>1
    <3> QED BY <2>1, <3>1 DEF Negative
  <2>3. i \notin Places
    BY <1>1, <1>3 DEF Places
  <2> QED BY <1>1, <1>3, <2>1, <2>2, <2>3
<1> QED BY <1>1, <1>2, <1>3

\* The number that they are, up to any place.
Extended(kind, x, i) == IF i <= DIGITS THEN Values(x)[i]
                        ELSE Unsigned(x) + Negative(kind, x) * (W(i) - MODULUS)

LEMMA ExtendedIs ==
  ASSUME NEW kind, NEW x \in LongInts, NEW i \in Nat
  PROVE  /\ Extended(kind, x, i) \in Int /\ Extended(kind, x, 0) = 0
         /\ Extended(kind, x, i + 1) = Extended(kind, x, i) + Digit(kind, x, i + 1) * W(i)
         /\ i >= DIGITS => Extended(kind, x, i) = Signed(kind, x) + Negative(kind, x) * W(i)
<1> DEFINE c == Negative(kind, x)
           u == Unsigned(x)
           w == W(i)
           m == MODULUS
           h == i + 1
           b == BASE
           s == Signed(kind, x)
<1>1. /\ BASE \in Nat /\ DIGITS \in Nat /\ DIGITS >= 1 /\ c \in {0, 1} /\ u \in Nat /\ w \in Nat /\ m \in Nat
      /\ W(h) = b * w /\ u = Values(x)[DIGITS] /\ m = W(DIGITS) /\ h \in Nat \ {0} /\ s \in Int /\ b \in Nat
      /\ s = u - c * m
  BY BaseIs, SignedIs, UnsignedIs, WeightsAre, ModulusIs DEF Signed
<1> HIDE DEF c, u, w, h, m, b, s
<1>2. CASE i < DIGITS
  <2>1. h \in Places /\ h - 1 = i /\ i \in 0 .. DIGITS /\ h <= DIGITS /\ i <= DIGITS /\ ~ (i >= DIGITS)
    BY <1>1, <1>2 DEF Places, h
  <2>2. Values(x)[h] = Values(x)[i] + x[h] * W(i) /\ Values(x)[i] \in Nat /\ Values(x)[0] = 0
    <3>1. Values(x)[h] = Values(x)[h - 1] + x[h] * W(h - 1)
      BY <2>1, ValuesAre
    <3>2. Values(x)[i] \in Nat /\ Values(x)[0] = 0
      BY <2>1, ValuesAre
    <3> QED BY <3>1, <3>2, <2>1
  <2>3. Digit(kind, x, h) = x[h]
    BY <1>1, <2>1, DigitIs
  <2>4. Extended(kind, x, h) = Values(x)[h] /\ Extended(kind, x, i) = Values(x)[i] /\ Extended(kind, x, 0) = 0
    BY <1>1, <2>1, <2>2 DEF Extended
  <2> QED BY <2>1, <2>2, <2>3, <2>4 DEF h
<1>3. CASE i >= DIGITS
  <2>1. h > DIGITS /\ ~ (h <= DIGITS)
    BY <1>1, <1>3 DEF h
  <2>2. Digit(kind, x, h) = c * (b - 1)
    BY <1>1, <2>1, DigitIs DEF c, b
  <2>3. Extended(kind, x, h) = u + c * (b * w - m)
    BY <2>1, <1>1 DEF Extended, c, u, m
  <2>4. Extended(kind, x, i) = u + c * (w - m)
    <3>1. CASE i = DIGITS
      <4>1. Extended(kind, x, i) = u /\ w = m
        BY <1>1, <3>1 DEF Extended, w
      <4>2. c * (w - m) = 0
        BY <4>1, <1>1
      <4> QED BY <4>1, <4>2, <1>1
    <3>2. CASE i > DIGITS
      <4>1. ~ (i <= DIGITS)
        BY <1>1, <3>2
      <4> QED BY <4>1, <1>1 DEF Extended, c, u, m, w
    <3> QED BY <1>1, <1>3, <3>1, <3>2
  <2>5. Extended(kind, x, 0) = 0
    <3>1. Values(x)[0] = 0 /\ 0 <= DIGITS
      BY <1>1, ValuesAre
    <3> QED BY <3>1 DEF Extended
  <2>6. /\ c * (b * w - m) = c * (w - m) + (c * (b - 1)) * w /\ c * (w - m) \in Int
        /\ (c * (b - 1)) * w \in Int /\ c * (w - m) = c * w - c * m /\ c * w \in Int /\ c * m \in Int
    <3>1. c = 0 \/ c = 1
      BY <1>1
    <3>2. CASE c = 0
      BY <1>1, <3>2
    <3>3. CASE c = 1
      <4>1. b * w - m = (w - m) + (b - 1) * w /\ (b - 1) * w \in Int /\ b * w \in Int
        BY <1>1
      <4>2. \A z \in Int : 1 * z = z
        OBVIOUS
      <4> QED BY <4>1, <4>2, <1>1, <3>3
    <3> QED BY <3>1, <3>2, <3>3
  <2>7. Extended(kind, x, i) \in Int
    BY <1>1, <2>4, <2>6
  <2>8. Extended(kind, x, h) = Extended(kind, x, i) + Digit(kind, x, h) * w
    <3> DEFINE p == c * (w - m)
               q == (c * (b - 1)) * w
    <3>1. p \in Int /\ q \in Int /\ u + (p + q) = (u + p) + q
      BY <2>6, <1>1
    <3> QED BY <2>2, <2>3, <2>4, <2>6, <3>1
  <2>9. Extended(kind, x, i) = s + c * w
    <3> DEFINE p == c * w
               q == c * m
    <3>1. p \in Int /\ q \in Int /\ Extended(kind, x, i) = u + (p - q) /\ s = u - q
      BY <2>4, <2>6, <1>1
    <3> HIDE DEF p, q
    <3>2. Extended(kind, x, i) = s + p
      BY <3>1, <1>1
    <3> QED BY <3>2 DEF p
  <2> QED BY <2>5, <2>7, <2>8, <2>9 DEF h, c, w, s
<1> QED BY <1>1, <1>2, <1>3

\* A digit shifted to the right: what stays in it, and what comes from the next.
Stays(d, b) == d \div 2 ^ b
Comes(d, b) == (d % 2 ^ b) * 2 ^ (BITS - b)

LEMMA ShiftedRight ==
  ASSUME NEW b \in 0 .. BITS, NEW d \in 0 .. BASE - 1, NEW g \in 0 .. BASE - 1
  PROVE  /\ Stays(d, b) \in Nat /\ Comes(g, b) \in Nat /\ d % 2 ^ b \in 0 .. 2 ^ b - 1
         /\ d = Stays(d, b) * 2 ^ b + (d % 2 ^ b)
         /\ Comes(g, b) * 2 ^ b = (g % 2 ^ b) * BASE
         /\ (g * 2 ^ (BITS - b)) % BASE = Comes(g, b)
         /\ Stays(d, b) + Comes(g, b) \in 0 .. BASE - 1
         /\ OrSame(Stays(d, b), Comes(g, b)) = Stays(d, b) + Comes(g, b)
<1> DEFINE e == 2 ^ b
           n == BITS - b
           f == 2 ^ n
           p == d \div e
           s == d % e
           t == g % e
           B == BASE
<1>1. /\ n \in 0 .. BITS /\ BITS - n = b /\ e \in Nat \ {0} /\ f \in Nat \ {0} /\ B \in Nat /\ B = e * f
      /\ d \in 0 .. B - 1 /\ g \in 0 .. B - 1 /\ d \in Nat /\ g \in Nat
  BY BaseIs, BaseParts
<1>2. 2 ^ (BITS - n) = e /\ 2 ^ n = f
  BY <1>1
<1> HIDE DEF n, p, s, t, B
<1>3. /\ p \in 0 .. f - 1 /\ s \in 0 .. e - 1 /\ d = p * e + s
  BY <1>1, <1>2, ShiftedDigit DEF p, s, B
<1>4. /\ t \in 0 .. e - 1 /\ (g * f) % B = t * f /\ t * f \in Nat /\ t * f + f <= B
  BY <1>1, <1>2, ShiftedDigit DEF t, B
<1> HIDE DEF e, f
<1> DEFINE c == t * f
<1>5. /\ p \in Nat /\ s \in 0 .. e - 1 /\ t \in Nat /\ c \in Nat /\ p < f /\ p + c \in 0 .. B - 1
  <2>1. p \in Nat /\ t \in Nat /\ c \in Nat /\ p < f /\ c + f <= B
    BY <1>1, <1>3, <1>4
  <2> HIDE DEF c
  <2>2. p + c \in 0 .. B - 1
    BY <2>1, <1>1
  <2> QED BY <2>1, <2>2, <1>3
<1>6. c * e = t * B
  BY <1>1, <1>5
<1>7. OrSame(p, c) = p + c
  <2>1. Splice(p, t, n) = p + t * 2 ^ n
    BY DEF Splice
  <2>2. p < 2 ^ n /\ Splice(p, t, n) \in 0 .. BASE - 1 /\ t * 2 ^ n = c
    BY <2>1, <1>2, <1>5 DEF B
  <2>3. OrSame(p, t * 2 ^ n) = Splice(p, t, n)
    BY <2>2, <1>1, <1>5, OrIsSum
  <2> QED BY <2>1, <2>2, <2>3
<1>8. Stays(d, b) = p /\ Comes(g, b) = c
  BY DEF Stays, Comes, p, t, e, f, n
<1>9. (g * 2 ^ (BITS - b)) % BASE = c /\ c * 2 ^ b = (g % 2 ^ b) * BASE /\ d = p * 2 ^ b + (d % 2 ^ b)
      /\ d % 2 ^ b \in 0 .. 2 ^ b - 1
  <2>1. (g * f) % B = c /\ c * e = t * B /\ d = p * e + s /\ s \in 0 .. e - 1
    BY <1>3, <1>4, <1>6
  <2> HIDE DEF c
  <2> QED BY <2>1 DEF e, f, n, t, B, s
<1> QED BY <1>5, <1>7, <1>8, <1>9 DEF B

\* Nothing or a sign comes into the highest digit.
LEMMA NothingComes ==
  ASSUME NEW b \in 0 .. BITS
  PROVE  Comes(0, b) = 0
<1> DEFINE e == 2 ^ b
           f == 2 ^ (BITS - b)
<1>1. e \in Nat \ {0} /\ f \in Nat
  BY BaseParts
<1> HIDE DEF e, f
<1>2. 0 % e = 0
  BY <1>1
<1>3. 0 * f = 0
  BY <1>1
<1> QED BY <1>2, <1>3 DEF Comes, e, f

LEMMA OrNothing ==
  ASSUME NEW z \in 0 .. BASE - 1
  PROVE  OrSame(z, 0) = z
<1> DEFINE o == 0
<1>1. BITS \in 0 .. BITS /\ z \in Nat /\ o \in Nat /\ z < 2 ^ BITS /\ 2 ^ BITS \in Nat
  BY BaseIs DEF BASE
<1>2. o * 2 ^ BITS = 0 /\ Splice(z, o, BITS) = z
  <2> DEFINE w == 2 ^ BITS
  <2>1. w \in Nat
    BY <1>1
  <2> HIDE DEF w
  <2>2. 0 * w = 0 /\ z + 0 = z
    BY <2>1, <1>1
  <2> QED BY <2>2 DEF Splice, w
<1> HIDE DEF o
<1>3. OrSame(z, o * 2 ^ BITS) = Splice(z, o, BITS)
  BY <1>1, <1>2, OrIsSum
<1> QED BY <1>2, <1>3

LEMMA SignComes ==
  ASSUME NEW b \in 0 .. BITS, NEW d \in 0 .. BASE - 1
  PROVE  /\ (d - BASE) \div 2 ^ b + BASE = Stays(d, b) + Comes(BASE - 1, b)
         /\ Stays(BASE - 1, b) + Comes(BASE - 1, b) = BASE - 1
         /\ (BASE - 1) % 2 ^ b = 2 ^ b - 1
         /\ Comes(BASE - 1, b) = BASE - 2 ^ (BITS - b)
<1> DEFINE e == 2 ^ b
           f == 2 ^ (BITS - b)
           B == BASE
           g == B - 1
           p == d \div e
           s == d % e
<1>1. e \in Nat \ {0} /\ f \in Nat \ {0} /\ B = e * f /\ B \in Nat \ {0} /\ d \in 0 .. B - 1 /\ g \in 0 .. B - 1
      /\ d \in Int /\ g \in Int
  BY BaseIs, BaseParts
<1>2. p \in Int /\ s \in 0 .. e - 1 /\ d = p * e + s
  <2> HIDE DEF e
  <2> QED BY <1>1, IntDivisionIs
<1> HIDE DEF e, f, B, g, p, s
<1>3. (d - B) \div e = p - f
  <2> DEFINE n == d - B
             q == p - f
  <2>1. n \in Int /\ q \in Int /\ n = q * e + s
    <3>1. q * e = p * e - f * e /\ f * e = B
      BY <1>1, <1>2
    <3> QED BY <3>1, <1>1, <1>2
  <2> HIDE DEF n, q
  <2>2. n \div e = q
    BY <2>1, <1>1, <1>2, IntDivisionUnique
  <2> QED BY <2>2 DEF n, q
<1>4. g \div e = f - 1 /\ g % e = e - 1
  <2> DEFINE q == f - 1
             r == e - 1
  <2>1. q \in Int /\ r \in 0 .. e - 1 /\ g = q * e + r
    <3>1. q * e = f * e - e /\ f * e = B
      BY <1>1
    <3> QED BY <3>1, <1>1 DEF g
  <2> HIDE DEF q, r
  <2>2. g \div e = q /\ g % e = r
    BY <2>1, <1>1, IntDivisionUnique
  <2> QED BY <2>2 DEF q, r
<1>5. (e - 1) * f = B - f
  BY <1>1
<1>6. Stays(d, b) = p /\ Stays(g, b) = f - 1 /\ Comes(g, b) = B - f
  <2>1. Stays(d, b) = p /\ Stays(g, b) = g \div e /\ Comes(g, b) = (g % e) * f
    BY DEF Stays, Comes, p, e, f
  <2> QED BY <2>1, <1>4, <1>5
<1>7. (p - f) + B = p + (B - f) /\ (f - 1) + (B - f) = B - 1
  BY <1>1, <1>2
<1> QED BY <1>3, <1>4, <1>6, <1>7 DEF g, B, e, f

LEMMA ShiftRightIs ==
  ASSUME NEW kind, NEW x \in LongInts, NEW k \in Nat \ {0}, NEW kept \in BOOLEAN,
         k \div BITS < DIGITS, kept => k % BITS # 0
  PROVE  LET n == k \div BITS  b == k % BITS  r == ShiftRight(kind, x, k, kept)
         IN  /\ r \in LongInts
             /\ \A i \in Places : r[i] = Stays(Digit(kind, x, i + n), b) + Comes(Digit(kind, x, i + n + 1), b)
<1> DEFINE n == k \div BITS
           b == k % BITS
           r == ShiftRight(kind, x, k, kept)
           neg == is_negative(kind, x)
           sign == IF neg THEN BASE - 1 ELSE 0
           Low(i)  == IF i + n = DIGITS /\ neg
                      THEN (x[DIGITS] - BASE) \div 2 ^ b + BASE
                      ELSE x[i + n] \div 2 ^ b
           High(i) == CASE i + n >= DIGITS -> 0
                        [] i + n < DIGITS /\ b # 0 -> (x[i + n + 1] * 2 ^ (BITS - b)) % BASE
                        [] OTHER -> IF kept THEN x[i + n + 1] ELSE 0
           New(i) == IF i + n > DIGITS THEN sign ELSE OrSame(Low(i), High(i))
           Right(i) == Stays(Digit(kind, x, i + n), b) + Comes(Digit(kind, x, i + n + 1), b)
<1>1. n \in Nat /\ n < DIGITS /\ b \in 0 .. BITS /\ DIGITS \in Nat /\ BASE \in Nat /\ BASE >= 2
      /\ (kept => b # 0) /\ DIGITS >= 1
  <2>1. n \in Nat /\ b \in 0 .. BITS - 1 /\ (kept => b # 0) /\ n < DIGITS
    BY ShiftParts
  <2> HIDE DEF n, b
  <2> QED BY <2>1, BaseIs
<1>2. r = [i \in Places |-> New(i)]
  <2>1. k # 0 /\ ~ (n >= DIGITS)
    <3> HIDE DEF n
    <3> QED BY <1>1
  <2> QED BY <2>1 DEF ShiftRight
<1> HIDE DEF n, b, r, neg
<1>3. ASSUME NEW i \in Places PROVE New(i) = Right(i) /\ Right(i) \in 0 .. BASE - 1
  <2> DEFINE h == i + n
             d == Digit(kind, x, h)
             g == Digit(kind, x, h + 1)
  <2>1. i \in Nat /\ h \in Nat \ {0} /\ h + 1 \in Nat \ {0} /\ i >= 1
    BY <1>1 DEF Places
  <2> HIDE DEF h
  <2>2. d \in 0 .. BASE - 1 /\ g \in 0 .. BASE - 1
    BY <2>1, DigitIs
  <2>3. /\ Stays(d, b) + Comes(g, b) \in 0 .. BASE - 1
        /\ (g * 2 ^ (BITS - b)) % BASE = Comes(g, b)
        /\ OrSame(Stays(d, b), Comes(g, b)) = Stays(d, b) + Comes(g, b)
        /\ Stays(d, b) \in Nat /\ Comes(g, b) \in Nat
    <3> HIDE DEF d, g
    <3> QED BY <2>2, <1>1, ShiftedRight
  <2>4. CASE h > DIGITS
    <3>1. d = sign /\ g = sign
      <4>1. h + 1 > DIGITS
        BY <2>1, <2>4, <1>1
      <4>2. d = Negative(kind, x) * (BASE - 1) /\ g = Negative(kind, x) * (BASE - 1)
        BY <4>1, <2>1, <2>4, DigitIs
      <4>3. sign = Negative(kind, x) * (BASE - 1)
        <5>1. 1 * (BASE - 1) = BASE - 1 /\ 0 * (BASE - 1) = 0
          BY <1>1
        <5> QED BY <5>1 DEF Negative, neg
      <4> QED BY <4>2, <4>3
    <3>2. New(i) = sign
      BY <2>4 DEF h
    <3>3. Right(i) = Stays(sign, b) + Comes(sign, b)
      BY <3>1 DEF h
    <3>4. Stays(sign, b) + Comes(sign, b) = sign
      <4>1. CASE neg
        <5>1. BASE - 1 \in 0 .. BASE - 1
          BY <1>1
        <5>2. Stays(BASE - 1, b) + Comes(BASE - 1, b) = BASE - 1
          BY <5>1, <1>1, SignComes
        <5> QED BY <5>2, <4>1
      <4>2. CASE ~ neg
        <5> DEFINE o == 0
        <5>1. o \in 0 .. BASE - 1
          BY <1>1
        <5>2. Comes(0, b) = 0
          BY <1>1, NothingComes
        <5>3. Stays(0, b) = 0
          <6> DEFINE e == 2 ^ b
          <6>1. e \in Nat \ {0}
            BY <1>1, BaseParts
          <6> HIDE DEF e
          <6>2. 0 \div e = 0
            <7> DEFINE z == 0
            <7>1. z \in Int /\ z \in 0 .. e - 1 /\ z = z * e + z
              BY <6>1
            <7> HIDE DEF z
            <7>2. z \div e = z
              BY <7>1, <6>1, IntDivisionUnique
            <7> QED BY <7>2 DEF z
          <6> QED BY <6>2 DEF Stays, e
        <5> QED BY <5>2, <5>3, <4>2
      <4> QED BY <4>1, <4>2
    <3>5. sign \in 0 .. BASE - 1
      BY <1>1
    <3> QED BY <3>2, <3>3, <3>4, <3>5
  <2>5. CASE h = DIGITS
    <3>1. d = x[DIGITS] /\ h \in Places /\ ~ (h > DIGITS) /\ h >= DIGITS
      <4>1. h \in Places
        BY <2>5, <1>1 DEF Places
      <4>2. d = x[h]
        BY <2>1, <4>1, DigitIs
      <4> QED BY <4>1, <4>2, <2>5, <1>1
    <3>2. High(i) = 0
      BY <3>1, <2>1, <1>1 DEF h
    <3>3. New(i) = OrSame(Low(i), 0)
      BY <3>1, <3>2 DEF h
    <3>4. g = sign
      <4>1. h + 1 > DIGITS
        BY <2>1, <2>5, <1>1
      <4>2. g = Negative(kind, x) * (BASE - 1)
        BY <4>1, <2>1, DigitIs
      <4>3. sign = Negative(kind, x) * (BASE - 1)
        <5>1. 1 * (BASE - 1) = BASE - 1 /\ 0 * (BASE - 1) = 0
          BY <1>1
        <5> QED BY <5>1 DEF Negative, neg
      <4> QED BY <4>2, <4>3
    <3>5. Low(i) = Stays(d, b) + Comes(g, b)
      <4>1. CASE neg
        <5>1. g = BASE - 1 /\ d = x[DIGITS]
          BY <3>1, <3>4, <4>1
        <5>2. Low(i) = (d - BASE) \div 2 ^ b + BASE
          BY <3>1, <4>1, <2>5 DEF h
        <5> HIDE DEF d, g, Low
        <5>3. (d - BASE) \div 2 ^ b + BASE = Stays(d, b) + Comes(BASE - 1, b)
          BY <2>2, <1>1, SignComes
        <5> QED BY <5>1, <5>2, <5>3
      <4>2. CASE ~ neg
        <5>1. g = 0
          BY <3>4, <4>2
        <5>2. Low(i) = Stays(d, b)
          BY <3>1, <2>5, <4>2 DEF h, Stays
        <5> HIDE DEF d, g, Low
        <5>3. Comes(0, b) = 0 /\ Stays(d, b) + 0 = Stays(d, b)
          BY <1>1, <2>3, NothingComes
        <5> QED BY <5>1, <5>2, <5>3
      <4> QED BY <4>1, <4>2
    <3>6. OrSame(Low(i), 0) = Low(i) /\ Low(i) \in 0 .. BASE - 1
      <4> HIDE DEF Low, d, g
      <4>1. Low(i) \in 0 .. BASE - 1
        BY <3>5, <2>3
      <4> QED BY <4>1, OrNothing
    <3>7. Right(i) = Stays(d, b) + Comes(g, b)
      BY DEF h
    <3> HIDE DEF Low, High, New, Right, d, g
    <3> QED BY <3>3, <3>5, <3>6, <3>7
  <2>6. CASE h < DIGITS
    <3>1. d = x[h] /\ g = x[h + 1]
      <4>1. h \in Places /\ h + 1 \in Places
        BY <2>1, <2>6, <1>1 DEF Places
      <4> QED BY <4>1, <2>1, DigitIs
    <3>2. Low(i) = Stays(d, b)
      <4>1. ~ (h = DIGITS)
        BY <2>1, <2>6, <1>1
      <4> QED BY <3>1, <4>1 DEF h, Stays
    <3>3. High(i) = Comes(g, b)
      <4>1. ~ (h >= DIGITS)
        BY <2>1, <2>6, <1>1
      <4>2. CASE b # 0
        <5>1. High(i) = (x[h + 1] * 2 ^ (BITS - b)) % BASE
          BY <4>1, <4>2, <2>1, <2>6, <1>1 DEF h
        <5> QED BY <5>1, <2>3, <3>1
      <4>3. CASE b = 0
        <5>1. High(i) = 0
          BY <4>1, <4>3, <1>1 DEF h
        <5>2. Comes(g, b) = 0
          <6>1. 2 ^ b = 1
            BY <1>1, <4>3, BaseParts
          <6> DEFINE f == 2 ^ (BITS - b)
          <6>2. f \in Nat
            BY <1>1, BaseParts
          <6> HIDE DEF g, f
          <6>3. g % 1 = 0
            BY <2>2, <1>1
          <6>4. 0 * f = 0
            BY <6>2
          <6> QED BY <6>1, <6>3, <6>4 DEF Comes, f
        <5> QED BY <5>1, <5>2
      <4> QED BY <4>2, <4>3
    <3>4. ~ (h > DIGITS)
      BY <2>1, <2>6, <1>1
    <3>5. New(i) = OrSame(Low(i), High(i)) /\ Right(i) = Stays(d, b) + Comes(g, b)
      BY <3>4 DEF h
    <3> HIDE DEF Low, High, New, Right, d, g
    <3> QED BY <3>2, <3>3, <3>5, <2>3
  <2> QED BY <2>1, <2>4, <2>5, <2>6, <1>1
<1>4. r \in LongInts
  <2> HIDE DEF New, Right
  <2> QED BY <1>2, <1>3 DEF LongInts
<1>5. \A i \in Places : r[i] = Right(i)
  <2> HIDE DEF New, Right
  <2> QED BY <1>2, <1>3
<1> QED BY <1>4, <1>5 DEF n, b, r

\* One digit more of a shift to the right.
LEMMA ShiftRightStepIs ==
  ASSUME NEW vr \in Int, NEW vx \in Int, NEW rest \in Int, NEW p \in Int, NEW c \in Int, NEW d \in Int,
         NEW s \in Int, NEW t \in Int, NEW e \in Int, NEW wn \in Int, NEW wm \in Int, NEW b \in Int,
         (wn * e) * vr + rest = vx + s * (wn * wm), d = p * e + s, c * e = t * b
  PROVE  (wn * e) * (vr + (p + c) * wm) + rest = (vx + d * (wn * wm)) + t * (b * (wn * wm))
<1> DEFINE w == wn * wm
           g == wn * e
<1>1. g * ((p + c) * wm) = ((p + c) * e) * w
  OBVIOUS
<1>2. (p + c) * e = (d - s) + t * b
  <2>1. (p + c) * e = p * e + c * e /\ p * e \in Int /\ c * e \in Int /\ t * b \in Int
    OBVIOUS
  <2> DEFINE pe == p * e
             ce == c * e
             tb == t * b
             z == (p + c) * e
  <2>2. z = pe + ce /\ d = pe + s /\ ce = tb /\ pe \in Int /\ ce \in Int
    BY <2>1
  <2> HIDE DEF pe, ce, tb, z
  <2>3. z = (d - s) + tb
    BY <2>2
  <2> QED BY <2>3 DEF z, tb
<1>3. w \in Int /\ g \in Int
  OBVIOUS
<1>4. g * (vr + (p + c) * wm) = g * vr + g * ((p + c) * wm)
  BY <1>3
<1>5. ((d - s) + t * b) * w = d * w - s * w + t * (b * w)
  <2> HIDE DEF w
  <2> QED BY <1>3
<1>6. g * vr \in Int /\ d * w \in Int /\ s * w \in Int /\ t * (b * w) \in Int
  <2> HIDE DEF w, g
  <2> QED BY <1>3
<1> DEFINE u == g * vr
           dw == d * w
           sw == s * w
           tw == t * (b * w)
           all == g * (vr + (p + c) * wm)
<1>7. all = u + (dw - sw + tw) /\ u + rest = vx + sw /\ u \in Int /\ dw \in Int /\ sw \in Int /\ tw \in Int
  BY <1>1, <1>2, <1>4, <1>5, <1>6
<1> HIDE DEF u, dw, sw, tw, all
<1>8. all + rest = (vx + dw) + tw
  BY <1>7
<1> QED BY <1>8 DEF all, dw, tw

LEMMA ShiftRightValues ==
  ASSUME NEW kind, NEW x \in LongInts, NEW k \in Nat \ {0}, NEW kept \in BOOLEAN,
         k \div BITS < DIGITS, kept => k % BITS # 0
  PROVE  LET n == k \div BITS  b == k % BITS  e == 2 ^ b  r == ShiftRight(kind, x, k, kept)
             X(i) == Digit(kind, x, i)
         IN  \A m \in 0 .. DIGITS :
               (W(n) * e) * Values(r)[m] + ((X(n + 1) % e) * W(n) + Values(x)[n])
                 = Extended(kind, x, m + n) + (X(m + n + 1) % e) * W(m + n)
<1> DEFINE n == k \div BITS
           b == k % BITS
           e == 2 ^ b
           r == ShiftRight(kind, x, k, kept)
           X(i) == Digit(kind, x, i)
           rest == (X(n + 1) % e) * W(n) + Values(x)[n]
           P == {m \in 0 .. DIGITS : (W(n) * e) * Values(r)[m] + rest
                                       = Extended(kind, x, m + n) + (X(m + n + 1) % e) * W(m + n)}
           o == 0
<1>1. n \in Nat /\ n < DIGITS /\ b \in 0 .. BITS /\ DIGITS \in Nat /\ DIGITS >= 1 /\ BASE \in Nat
  <2>1. n \in Nat /\ b \in 0 .. BITS - 1 /\ n < DIGITS
    BY ShiftParts
  <2> HIDE DEF n, b
  <2> QED BY <2>1, BaseIs
<1>2. /\ r \in LongInts
      /\ \A i \in Places : r[i] = Stays(Digit(kind, x, i + n), b) + Comes(Digit(kind, x, i + n + 1), b)
  BY ShiftRightIs
<1>3. e \in Nat \ {0} /\ W(n) \in Nat
  BY <1>1, BaseParts, WeightsAre
<1> HIDE DEF n, b, r
<1>4. Values(x)[n] \in Nat /\ X(n + 1) % e \in 0 .. e - 1 /\ rest \in Int
  <2>1. n \in 0 .. DIGITS /\ n + 1 \in Nat \ {0}
    BY <1>1
  <2>2. Values(x)[n] \in Nat /\ X(n + 1) \in Nat
    BY <2>1, ValuesAre, DigitIs
  <2> DEFINE d == X(n + 1)
             w == W(n)
             v == Values(x)[n]
             s == d % e
  <2>3. s \in 0 .. e - 1
    <3> HIDE DEF d, e
    <3>1. d \in Int
      BY <2>2 DEF d
    <3> QED BY <3>1, <1>3, ModIs
  <2>4. s \in Nat
    BY <2>3, <1>3
  <2> HIDE DEF d, w, v, s, X
  <2>5. s * w + v \in Int
    BY <2>4, <2>2, <1>3 DEF v, w
  <2> QED BY <2>2, <2>3, <2>5 DEF d, w, v, s
<1> HIDE DEF rest
<1>5. o \in P
  <2>1. Values(r)[0] = 0 /\ 0 \in 0 .. DIGITS /\ 0 + n = n
    BY <1>1, <1>2, ValuesAre
  <2>2. Extended(kind, x, n) = Values(x)[n]
    BY <1>1 DEF Extended
  <2>3. (W(n) * e) * 0 = 0
    <3> HIDE DEF e
    <3> QED BY <1>3
  <2> DEFINE sw == (X(n + 1) % e) * W(n)
             v == Values(x)[n]
  <2>4. 0 + (sw + v) = v + sw
    <3>1. sw \in Int /\ v \in Int
      <4> DEFINE s == X(n + 1) % e
                 w == W(n)
      <4>1. s \in Nat /\ w \in Nat
        BY <1>3, <1>4
      <4> HIDE DEF s, w
      <4>2. s * w \in Int
        BY <4>1
      <4> QED BY <4>2, <1>4 DEF s, w
    <3> HIDE DEF sw, v
    <3> QED BY <3>1
  <2>5. (W(n) * e) * Values(r)[0] + rest = Extended(kind, x, 0 + n) + (X(0 + n + 1) % e) * W(0 + n)
    BY <2>1, <2>2, <2>3, <2>4 DEF rest
  <2> QED BY <2>1, <2>5
<1>6. ASSUME NEW m \in o .. DIGITS - 1, m \in P PROVE m + 1 \in P
  <2> DEFINE h == m + 1
             i == m + n
             j == i + 1
             d == X(j)
             g == X(j + 1)
             wn == W(n)
             wm == W(m)
             vr == Values(r)[m]
             vx == Extended(kind, x, i)
             p == Stays(d, b)
             c == Comes(g, b)
             s == d % e
             t == g % e
  <2>1. /\ h \in Places /\ h - 1 = m /\ h \in 0 .. DIGITS /\ m \in 0 .. DIGITS /\ m \in Nat /\ i \in Nat
        /\ j \in Nat \ {0} /\ j + 1 \in Nat \ {0} /\ h + n = j /\ h + n + 1 = j + 1 /\ n + m = i
    BY <1>1 DEF Places
  <2>2. (wn * e) * vr + rest = vx + s * W(i)
    BY <1>6
  <2>3. Values(r)[h] = vr + r[h] * wm /\ vr \in Nat
    <3> HIDE DEF h, i, j
    <3>1. Values(r)[h] = Values(r)[h - 1] + r[h] * W(h - 1)
      BY <2>1, <1>2, ValuesAre
    <3>2. Values(r)[m] \in Nat
      BY <2>1, <1>2, ValuesAre
    <3> QED BY <3>1, <3>2, <2>1
  <2>4. d \in 0 .. BASE - 1 /\ g \in 0 .. BASE - 1
    <3> HIDE DEF h, i, j
    <3> QED BY <2>1, DigitIs
  <2>5. /\ p \in Nat /\ c \in Nat /\ s \in 0 .. e - 1 /\ d = p * e + s /\ c * e = t * BASE
    <3> HIDE DEF d, g
    <3> QED BY <2>4, <1>1, ShiftedRight
  <2>6. r[h] = p + c
    <3> HIDE DEF h, i, j
    <3> QED BY <2>1, <1>2
  <2>7. vx \in Int /\ Extended(kind, x, j) = vx + d * W(i)
    <3> HIDE DEF i
    <3> QED BY <2>1, ExtendedIs
  <2>8. W(i) = wn * wm /\ W(j) = BASE * (wn * wm) /\ wn \in Nat /\ wm \in Nat
    <3>1. W(i) = wn * wm /\ W(j) = BASE * W(i) /\ wn \in Nat /\ wm \in Nat
      <4> HIDE DEF i
      <4>1. W(n + m) = W(n) * W(m)
        BY <2>1, <1>1, WeightsMultiply
      <4>2. W(i + 1) = BASE * W(i)
        BY <2>1, WeightsAre
      <4> QED BY <4>1, <4>2, <2>1, <1>1, WeightsAre
    <3> QED BY <3>1
  <2>9. t \in Int
    <3> HIDE DEF d, g, e
    <3>1. g \in Int
      BY <2>4, <1>1
    <3>2. t \in 0 .. e - 1
      BY <3>1, <1>3, ModIs
    <3> QED BY <3>2, <1>3
  <2>10. d \in Int /\ s \in Int /\ p \in Int /\ c \in Int /\ e \in Int /\ BASE \in Int /\ wn \in Int /\ wm \in Int
         /\ vr \in Int /\ vx \in Int /\ (wn * e) * vr + rest = vx + s * (wn * wm)
         /\ d = p * e + s /\ c * e = t * BASE /\ rest \in Int
    BY <2>2, <2>3, <2>4, <2>5, <2>7, <2>8, <1>1, <1>3, <1>4
  <2>11. Values(r)[h] = vr + (p + c) * wm /\ Extended(kind, x, j) = vx + d * (wn * wm)
         /\ W(j) = BASE * (wn * wm)
    BY <2>3, <2>6, <2>7, <2>8
  <2> HIDE DEF vr, vx, p, c, s, t, d, g, wn, wm, e, h, j
  <2>12. (wn * e) * (vr + (p + c) * wm) + rest = (vx + d * (wn * wm)) + t * (BASE * (wn * wm))
    BY ONLY <2>9, <2>10, ShiftRightStepIs
  <2>13. (wn * e) * Values(r)[h] + rest = Extended(kind, x, j) + t * W(j)
    BY <2>11, <2>12
  <2>14. (W(n) * e) * Values(r)[h] + rest = Extended(kind, x, h + n) + (X(h + n + 1) % e) * W(h + n)
    BY <2>13, <2>1 DEF wn, t, g
  <2> QED BY <2>14, <2>1 DEF h
<1> HIDE DEF P
<1>7. \A m \in 0 .. DIGITS : m \in P
  <2>1. o \in Nat
    OBVIOUS
  <2> HIDE DEF o
  <2>2. \A m \in o .. DIGITS : m \in P
    BY <2>1, <1>1, <1>5, <1>6, StepByStep
  <2> QED BY <2>2 DEF o
<1> QED BY <1>7 DEF P, n, b, e, r, rest, X

\* Half of the values of a digit are negative.
LEMMA HalfIs ==
  /\ BASE \div 2 \in Nat \ {0} /\ BASE - 1 >= BASE \div 2
  /\ \A f \in Nat : (\E e \in Nat : e >= 2 /\ BASE = e * f) => BASE - f >= BASE \div 2
<1> DEFINE B == BASE
           q == B \div 2
<1>1. B \in Nat /\ B >= 2
  BY BaseIs
<1>2. q \in Nat \ {0} /\ 2 * q <= B /\ B <= 2 * q + 1
  <2> HIDE DEF B
  <2> QED BY <1>1
<1> HIDE DEF B, q
<1>3. B - 1 >= q
  BY <1>1, <1>2
<1>4. ASSUME NEW f \in Nat, NEW e \in Nat, e >= 2, B = e * f PROVE B - f >= q
  <2>1. PICK j \in Nat : e = 2 + j
    <3>1. e - 2 \in Nat /\ e = 2 + (e - 2)
      BY <1>4
    <3> QED BY <3>1
  <2>2. e * f = 2 * f + j * f /\ j * f \in Nat
    BY <2>1
  <2>3. B >= 2 * f
    BY <2>2, <1>4
  <2> QED BY <2>3, <1>1, <1>2
<1> QED BY <1>2, <1>3, <1>4 DEF B, q

\* The sign stays.
LEMMA SignStays ==
  ASSUME NEW kind, NEW x \in LongInts, NEW k \in Nat \ {0}, NEW kept \in BOOLEAN,
         k \div BITS < DIGITS, kept => k % BITS # 0
  PROVE  Negative(kind, ShiftRight(kind, x, k, kept)) = Negative(kind, x)
<1> DEFINE n == k \div BITS
           b == k % BITS
           e == 2 ^ b
           f == 2 ^ (BITS - b)
           r == ShiftRight(kind, x, k, kept)
           c == Negative(kind, x)
           d == Digit(kind, x, DIGITS + n)
           g == Digit(kind, x, DIGITS + n + 1)
           H == BASE \div 2
<1>1. n \in Nat /\ n < DIGITS /\ b \in 0 .. BITS /\ DIGITS \in Nat /\ DIGITS >= 1 /\ BASE \in Nat /\ b \in Nat
      /\ BASE >= 2 /\ (n = 0 => b # 0)
  <2>1. n \in Nat /\ b \in 0 .. BITS - 1 /\ n < DIGITS /\ k = n * BITS + b
    <3>1. BITS \in Nat \ {0}
      BY LongIntAssumption
    <3>2. n \in Nat /\ b \in 0 .. BITS - 1
      BY ShiftParts
    <3>3. k = n * BITS + b
      BY ONLY <3>1, k \in Nat \ {0}, DivisionIs
    <3> QED BY <3>2, <3>3
  <2> HIDE DEF n, b
  <2>2. n = 0 => b # 0
    <3>1. ASSUME n = 0, b = 0 PROVE FALSE
      <4>1. 0 * BITS + 0 = 0
        BY BaseIs
      <4> QED BY <3>1, <4>1, <2>1
    <3> QED BY <3>1
  <2> QED BY <2>1, <2>2, BaseIs
<1>2. /\ r \in LongInts
      /\ \A i \in Places : r[i] = Stays(Digit(kind, x, i + n), b) + Comes(Digit(kind, x, i + n + 1), b)
  BY ShiftRightIs
<1> HIDE DEF n, b, r, e, f
<1>3. DIGITS \in Places /\ DIGITS + n \in Nat \ {0} /\ DIGITS + n + 1 \in Nat \ {0} /\ DIGITS + n + 1 > DIGITS
  BY <1>1 DEF Places
<1>4. r[DIGITS] = Stays(d, b) + Comes(g, b)
  BY <1>2, <1>3
<1>5. d \in 0 .. BASE - 1 /\ g = c * (BASE - 1) /\ c \in {0, 1}
  BY <1>3, DigitIs, SignedIs
<1>6. H \in Nat \ {0} /\ BASE - 1 >= H
  BY HalfIs
<1>7. (c = 1 <=> is_negative(kind, x)) /\ (is_negative(kind, x) <=> kind.signed /\ x[DIGITS] >= H)
  BY DEF Negative, is_negative
<1>8. is_negative(kind, r) <=> kind.signed /\ r[DIGITS] >= H
  BY DEF is_negative
<1> HIDE DEF d, g, c, H
<1>9. CASE c = 1
  <2>1. g = BASE - 1 /\ kind.signed
    <3>1. 1 * (BASE - 1) = BASE - 1
      BY <1>1
    <3> QED BY <3>1, <1>5, <1>7, <1>9
  <2>2. Comes(g, b) = BASE - f /\ Stays(d, b) \in Nat
    <3>1. Comes(BASE - 1, b) = BASE - 2 ^ (BITS - b)
      BY <1>1, <1>5, SignComes
    <3>2. Stays(d, b) \in Nat
      BY <1>1, <1>5, ShiftedRight
    <3> QED BY <2>1, <3>1, <3>2 DEF f
  <2>3. r[DIGITS] >= H
    <3>1. CASE n = 0
      <4>1. b # 0
        BY <1>1, <3>1
      <4>2. e >= 2 /\ e \in Nat /\ f \in Nat /\ BASE = e * f
        <5>1. b - 1 \in Nat /\ (b - 1) + 1 = b
          BY <4>1, <1>1
        <5>2. 2 ^ ((b - 1) + 1) = 2 * 2 ^ (b - 1) /\ 2 ^ (b - 1) \in Nat \ {0}
          BY <5>1, PowerStep
        <5>3. e = 2 * 2 ^ (b - 1)
          BY <5>1, <5>2 DEF e
        <5> DEFINE z == 2 ^ (b - 1)
        <5> HIDE DEF z
        <5>4. e = 2 * z /\ z \in Nat \ {0}
          BY <5>2, <5>3 DEF z
        <5>5. e >= 2
          BY <5>4
        <5>6. e \in Nat /\ f \in Nat /\ BASE = e * f
          BY <1>1, BaseParts DEF e, f
        <5> QED BY <5>5, <5>6
      <4>3. BASE - f >= H
        BY <4>2, HalfIs DEF H
      <4> QED BY <4>2, <4>3, <2>2, <1>4, <1>6, <1>1
    <3>2. CASE n > 0
      <4>1. d = BASE - 1
        <5>1. DIGITS + n > DIGITS
          BY <1>1, <3>2
        <5>2. d = c * (BASE - 1)
          BY <5>1, <1>3, DigitIs DEF d, c
        <5>3. 1 * (BASE - 1) = BASE - 1
          BY <1>1
        <5> QED BY <5>2, <5>3, <1>9
      <4>2. r[DIGITS] = BASE - 1
        <5>1. Stays(BASE - 1, b) + Comes(BASE - 1, b) = BASE - 1
          BY <1>1, <1>5, SignComes
        <5> QED BY <5>1, <4>1, <2>1, <1>4
      <4> QED BY <4>2, <1>6
    <3> QED BY <3>1, <3>2, <1>1
  <2> QED BY <2>1, <2>3, <1>8, <1>9 DEF Negative, c, r
<1>10. CASE c = 0
  <2>1. g = 0
    <3>1. 0 * (BASE - 1) = 0
      BY <1>1
    <3> QED BY <3>1, <1>5, <1>10
  <2>2. r[DIGITS] = Stays(d, b) /\ Stays(d, b) \in Nat /\ Stays(d, b) <= d
    <3> DEFINE p == Stays(d, b)
               s == d % e
    <3>1. p \in Nat /\ s \in 0 .. e - 1 /\ d = p * e + s /\ e \in Nat \ {0}
      BY <1>1, <1>5, ShiftedRight, BaseParts DEF e
    <3> HIDE DEF p, s
    <3>2. p <= d
      <4>1. PICK h \in Nat : e = 1 + h
        <5>1. e - 1 \in Nat /\ e = 1 + (e - 1)
          BY <3>1
        <5> QED BY <5>1
      <4>2. p * e = p + p * h /\ p * h \in Nat
        BY <4>1, <3>1
      <4> QED BY <4>2, <3>1
    <3>3. Comes(0, b) = 0
      BY <1>1, NothingComes
    <3>4. r[DIGITS] = p + 0
      BY <1>4, <2>1, <3>3 DEF p
    <3>5. r[DIGITS] = p
      BY <3>4, <3>1
    <3> QED BY <3>1, <3>2, <3>5 DEF p
  <2>3. ~ is_negative(kind, r)
    <3>1. CASE kind.signed
      <4>1. ~ (x[DIGITS] >= H)
        BY <1>7, <1>10, <3>1
      <4>2. d <= x[DIGITS] /\ x[DIGITS] \in Nat
        <5>1. x[DIGITS] \in Nat
          BY <1>1, <1>3 DEF LongInts
        <5>2. CASE n = 0
          <6>1. DIGITS + n = DIGITS
            BY <1>1, <5>2
          <6>2. d = x[DIGITS]
            BY <6>1, <1>3, DigitIs DEF d
          <6> QED BY <6>2, <5>1
        <5>3. CASE n > 0
          <6>1. DIGITS + n > DIGITS
            BY <1>1, <5>3
          <6>2. d = c * (BASE - 1)
            BY <6>1, <1>3, DigitIs DEF d, c
          <6>3. 0 * (BASE - 1) = 0
            BY <1>1
          <6>4. d = 0
            BY <6>2, <6>3, <1>10
          <6> QED BY <6>4, <5>1
        <5> QED BY <5>2, <5>3, <1>1
      <4>3. ~ (r[DIGITS] >= H)
        <5>1. d \in Nat /\ H \in Nat
          BY <1>1, <1>5, <1>6
        <5> DEFINE z == r[DIGITS]
                   y == x[DIGITS]
                   p == Stays(d, b)
        <5>2. z = p /\ p \in Nat /\ p <= d /\ d <= y /\ y \in Nat /\ ~ (y >= H)
          BY <2>2, <4>1, <4>2
        <5> HIDE DEF z, y, p
        <5>3. ~ (z >= H)
          BY <5>1, <5>2
        <5> QED BY <5>3 DEF z
      <4> QED BY <4>3, <1>8
    <3>2. CASE ~ kind.signed
      BY <3>2, <1>8
    <3> QED BY <3>1, <3>2
  <2> QED BY <2>3, <1>10 DEF Negative, c, r
<1> QED BY <1>5, <1>9, <1>10

\* A shift to the right is a division that rounds down.
LEMMA ShiftRightSigned ==
  ASSUME NEW kind, NEW x \in LongInts, NEW k \in Nat, NEW kept \in BOOLEAN,
         k \div BITS < DIGITS, k # 0 => (kept => k % BITS # 0)
  PROVE  /\ ShiftRight(kind, x, k, kept) \in LongInts
         /\ Signed(kind, ShiftRight(kind, x, k, kept)) = Signed(kind, x) \div 2 ^ k
<1> DEFINE n == k \div BITS
           b == k % BITS
           e == 2 ^ b
           r == ShiftRight(kind, x, k, kept)
           c == Negative(kind, x)
           s == Signed(kind, x)
           m == MODULUS
           X(i) == Digit(kind, x, i)
           wn == W(n)
           u == Unsigned(r)
           v == Values(x)[n]
           a == X(n + 1) % e
           h == DIGITS + n
           z == X(h + 1) % e
           g == wn * e
           rest == a * wn + v
<1>1. CASE k = 0
  <2>1. r = x
    <3>1. ~ (n >= DIGITS)
      <4>1. n \in Nat /\ n < DIGITS /\ DIGITS \in Nat
        BY ShiftParts, BaseIs
      <4> HIDE DEF n
      <4> QED BY <4>1
    <3> QED BY <1>1, <3>1 DEF ShiftRight
  <2>2. s \div 2 ^ k = s
    <3>1. s \in Int /\ 2 ^ k = 1
      BY <1>1, SignedIs, PowerStep
    <3>2. \A y \in Int : y \div 1 = y
      OBVIOUS
    <3> QED BY <3>1, <3>2
  <2> QED BY <2>1, <2>2
<1>2. CASE k # 0
  <2>1. n \in Nat /\ n < DIGITS /\ b \in 0 .. BITS /\ 2 ^ k = e * wn
    <3>1. n \in Nat /\ b \in 0 .. BITS - 1 /\ 2 ^ k = e * wn
      BY ShiftParts
    <3> HIDE DEF n, b, e
    <3> QED BY <3>1, BaseIs DEF n
  <2>2. k \in Nat \ {0} /\ (kept => b # 0)
    BY <1>2
  <2>3. r \in LongInts
    BY <2>2, ShiftRightIs
  <2>4. Negative(kind, r) = c
    BY <2>2, SignStays
  <2>5. \A i \in 0 .. DIGITS :
               (W(n) * e) * Values(r)[i] + ((X(n + 1) % e) * W(n) + Values(x)[n])
                 = Extended(kind, x, i + n) + (X(i + n + 1) % e) * W(i + n)
    BY <2>2, ShiftRightValues
  <2>6. DIGITS \in Nat /\ DIGITS >= 1 /\ BASE \in Nat /\ BASE >= 2 /\ m \in Nat \ {0} /\ m = W(DIGITS)
    BY BaseIs, ModulusIs
  <2> HIDE DEF n, b, e, r, m
  <2>7. h \in Nat /\ h >= DIGITS /\ h + 1 > DIGITS /\ h + 1 \in Nat \ {0} /\ DIGITS \in 0 .. DIGITS
        /\ n + 1 \in Nat \ {0} /\ n \in 0 .. DIGITS /\ n + DIGITS = h
    BY <2>1, <2>6
  <2>8. e \in Nat \ {0} /\ wn \in Nat \ {0} /\ u \in Nat /\ u = Values(r)[DIGITS] /\ c \in {0, 1} /\ s \in Int
    BY <2>1, <2>3, BaseParts, WeightsAre, UnsignedIs, SignedIs DEF e
  <2>9. v \in Nat /\ v < wn /\ X(n + 1) \in Nat
    BY <2>7, ValuesAre, DigitIs
  <2>10. a \in 0 .. e - 1
    <3> DEFINE d == X(n + 1)
    <3>1. d \in Int
      BY <2>9
    <3> HIDE DEF d
    <3>2. d % e \in 0 .. e - 1
      BY <3>1, <2>8, ModIs
    <3> QED BY <3>2 DEF d
  <2> HIDE DEF h
  <2>11. Extended(kind, x, h) = s + c * W(h) /\ W(h) = wn * m
    <3>1. Extended(kind, x, h) = Signed(kind, x) + Negative(kind, x) * W(h)
      BY <2>7, ExtendedIs
    <3>2. W(n + DIGITS) = W(n) * W(DIGITS)
      BY <2>1, <2>6, WeightsMultiply
    <3> QED BY <3>1, <3>2, <2>6, <2>7
  <2>12. z = c * (e - 1)
    <3>1. X(h + 1) = c * (BASE - 1)
      BY <2>7, DigitIs
    <3>2. CASE c = 0
      <4>1. X(h + 1) = 0
        <5>1. 0 * (BASE - 1) = 0
          BY <2>6
        <5> QED BY <3>1, <3>2, <5>1
      <4>2. 0 % e = 0 /\ 0 * (e - 1) = 0
        <5> HIDE DEF X
        <5> QED BY <2>8
      <4> QED BY <4>1, <4>2, <3>2
    <3>3. CASE c = 1
      <4>1. X(h + 1) = BASE - 1
        <5>1. 1 * (BASE - 1) = BASE - 1
          BY <2>6
        <5> QED BY <3>1, <3>3, <5>1
      <4>2. (BASE - 1) % e = e - 1
        <5>1. 0 \in 0 .. BASE - 1
          BY <2>6
        <5> QED BY <5>1, <2>1, SignComes DEF e
      <4>3. 1 * (e - 1) = e - 1
        BY <2>8
      <4> QED BY <4>1, <4>2, <4>3, <3>3
    <3> QED BY <2>8, <3>2, <3>3
  <2>13. g * u + rest = (s + c * (wn * m)) + z * (wn * m)
    <3>1. (W(n) * e) * Values(r)[DIGITS] + rest = Extended(kind, x, h) + z * W(h)
      BY <2>5, <2>7 DEF h
    <3> QED BY <3>1, <2>8, <2>11
  <2>14. g \in Nat \ {0} /\ rest \in 0 .. g - 1
    <3> HIDE DEF a, v, wn
    <3>1. PICK y \in Nat : e = a + 1 + y
      <4>1. e - a - 1 \in Nat /\ e = a + 1 + (e - a - 1)
        BY <2>8, <2>10
      <4> QED BY <4>1
    <3>2. wn * e = a * wn + wn + y * wn /\ y * wn \in Nat /\ a * wn \in Nat /\ wn * e \in Nat
      BY <3>1, <2>8, <2>10
    <3> DEFINE aw == a * wn
               yw == y * wn
    <3>3. g = aw + wn + yw /\ yw \in Nat /\ aw \in Nat /\ rest = aw + v
      BY <3>2
    <3> HIDE DEF aw, yw, g, rest
    <3> QED BY <3>3, <2>8, <2>9
  <2>15. s = (u - c * m) * g + rest
    <3> HIDE DEF a, v, wn, u, c, s, z
    <3>1. CASE c = 0
      <4>1. z = 0
        <5>1. 0 * (e - 1) = 0
          BY <2>8
        <5> QED BY <5>1, <2>12, <3>1
      <4> DEFINE w == wn * m
                 gu == g * u
      <4>2. gu + rest = (s + 0 * w) + 0 * w /\ w \in Int /\ gu \in Int /\ rest \in Int
        <5>1. w \in Int /\ gu \in Int
          BY <2>6, <2>8, <2>14
        <5> QED BY <5>1, <2>13, <2>14, <3>1, <4>1
      <4>3. (u - c * m) * g = gu
        <5>1. 0 * m = 0 /\ u - 0 = u
          BY <2>6, <2>8
        <5>2. u * g = g * u
          BY <2>8, <2>14
        <5> QED BY <5>1, <5>2, <3>1
      <4> HIDE DEF w, gu, rest
      <4>4. 0 * w = 0
        BY <4>2
      <4>5. s = gu + rest
        BY <4>2, <4>4, <2>8
      <4> QED BY <4>3, <4>5
    <3>2. CASE c = 1
      <4>1. z = e - 1
        <5>1. 1 * (e - 1) = e - 1
          BY <2>8
        <5> QED BY <5>1, <2>12, <3>2
      <4> DEFINE w == wn * m
                 gu == g * u
                 gm == g * m
      <4>2. gu + rest = (s + 1 * w) + (e - 1) * w /\ w \in Int /\ gu \in Int /\ rest \in Int /\ gm \in Int
        <5>1. w \in Int /\ gu \in Int /\ gm \in Int
          BY <2>6, <2>8, <2>14
        <5> QED BY <5>1, <2>13, <2>14, <3>2, <4>1
      <4>3. (u - c * m) * g = gu - gm
        <5>1. 1 * m = m
          BY <2>6
        <5>2. (u - m) * g = g * u - g * m
          BY <2>8, <2>14, <2>6
        <5> QED BY <5>1, <5>2, <3>2
      <4>4. e * w = gm
        BY <2>6, <2>8
      <4> HIDE DEF w, gu, rest, gm
      <4>5. 1 * w + (e - 1) * w = e * w /\ (e - 1) * w \in Int
        BY <4>2, <2>8
      <4>6. s = gu - gm + rest
        <5> DEFINE y == (e - 1) * w
        <5>1. y \in Int /\ w + y = gm /\ gu + rest = (s + w) + y
          BY <4>2, <4>4, <4>5
        <5> HIDE DEF y
        <5> QED BY <5>1, <4>2, <2>8
      <4> QED BY <4>3, <4>6
    <3> QED BY <2>8, <3>1, <3>2
  <2> DEFINE q == u - c * m
  <2>16. q \in Int
    <3>1. c * m \in Int
      <4> HIDE DEF c
      <4> QED BY <2>6, <2>8
    <3> HIDE DEF c, u
    <3> QED BY <2>8, <3>1
  <2>17. s \div g = q
    <3> HIDE DEF s, g, q, rest
    <3> QED BY ONLY <2>8, <2>14, <2>15, <2>16, IntDivisionUnique DEF q
  <2>18. Signed(kind, r) = q /\ 2 ^ k = g
    <3>1. Signed(kind, r) = q
      BY <2>4 DEF Signed, m
    <3>2. e * wn = wn * e
      BY <2>8
    <3> QED BY <3>1, <3>2, <2>1
  <2> QED BY <2>3, <2>17, <2>18 DEF r
<1> QED BY <1>1, <1>2

----------------------------------------------------------------------------
(* Assignment, and the width of a number *)

\* A number of the other type fits into the digits that cover it.
LEMMA BeyondCovered ==
  ASSUME NEW t \in Others, NEW i \in Nat, i >= Covered
  PROVE  t \div W(i) = IF t < 0 THEN -1 ELSE 0
<1> DEFINE n == INT_BITS + BITS - 1
           q == n \div BITS
           s == n % BITS
           z == BITS * q
           p == 2 ^ INT_BITS
           h == 2 ^ (INT_BITS - 1)
           w == W(i)
<1>1. BITS \in Nat \ {0} /\ INT_BITS \in Nat \ {0} /\ INT_BITS - 1 \in Nat /\ (INT_BITS - 1) + 1 = INT_BITS
      /\ n \in Nat
  BY LongIntAssumption
<1>2. q \in Nat /\ s \in 0 .. BITS - 1 /\ n = q * BITS + s
  BY ONLY <1>1, DivisionIs
<1>3. q = Covered
  BY DEF Covered
<1> HIDE DEF q, s
<1>4. BITS * q >= INT_BITS /\ BITS * q \in Nat
  <2>1. q * BITS \in Nat /\ BITS * q = q * BITS
    BY <1>1, <1>2
  <2> DEFINE y == q * BITS
  <2>2. y \in Nat /\ INT_BITS + BITS - 1 = y + s
    BY <2>1, <1>2
  <2> HIDE DEF y
  <2>3. y >= INT_BITS
    BY <2>2, <1>1, <1>2
  <2> QED BY <2>1, <2>3 DEF y
<1>5. PICK j \in Nat : i = q + j
  <2>1. i - q \in Nat /\ i = q + (i - q)
    BY <1>2, <1>3
  <2> QED BY <2>1
<1>6. PICK k \in Nat : BITS * i = INT_BITS + k
  <2>1. BITS * i = BITS * q + BITS * j /\ BITS * j \in Nat
    BY <1>1, <1>2, <1>5
  <2> DEFINE y == BITS * j
             y2 == BITS * q
             y3 == BITS * i
  <2>2. y3 = y2 + y /\ y \in Nat /\ y2 \in Nat /\ y2 >= INT_BITS
    BY <2>1, <1>4
  <2> HIDE DEF y, y2, y3
  <2>3. y3 - INT_BITS \in Nat /\ y3 = INT_BITS + (y3 - INT_BITS)
    BY <2>2, <1>1
  <2> QED BY <2>3 DEF y3
<1>7. w \in Nat /\ w >= p /\ p = 2 * h /\ h \in Nat \ {0} /\ p \in Nat
  <2>1. 2 ^ (INT_BITS + k) = 2 ^ INT_BITS * 2 ^ k /\ 2 ^ k \in Nat \ {0}
    BY <1>1, PowerSum, PowerStep
  <2>2. w = p * 2 ^ k
    BY <1>6, <2>1 DEF W
  <2>3. 2 ^ ((INT_BITS - 1) + 1) = 2 * 2 ^ (INT_BITS - 1) /\ 2 ^ (INT_BITS - 1) \in Nat \ {0}
    BY <1>1, PowerStep
  <2>4. p = 2 * h /\ h \in Nat \ {0}
    BY <2>3, <1>1
  <2> DEFINE y == 2 ^ k
  <2> HIDE DEF p, h, w, y
  <2>5. PICK g \in Nat : y = 1 + g
    <3>1. y - 1 \in Nat /\ y = 1 + (y - 1)
      BY <2>1 DEF y
    <3> QED BY <3>1
  <2>6. p * y = p + p * g /\ p * g \in Nat /\ p \in Nat
    BY <2>4, <2>5
  <2> QED BY <2>2, <2>4, <2>6 DEF y
<1>8. t \in Int /\ -h <= t /\ t <= h - 1
  BY <1>7 DEF Others
<1> HIDE DEF p, h, w
<1>9. CASE t < 0
  <2> DEFINE r == t + w
             o == -1
  <2>1. r \in 0 .. w - 1 /\ w \in Nat \ {0} /\ o \in Int
    BY <1>7, <1>8, <1>9
  <2>2. t = o * w + r
    BY <1>7, <1>8
  <2> HIDE DEF r, o
  <2>3. t \div w = o
    BY <2>1, <2>2, <1>8, IntDivisionUnique
  <2> QED BY <2>3, <1>9 DEF o, w
<1>10. CASE ~ (t < 0)
  <2> DEFINE o == 0
  <2>1. t \in 0 .. w - 1 /\ w \in Nat \ {0} /\ o \in Int
    BY <1>7, <1>8, <1>10
  <2>2. t = o * w + t
    BY <1>7, <1>8
  <2> HIDE DEF o
  <2>3. t \div w = o
    BY <2>1, <2>2, <1>8, IntDivisionUnique
  <2> QED BY <2>3, <1>10 DEF o, w
<1> QED BY <1>9, <1>10

LEMMA AssignIsDigits ==
  ASSUME NEW t \in Others, NEW fill \in 0 .. BASE - 1
  PROVE  /\ AssignInt(t, fill) \in LongInts
         /\ \A i \in Places : i <= Covered => AssignInt(t, fill)[i] = (t \div W(i - 1)) % BASE
         /\ \A i \in Places : ~ (i <= Covered) => AssignInt(t, fill)[i] = fill
<1>1. t \in Int /\ BASE \in Nat \ {0} /\ BITS \in Nat
  <2>1. INT_BITS - 1 \in Nat
    BY LongIntAssumption
  <2>2. 2 ^ (INT_BITS - 1) \in Nat
    BY <2>1, PowerStep
  <2> QED BY <2>2, BaseIs DEF Others
<1>2. \A i \in Places : /\ 2 ^ ((i - 1) * BITS) = W(i - 1)
                        /\ (t \div W(i - 1)) % BASE \in 0 .. BASE - 1
  <2> TAKE i \in Places
  <2>1. i - 1 \in Nat
    BY BaseIs DEF Places
  <2>2. (i - 1) * BITS = BITS * (i - 1)
    BY <2>1, <1>1
  <2>3. W(i - 1) \in Nat \ {0}
    BY <2>1, WeightsAre
  <2> DEFINE w == W(i - 1)
             q == t \div w
  <2>4. q \in Int
    <3> HIDE DEF w
    <3>1. w \in Nat \ {0}
      BY <2>3 DEF w
    <3> QED BY <3>1, <1>1, IntDivisionIs
  <2>5. q % BASE \in 0 .. BASE - 1
    <3> HIDE DEF q
    <3> QED BY <2>4, <1>1, ModIs
  <2> QED BY <2>2, <2>5 DEF W
<1>3. AssignInt(t, fill) = [i \in Places |-> IF i <= Covered THEN (t \div W(i - 1)) % BASE ELSE fill]
  BY <1>2 DEF AssignInt
<1> QED BY <1>2, <1>3 DEF LongInts

LEMMA AssignSame ==
  ASSUME NEW t \in Others, NEW fill, fill = IF t < 0 THEN BASE - 1 ELSE 0
  PROVE  /\ AssignInt(t, fill) \in LongInts
         /\ Same(Unsigned(AssignInt(t, fill)), t)
<1> DEFINE r == AssignInt(t, fill)
           Q(m) == t \div W(m)
           E == {m \in 0 .. DIGITS : Values(r)[m] + Q(m) * W(m) = t}
           o == 0
<1>1. t \in Int /\ BASE \in Nat \ {0} /\ BASE >= 2 /\ DIGITS \in Nat /\ DIGITS >= 1 /\ fill \in 0 .. BASE - 1
      /\ Covered \in Int
  <2>1. INT_BITS - 1 \in Nat /\ BITS \in Nat \ {0} /\ INT_BITS + BITS - 1 \in Nat
    BY LongIntAssumption
  <2>2. 2 ^ (INT_BITS - 1) \in Nat
    BY <2>1, PowerStep
  <2>3. Covered \in Int
    <3> DEFINE n == INT_BITS + BITS - 1
    <3> HIDE DEF n
    <3>1. n \div BITS \in Nat
      BY <2>1, DivisionIs DEF n
    <3> QED BY <3>1 DEF Covered, n
  <2>4. BASE \in Nat \ {0} /\ BASE >= 2 /\ DIGITS \in Nat /\ DIGITS >= 1
    BY BaseIs
  <2> QED BY <2>2, <2>3, <2>4 DEF Others
<1>2. /\ r \in LongInts
      /\ \A i \in Places : i <= Covered => r[i] = (t \div W(i - 1)) % BASE
      /\ \A i \in Places : ~ (i <= Covered) => r[i] = fill
  BY <1>1, AssignIsDigits
<1> HIDE DEF r
<1>3. \A i \in Nat : Q(i) \in Int /\ W(i) \in Nat \ {0}
  <2> TAKE i \in Nat
  <2> DEFINE w == W(i)
  <2>1. w \in Nat \ {0}
    BY WeightsAre
  <2> HIDE DEF w
  <2>2. t \div w \in Int
    BY <2>1, <1>1, IntDivisionIs
  <2> QED BY <2>1, <2>2 DEF w
<1>4. \A i \in Places : r[i] = Q(i - 1) % BASE
  <2> TAKE i \in Places
  <2>1. CASE i <= Covered
    BY <2>1, <1>2
  <2>2. CASE ~ (i <= Covered)
    <3>1. i - 1 \in Nat /\ i - 1 >= Covered
      <4>1. i \in Nat /\ i >= 1
        BY <1>1 DEF Places
      <4> QED BY <4>1, <2>2, <1>1
    <3> DEFINE j == i - 1
    <3> HIDE DEF j
    <3>2. Q(j) = IF t < 0 THEN -1 ELSE 0
      <4>1. j \in Nat /\ j >= Covered
        BY <3>1 DEF j
      <4> QED BY <4>1, BeyondCovered
    <3>3. (-1) % BASE = BASE - 1 /\ 0 % BASE = 0
      BY <1>1
    <3>4. Q(j) % BASE = fill
      <4> HIDE DEF Q
      <4> QED BY <3>2, <3>3
    <3> QED BY <3>4, <2>2, <1>2 DEF j
  <2> QED BY <2>1, <2>2
<1>5. \A i \in Nat : Q(i) = Q(i + 1) * BASE + (Q(i) % BASE)
  <2> TAKE i \in Nat
  <2> DEFINE w == W(i)
             b == BASE
             q == t \div w
  <2>1. W(i + 1) = b * w /\ w \in Nat \ {0} /\ b \in Nat \ {0}
    BY WeightsAre, <1>1
  <2> HIDE DEF w, b
  <2>2. t \div (b * w) = q \div b
    BY <2>1, <1>1, IntDivideTwice
  <2>3. q \in Int
    BY <2>1, <1>1, IntDivisionIs
  <2> HIDE DEF q
  <2>4. q = (q \div b) * b + (q % b)
    BY <2>1, <2>3, IntDivisionIs
  <2>5. Q(i + 1) = q \div b /\ Q(i) = q
    BY <2>1, <2>2 DEF q, w
  <2> HIDE DEF Q
  <2> QED BY <2>4, <2>5 DEF b
<1>6. o \in E
  <2>1. W(0) = 1 /\ Values(r)[0] = 0 /\ 0 \in 0 .. DIGITS
    BY WeightsAre, <1>1, <1>2, ValuesAre
  <2>2. t \div 1 = t /\ 0 + t * 1 = t
    BY <1>1
  <2> QED BY <2>1, <2>2
<1> HIDE DEF Q
<1>7. ASSUME NEW m \in o .. DIGITS - 1, m \in E PROVE m + 1 \in E
  <2> DEFINE h == m + 1
             b == BASE
             w == W(m)
             q == Q(m)
             d == q % b
             q1 == Q(h)
             v == Values(r)[m]
  <2>1. h \in Places /\ h - 1 = m /\ h \in 0 .. DIGITS /\ m \in 0 .. DIGITS /\ m \in Nat /\ h \in Nat
    BY <1>1 DEF Places
  <2>2. q = q1 * b + d /\ q \in Int /\ q1 \in Int /\ w \in Nat /\ W(h) = b * w /\ b \in Int
    <3>1. q = q1 * b + d /\ q \in Int /\ w \in Nat /\ b \in Int
      <4>1. \A i \in Nat : Q(i) = Q(i + 1) * b + (Q(i) % b)
        BY <1>5
      <4>2. q = q1 * b + d
        <5> HIDE DEF b
        <5> QED BY ONLY <4>1, <2>1 DEF q, q1, d, h
      <4>3. q \in Int /\ w \in Nat /\ b \in Int
        BY <2>1, <1>1, <1>3
      <4> QED BY <4>2, <4>3
    <3>2. q1 \in Int
      <4> HIDE DEF h
      <4> QED BY <2>1, <1>3
    <3>3. W(h) = b * w
      BY <2>1, WeightsAre
    <3> QED BY <3>1, <3>2, <3>3
  <2>3. Values(r)[h] = v + d * w /\ v \in Nat
    <3> HIDE DEF h
    <3>1. Values(r)[h] = Values(r)[h - 1] + r[h] * W(h - 1)
      BY <2>1, <1>2, ValuesAre
    <3>2. r[h] = Q(h - 1) % BASE
      BY <2>1, <1>4
    <3>3. Values(r)[m] \in Nat
      BY <2>1, <1>2, ValuesAre
    <3> QED BY <3>1, <3>2, <3>3, <2>1
  <2>4. v + q * w = t
    BY <1>7
  <2>5. d \in Int
    <3> HIDE DEF q, b
    <3>1. b \in Nat \ {0}
      BY <1>1 DEF b
    <3>2. d \in 0 .. b - 1
      BY <3>1, <2>2, ModIs
    <3> QED BY <3>1, <3>2
  <2> HIDE DEF d, v, q, q1, w, b, h
  <2>6. (q1 * b + d) * w = q1 * (b * w) + d * w /\ q1 * (b * w) \in Int /\ d * w \in Int
    BY <2>2, <2>5
  <2> DEFINE x1 == q1 * (b * w)
             x2 == d * w
  <2>7. v + (x1 + x2) = t /\ x1 \in Int /\ x2 \in Int /\ Values(r)[h] = v + x2
    BY <2>2, <2>3, <2>4, <2>6
  <2>8. Values(r)[h] + x1 = t
    <3> HIDE DEF x1, x2
    <3> QED BY <2>7, <2>3
  <2>9. Values(r)[h] + Q(h) * W(h) = t
    BY <2>8, <2>2 DEF q1
  <2> QED BY <2>9, <2>1 DEF h
<1> HIDE DEF E
<1>8. \A m \in 0 .. DIGITS : m \in E
  <2>1. o \in Nat
    OBVIOUS
  <2> HIDE DEF o
  <2>2. \A m \in o .. DIGITS : m \in E
    BY <2>1, <1>1, <1>6, <1>7, StepByStep
  <2> QED BY <2>2 DEF o
<1>9. Unsigned(r) + Q(DIGITS) * MODULUS = t
  <2>1. DIGITS \in 0 .. DIGITS /\ MODULUS = W(DIGITS)
    BY <1>1, BaseIs
  <2>2. Values(r)[DIGITS] + Q(DIGITS) * W(DIGITS) = t
    BY <2>1, <1>8 DEF E
  <2> QED BY <2>1, <2>2, <1>2, UnsignedIs
<1>10. Same(Unsigned(r), t)
  <2> DEFINE u == Unsigned(r)
             q == Q(DIGITS)
  <2>1. u \in Int /\ q \in Int /\ t = u + q * MODULUS
    BY <1>1, <1>2, <1>3, <1>9, UnsignedIs
  <2> HIDE DEF u, q
  <2>2. Same(t, u)
    BY <2>1, <1>1, SameIs
  <2>3. Same(u, t)
    BY <2>1, <2>2, <1>1, SameTurns
  <2> QED BY <2>3 DEF u
<1> QED BY <1>2, <1>10 DEF r

\* The width of a number, from its leading zeros.
LEMMA LeadingZeros ==
  ASSUME NEW d \in 1 .. BASE - 1,
         NEW z, z = Min({y \in 0 .. BITS - 1 : d >= 2 ^ (BITS - 1 - y)})
  PROVE  z \in 0 .. BITS - 1 /\ d >= 2 ^ (BITS - 1 - z) /\ d < 2 ^ (BITS - z)
<1> DEFINE S == {y \in 0 .. BITS - 1 : d >= 2 ^ (BITS - 1 - y)}
<1>1. BITS \in Nat /\ BITS >= 1 /\ d \in Nat /\ d >= 1 /\ d < BASE
  BY BaseIs
<1>2. S \in SUBSET Nat /\ S # {}
  <2>1. BITS - 1 \in S
    <3>1. BITS - 1 \in 0 .. BITS - 1 /\ BITS - 1 - (BITS - 1) = 0
      BY <1>1
    <3>2. 2 ^ 0 = 1
      BY PowerStep
    <3> QED BY <3>1, <3>2, <1>1
  <2>2. S \subseteq 0 .. BITS - 1 /\ 0 .. BITS - 1 \subseteq Nat
    BY <1>1
  <2> HIDE DEF S
  <2> QED BY <2>1, <2>2
<1>3. z \in S /\ \A y \in S : z <= y
  <2> HIDE DEF S
  <2>1. z = Min(S)
    BY DEF S
  <2> QED BY ONLY <2>1, <1>2, MinIsLeast
<1>4. d < 2 ^ (BITS - z)
  <2>1. CASE z = 0
    <3>1. BITS - z = BITS
      BY <2>1, <1>1
    <3> QED BY <3>1, <1>1 DEF BASE
  <2>2. CASE z # 0
    <3> DEFINE y == z - 1
    <3>1. y \in 0 .. BITS - 1 /\ y < z /\ BITS - 1 - y = BITS - z /\ y \in Int /\ z \in Int /\ BITS - z \in Nat
      BY <2>2, <1>1, <1>3
    <3> HIDE DEF y
    <3>2. y \notin S
      <4>1. ASSUME y \in S PROVE FALSE
        <5>1. z <= y
          BY <4>1, <1>3
        <5> QED BY <5>1, <3>1
      <4> QED BY <4>1
    <3>3. ~ (d >= 2 ^ (BITS - z))
      BY <3>1, <3>2
    <3>4. 2 ^ (BITS - z) \in Nat
      BY <3>1, PowerStep
    <3> DEFINE w == 2 ^ (BITS - z)
    <3>5. w \in Nat /\ ~ (d >= w)
      BY <3>3, <3>4
    <3> HIDE DEF w
    <3>6. d < w
      BY <3>5, <1>1
    <3> QED BY <3>6 DEF w
  <2> QED BY <2>1, <2>2
<1> QED BY <1>3, <1>4

LEMMA WidthIsRight ==
  ASSUME NEW x \in LongInts
  PROVE  LET width == DIGITS * BITS - countl_zero(x)
         IN  /\ Unsigned(x) < 2 ^ width
             /\ width > 0 => Unsigned(x) >= 2 ^ (width - 1)
<1> DEFINE S == {0} \cup {j \in Places : x[j] # 0}
           i == Max(S)
           width == DIGITS * BITS - countl_zero(x)
           u == Unsigned(x)
<1>1. DIGITS \in Nat /\ DIGITS >= 1 /\ BITS \in Nat /\ BITS >= 1 /\ BASE \in Nat /\ BASE >= 2
  BY BaseIs
<1>2. i \in S /\ \A y \in S : y <= i
  <2>1. S \in SUBSET (0 .. DIGITS) /\ S # {}
    BY <1>1 DEF Places
  <2> HIDE DEF S
  <2> QED BY <2>1, <1>1, MaxIsGreatest
<1> HIDE DEF i
<1>3. i \in 0 .. DIGITS /\ (i # 0 => i \in Places /\ x[i] # 0) /\ \A j \in i + 1 .. DIGITS : x[j] = 0
  <2>1. i \in 0 .. DIGITS /\ (i # 0 => i \in Places /\ x[i] # 0)
    BY <1>2, <1>1 DEF Places
  <2>2. ASSUME NEW j \in i + 1 .. DIGITS PROVE x[j] = 0
    <3>1. j \in Places /\ ~ (j <= i)
      BY <2>1, <1>1 DEF Places
    <3> QED BY <3>1, <1>2
  <2> QED BY <2>1, <2>2
<1>4. u = Values(x)[i]
  <2> DEFINE P == {j \in i .. DIGITS : Values(x)[j] = Values(x)[i]}
  <2>1. i \in Nat /\ i \in P /\ i <= DIGITS
    BY <1>3, <1>1
  <2>2. ASSUME NEW j \in i .. DIGITS - 1, j \in P PROVE j + 1 \in P
    <3> DEFINE h == j + 1
    <3>1. h \in Places /\ h - 1 = j /\ h \in i + 1 .. DIGITS /\ j \in Nat /\ h \in i .. DIGITS /\ j \in 0 .. DIGITS
      BY <2>1, <1>1 DEF Places
    <3> HIDE DEF h
    <3>2. Values(x)[h] = Values(x)[h - 1] + x[h] * W(h - 1)
      BY <3>1, ValuesAre
    <3>3. x[h] = 0 /\ W(j) \in Nat /\ Values(x)[j] \in Nat
      BY <3>1, <1>3, WeightsAre, ValuesAre
    <3>4. 0 * W(j) = 0 /\ Values(x)[j] + 0 = Values(x)[j]
      BY <3>3
    <3>5. Values(x)[h] = Values(x)[i]
      BY <3>1, <3>2, <3>3, <3>4, <2>2
    <3> QED BY <3>1, <3>5 DEF h
  <2> HIDE DEF P
  <2>3. \A j \in i .. DIGITS : j \in P
    BY <2>1, <2>2, <1>1, StepByStep
  <2>4. DIGITS \in i .. DIGITS
    BY <2>1, <1>1
  <2> QED BY <2>3, <2>4, UnsignedIs DEF P
<1>5. CASE i = 0
  <2>1. countl_zero(x) = DIGITS * BITS /\ DIGITS * BITS \in Nat
    <3>1. DIGITS * BITS \in Nat
      BY <1>1
    <3> QED BY <1>5, <3>1 DEF countl_zero, i
  <2>2. width = 0
    <3> DEFINE y == DIGITS * BITS
    <3>1. y \in Nat /\ width = y - y
      BY <2>1
    <3> HIDE DEF y, width
    <3> QED BY <3>1
  <2>3. u = 0
    BY <1>4, <1>5, ValuesAre
  <2> HIDE DEF width
  <2>4. 2 ^ 0 = 1
    BY PowerStep
  <2> HIDE DEF u
  <2>5. u < 2 ^ width /\ (width > 0 => u >= 2 ^ (width - 1))
    BY <2>2, <2>3, <2>4
  <2> QED BY <2>5 DEF width, u
<1>6. CASE i # 0
  <2> DEFINE d == x[i]
             z == Min({y \in 0 .. BITS - 1 : d >= 2 ^ (BITS - 1 - y)})
             lo == Values(x)[i - 1]
             w == W(i - 1)
             p == 2 ^ (BITS - z)
             q == 2 ^ (BITS - 1 - z)
  <2>1. i \in Places /\ i - 1 \in Nat /\ d \in 1 .. BASE - 1 /\ i \in Nat /\ i >= 1
    <3>1. i \in Places /\ d # 0 /\ i \in Nat /\ i >= 1
      BY <1>1, <1>3, <1>6 DEF Places
    <3>2. d \in 0 .. BASE - 1
      BY <3>1 DEF LongInts
    <3> QED BY <3>1, <3>2
  <2>2. z \in 0 .. BITS - 1 /\ d >= q /\ d < p
    <3> HIDE DEF d
    <3>1. d \in 1 .. BASE - 1
      BY <2>1
    <3> QED BY <3>1, LeadingZeros
  <2>3. countl_zero(x) = (DIGITS - i) * BITS + z
    BY <1>6 DEF countl_zero, i
  <2>4. u = lo + d * w /\ lo \in Nat /\ lo < w /\ w \in Nat \ {0}
    <3>1. u = lo + d * w
      BY <1>4, <2>1, ValuesAre
    <3>2. i - 1 \in 0 .. DIGITS
      BY <2>1, <1>3, <1>1
    <3>3. lo \in Nat /\ lo < w
      <4> DEFINE j == i - 1
      <4>1. j \in 0 .. DIGITS
        BY <3>2
      <4> HIDE DEF j
      <4>2. Values(x)[j] \in Nat /\ Values(x)[j] < W(j)
        BY <4>1, ValuesAre
      <4> QED BY <4>2 DEF j
    <3> QED BY <3>1, <3>3, <2>1, WeightsAre
  <2> HIDE DEF z
  <2>5. width = BITS * (i - 1) + (BITS - z) /\ BITS * (i - 1) \in Nat
    <3>1. (DIGITS - i) * BITS = DIGITS * BITS - i * BITS /\ DIGITS * BITS \in Int /\ i * BITS \in Int
          /\ BITS * (i - 1) = i * BITS - BITS /\ BITS * (i - 1) \in Nat
      BY <1>1, <2>1
    <3> DEFINE y == DIGITS * BITS
               g == i * BITS
               g1 == BITS * (i - 1)
    <3>2. width = y - ((y - g) + z) /\ y \in Int /\ g \in Int /\ g1 = g - BITS
      BY <2>3, <3>1
    <3> HIDE DEF y, g, g1, width
    <3>3. width = g1 + (BITS - z)
      BY <3>2, <2>2, <1>1
    <3> QED BY <3>1, <3>3 DEF g1
  <2>6. BITS - z \in Nat /\ BITS - 1 - z \in Nat /\ BITS - z >= 1
    BY <2>2, <1>1
  <2>7. 2 ^ width = w * p /\ p \in Nat /\ q \in Nat /\ 2 ^ (width - 1) = w * q
    <3> DEFINE g1 == BITS * (i - 1)
    <3>1. g1 \in Nat /\ width = g1 + (BITS - z) /\ width - 1 = g1 + (BITS - 1 - z)
      <4>1. g1 \in Nat /\ width = g1 + (BITS - z)
        BY <2>5
      <4> HIDE DEF g1, width
      <4> QED BY <4>1, <2>2, <1>1
    <3>2. w = 2 ^ g1
      BY DEF W
    <3> HIDE DEF g1, width, w
    <3>3. 2 ^ (g1 + (BITS - z)) = 2 ^ g1 * 2 ^ (BITS - z) /\ 2 ^ (g1 + (BITS - 1 - z)) = 2 ^ g1 * 2 ^ (BITS - 1 - z)
      BY <3>1, <2>6, PowerSum
    <3> QED BY <3>1, <3>2, <3>3, <2>6, PowerStep
  <2>8. u < w * p /\ u >= w * q
    <3> DEFINE e == p - d - 1
               f == d - q
    <3>1. e \in Nat /\ f \in Nat /\ p = d + 1 + e /\ d = q + f /\ d \in Nat
      <4> HIDE DEF d, p, q
      <4> QED BY <2>1, <2>2, <2>7, <1>1
    <3> HIDE DEF e, f, d, p, q, w, lo, u
    <3>2. w * p = d * w + w + e * w /\ e * w \in Nat /\ d * w \in Nat
      BY <3>1, <2>4, <2>7
    <3>3. d * w = w * q + f * w /\ f * w \in Nat /\ w * q \in Nat
      BY <3>1, <2>4, <2>7
    <3> DEFINE dw == d * w
               ew == e * w
               fw == f * w
               wp == w * p
               wq == w * q
    <3>4. u = lo + dw /\ wp = dw + w + ew /\ dw = wq + fw /\ ew \in Nat /\ dw \in Nat /\ fw \in Nat /\ wq \in Nat
      BY <2>4, <3>2, <3>3
    <3> HIDE DEF dw, ew, fw, wp, wq
    <3>5. u < wp /\ u >= wq
      BY <3>4, <2>4
    <3> QED BY <3>5 DEF wp, wq
  <2> HIDE DEF width, w, p, q, u
  <2> QED BY <2>7, <2>8 DEF width, u
<1> QED BY <1>5, <1>6

----------------------------------------------------------------------------
(* Bitwise operators *)

LEMMA OrIsDigit ==
  ASSUME NEW p \in Nat, NEW q \in Nat
  PROVE  OrSame(p, q) \in 0 .. BASE - 1
<1>1. Ones(p) \cup Ones(q) \in SUBSET (0 .. BITS - 1)
  BY OnesAre
<1> QED BY <1>1, OnesOfBits DEF OrSame

\* A shift to the right has digits whatever becomes of the bits in between.
LEMMA ShiftRightType ==
  ASSUME NEW kind, NEW x \in LongInts, NEW k \in Nat, NEW kept \in BOOLEAN
  PROVE  ShiftRight(kind, x, k, kept) \in LongInts
<1> DEFINE n == k \div BITS
           b == k % BITS
           r == ShiftRight(kind, x, k, kept)
           neg == is_negative(kind, x)
           sign == IF neg THEN BASE - 1 ELSE 0
           Low(i)  == IF i + n = DIGITS /\ neg
                      THEN (x[DIGITS] - BASE) \div 2 ^ b + BASE
                      ELSE x[i + n] \div 2 ^ b
           High(i) == CASE i + n >= DIGITS -> 0
                        [] i + n < DIGITS /\ b # 0 -> (x[i + n + 1] * 2 ^ (BITS - b)) % BASE
                        [] i + n < DIGITS /\ b = 0 -> IF kept THEN x[i + n + 1] ELSE 0
           New(i) == IF i + n > DIGITS THEN sign ELSE OrSame(Low(i), High(i))
<1>1. n \in Nat /\ b \in 0 .. BITS /\ DIGITS \in Nat /\ BASE \in Nat /\ BASE >= 2 /\ DIGITS >= 1
  <2>1. n \in Nat /\ b \in 0 .. BITS - 1
    BY ShiftParts
  <2> HIDE DEF n, b
  <2> QED BY <2>1, BaseIs
<1>2. CASE k = 0
  <2>1. n = 0 /\ ~ (n >= DIGITS)
    <3>1. BITS \in Nat \ {0}
      BY LongIntAssumption
    <3>2. 0 \div BITS = 0
      <4> DEFINE z == 0
      <4>1. z \in Int /\ z \in 0 .. BITS - 1 /\ z = z * BITS + z
        BY <3>1
      <4> HIDE DEF z
      <4>2. z \div BITS = z
        BY <4>1, <3>1, IntDivisionUnique
      <4> QED BY <4>2 DEF z
    <3> HIDE DEF n
    <3>3. n = 0
      BY <1>2, <3>2 DEF n
    <3> QED BY <3>3, <1>1
  <2> QED BY <2>1, <1>2 DEF ShiftRight
<1>3. CASE k # 0 /\ n >= DIGITS
  BY <1>3, SmallNumbers DEF ShiftRight
<1>4. CASE k # 0 /\ n < DIGITS
  <2> HIDE DEF n, b, r, neg
  <2>1. r = [i \in Places |-> New(i)]
    <3>1. ~ (n >= DIGITS)
      BY <1>1, <1>4
    <3>2. \A i \in Places : i \in Nat
      BY <1>1 DEF Places
    <3>3. r = [i \in Places |-> IF i + n > DIGITS THEN sign ELSE OrSame(Low(i),
                CASE i + n >= DIGITS -> 0
                  [] i + n < DIGITS /\ b # 0 -> (x[i + n + 1] * 2 ^ (BITS - b)) % BASE
                  [] OTHER -> IF kept THEN x[i + n + 1] ELSE 0)]
      BY <1>4, <3>1 DEF ShiftRight, n, b, r, neg
    <3>4. \A i \in Places : /\ i + n \in Nat
                           /\ (~ (i + n >= DIGITS)) <=> i + n < DIGITS
      BY <1>1, <3>2
    <3>5. \A i \in Places : (CASE i + n >= DIGITS -> 0
                  [] i + n < DIGITS /\ b # 0 -> (x[i + n + 1] * 2 ^ (BITS - b)) % BASE
                  [] OTHER -> IF kept THEN x[i + n + 1] ELSE 0) = High(i)
      <4> SUFFICES ASSUME NEW i \in Places
                   PROVE (CASE i + n >= DIGITS -> 0
                            [] i + n < DIGITS /\ b # 0 -> (x[i + n + 1] * 2 ^ (BITS - b)) % BASE
                            [] OTHER -> IF kept THEN x[i + n + 1] ELSE 0) = High(i)
        OBVIOUS
      <4> DEFINE past == i + n >= DIGITS
                 within == i + n < DIGITS
                 some == b # 0
                 none == b = 0
                 part == (x[i + n + 1] * 2 ^ (BITS - b)) % BASE
                 whole == IF kept THEN x[i + n + 1] ELSE 0
      <4>1. (~ past <=> within) /\ (~ some <=> none)
        <5> DEFINE h == i + n
        <5>1. h \in Nat /\ b \in Nat /\ DIGITS \in Nat
          <6>1. h \in Nat
            BY <3>2, <1>1
          <6>2. b \in Nat
            BY <1>1, LongIntAssumption
          <6> QED BY <6>1, <6>2, <1>1
        <5> HIDE DEF h
        <5>2. (~ (h >= DIGITS) <=> h < DIGITS) /\ (~ (b # 0) <=> b = 0)
          BY <5>1
        <5> QED BY <5>2 DEF h
      <4>2. (CASE past -> 0 [] within /\ some -> part [] OTHER -> whole)
              = (CASE past -> 0 [] within /\ some -> part [] within /\ none -> whole)
        <5> HIDE DEF past, within, some, none, part, whole
        <5> QED BY <4>1
      <4> QED BY <4>2
    <3> HIDE DEF sign, Low
    <3> HIDE DEF High
    <3> QED BY <3>3, <3>5
  <2>2. ASSUME NEW i \in Places PROVE New(i) \in 0 .. BASE - 1
    <3> DEFINE h == i + n
    <3>1. i \in Nat /\ h \in Nat /\ h >= 1 /\ DIGITS \in Places
      BY <1>1 DEF Places
    <3> HIDE DEF h
    <3>2. CASE h > DIGITS
      <4>1. New(i) = sign
        BY <3>2 DEF h
      <4>2. sign \in 0 .. BASE - 1
        BY <1>1
      <4> HIDE DEF New, sign
      <4> QED BY <4>1, <4>2
    <3>3. CASE h <= DIGITS
      <4>1. h \in Places /\ ~ (h > DIGITS)
        BY <3>1, <3>3, <1>1 DEF Places
      <4>2. New(i) = OrSame(Low(i), High(i))
        BY <4>1 DEF h
      <4>3. \A d \in 0 .. BASE - 1 : Stays(d, b) \in Nat /\ Comes(d, b) \in Nat
                                     /\ (d * 2 ^ (BITS - b)) % BASE = Comes(d, b)
                                     /\ (d - BASE) \div 2 ^ b + BASE = Stays(d, b) + Comes(BASE - 1, b)
        BY <1>1, ShiftedRight, SignComes
      <4>4. \A j \in Places : x[j] \in 0 .. BASE - 1 /\ x[j] \in Nat
        BY <1>1 DEF LongInts
      <4>5. Low(i) \in Nat
        <5>1. CASE h = DIGITS /\ neg
          <6>1. Low(i) = (x[DIGITS] - BASE) \div 2 ^ b + BASE
            BY <5>1 DEF h
          <6>2. Low(i) = Stays(x[DIGITS], b) + Comes(BASE - 1, b)
            BY <6>1, <4>3, <4>4, <3>1
          <6>3. BASE - 1 \in 0 .. BASE - 1
            BY <1>1
          <6>4. Stays(x[DIGITS], b) \in Nat /\ Comes(BASE - 1, b) \in Nat
            BY <6>3, <4>3, <4>4, <3>1
          <6> HIDE DEF Low
          <6> QED BY <6>2, <6>4
        <5>2. CASE ~ (h = DIGITS /\ neg)
          <6>1. Low(i) = Stays(x[h], b)
            BY <5>2 DEF h, Stays
          <6> HIDE DEF Low
          <6> QED BY <6>1, <4>1, <4>3, <4>4
        <5> QED BY <5>1, <5>2
      <4>6. High(i) \in Nat
        <5>1. CASE h = DIGITS
          <6>1. High(i) = 0
            BY <5>1, <3>1, <1>1 DEF h
          <6> HIDE DEF High
          <6> QED BY <6>1
        <5>2. CASE h < DIGITS
          <6>1. h + 1 \in Places /\ ~ (h >= DIGITS)
            BY <5>2, <3>1, <1>1 DEF Places
          <6> DEFINE g == x[h + 1]
          <6>2. CASE b # 0
            <7>1. High(i) = (g * 2 ^ (BITS - b)) % BASE
              BY <6>1, <6>2, <5>2, <1>1 DEF h
            <7>2. High(i) = Comes(g, b) /\ Comes(g, b) \in Nat
              <8> HIDE DEF High
              <8>1. g \in 0 .. BASE - 1
                BY <6>1, <4>4
              <8> HIDE DEF g
              <8> QED BY <7>1, <8>1, <4>3
            <7> HIDE DEF High
            <7> QED BY <7>2
          <6>3. CASE b = 0
            <7>1. High(i) = IF kept THEN g ELSE 0
              BY <6>1, <6>3, <5>2, <1>1 DEF h
            <7> HIDE DEF High
            <7> QED BY <7>1, <6>1, <4>4
          <6> QED BY <6>2, <6>3
        <5> QED BY <5>1, <5>2, <3>1, <3>3, <1>1
      <4> HIDE DEF Low, High, New
      <4> QED BY <4>2, <4>5, <4>6, OrIsDigit
    <3> QED BY <3>1, <3>2, <3>3, <1>1
  <2> HIDE DEF New
  <2>3. r \in LongInts
    BY <2>1, <2>2 DEF LongInts
  <2> QED BY <2>3 DEF r
<1>5. n < DIGITS \/ n >= DIGITS
  <2> HIDE DEF n
  <2> QED BY <1>1
<1> QED BY <1>2, <1>3, <1>4, <1>5

\* The bitwise operators, digit by digit.
LEMMA BitwiseType ==
  ASSUME NEW x \in LongInts, NEW y \in LongInts
  PROVE  /\ BitAnd(x, y) \in LongInts /\ BitsOf(BitAnd(x, y)) = BitsOf(x) \cap BitsOf(y)
         /\ BitOr(x, y) \in LongInts /\ BitsOf(BitOr(x, y)) = BitsOf(x) \cup BitsOf(y)
         /\ BitXor(x, y) \in LongInts
         /\ BitsOf(BitXor(x, y)) = (BitsOf(x) \ BitsOf(y)) \cup (BitsOf(y) \ BitsOf(x))
<1>1. \A i \in Places : Ones(x[i]) \in SUBSET (0 .. BITS - 1) /\ Ones(y[i]) \in SUBSET (0 .. BITS - 1)
  <2> TAKE i \in Places
  <2>1. x[i] \in Nat /\ y[i] \in Nat
    BY BaseIs DEF LongInts
  <2> QED BY <2>1, OnesAre
<1>2. /\ BitAnd(x, y) \in LongInts
      /\ \A i \in Places : Ones(BitAnd(x, y)[i]) = Ones(x[i]) \cap Ones(y[i])
  <2>1. \A i \in Places : /\ FromOnes(Ones(x[i]) \cap Ones(y[i])) \in 0 .. BASE - 1
                          /\ Ones(FromOnes(Ones(x[i]) \cap Ones(y[i]))) = Ones(x[i]) \cap Ones(y[i])
    <3> TAKE i \in Places
    <3>1. Ones(x[i]) \cap Ones(y[i]) \in SUBSET (0 .. BITS - 1)
      BY <1>1
    <3> QED BY <3>1, OnesOfBits
  <2> QED BY <2>1 DEF BitAnd, LongInts
<1>3. /\ BitOr(x, y) \in LongInts
      /\ \A i \in Places : Ones(BitOr(x, y)[i]) = Ones(x[i]) \cup Ones(y[i])
  <2>1. \A i \in Places : /\ FromOnes(Ones(x[i]) \cup Ones(y[i])) \in 0 .. BASE - 1
                          /\ Ones(FromOnes(Ones(x[i]) \cup Ones(y[i]))) = Ones(x[i]) \cup Ones(y[i])
    <3> TAKE i \in Places
    <3>1. Ones(x[i]) \cup Ones(y[i]) \in SUBSET (0 .. BITS - 1)
      BY <1>1
    <3> QED BY <3>1, OnesOfBits
  <2> QED BY <2>1 DEF BitOr, LongInts
<1>4. /\ BitXor(x, y) \in LongInts
      /\ \A i \in Places : Ones(BitXor(x, y)[i]) = (Ones(x[i]) \ Ones(y[i])) \cup (Ones(y[i]) \ Ones(x[i]))
  <2>1. \A i \in Places :
           /\ FromOnes((Ones(x[i]) \ Ones(y[i])) \cup (Ones(y[i]) \ Ones(x[i]))) \in 0 .. BASE - 1
           /\ Ones(FromOnes((Ones(x[i]) \ Ones(y[i])) \cup (Ones(y[i]) \ Ones(x[i]))))
                = (Ones(x[i]) \ Ones(y[i])) \cup (Ones(y[i]) \ Ones(x[i]))
    <3> TAKE i \in Places
    <3>1. (Ones(x[i]) \ Ones(y[i])) \cup (Ones(y[i]) \ Ones(x[i])) \in SUBSET (0 .. BITS - 1)
      BY <1>1
    <3> QED BY <3>1, OnesOfBits
  <2>2. BitXor(x, y) = [i \in Places |-> FromOnes((Ones(x[i]) \ Ones(y[i])) \cup (Ones(y[i]) \ Ones(x[i])))]
    BY DEF BitXor, SymDiff
  <2> QED BY <2>1, <2>2 DEF LongInts
<1>5. BitsOf(BitAnd(x, y)) = BitsOf(x) \cap BitsOf(y)
  <2> DEFINE r == BitAnd(x, y)
  <2>1. r \in LongInts /\ \A i \in Places : Ones(r[i]) = Ones(x[i]) \cap Ones(y[i])
    BY <1>2
  <2> HIDE DEF r
  <2>3. x \in LongInts /\ y \in LongInts
    OBVIOUS
  <2>2. BitsOf(r) = BitsOf(x) \cap BitsOf(y)
    BY ONLY <2>1, <2>3, CommonBits
  <2> QED BY <2>2 DEF r
<1>6. BitsOf(BitOr(x, y)) = BitsOf(x) \cup BitsOf(y)
  <2> DEFINE r == BitOr(x, y)
  <2>1. r \in LongInts /\ \A i \in Places : Ones(r[i]) = Ones(x[i]) \cup Ones(y[i])
    BY <1>3
  <2> HIDE DEF r
  <2>3. x \in LongInts /\ y \in LongInts
    OBVIOUS
  <2>2. BitsOf(r) = BitsOf(x) \cup BitsOf(y)
    BY ONLY <2>1, <2>3, EitherBits
  <2> QED BY <2>2 DEF r
<1>7. BitsOf(BitXor(x, y)) = (BitsOf(x) \ BitsOf(y)) \cup (BitsOf(y) \ BitsOf(x))
  <2> DEFINE r == BitXor(x, y)
  <2>1. r \in LongInts /\ \A i \in Places : Ones(r[i]) = (Ones(x[i]) \ Ones(y[i])) \cup (Ones(y[i]) \ Ones(x[i]))
    BY <1>4
  <2> HIDE DEF r
  <2>3. x \in LongInts /\ y \in LongInts
    OBVIOUS
  <2>2. BitsOf(r) = (BitsOf(x) \ BitsOf(y)) \cup (BitsOf(y) \ BitsOf(x))
    BY ONLY <2>1, <2>3, OddBits
  <2> QED BY <2>2 DEF r
<1> QED BY <1>2, <1>3, <1>4, <1>5, <1>6, <1>7

----------------------------------------------------------------------------
(* Each operator *)

LEMMA CongruentTo ==
  ASSUME NEW kind, NEW r \in LongInts, NEW v \in Int, Same(Unsigned(r), v)
  PROVE  (Signed(kind, r) - v) % MODULUS = 0
BY SignedResult, SignedSame, SameMeans

LEMMA SumIsRight ==
  ASSUME NEW kind, NEW x \in LongInts, NEW y \in LongInts
  PROVE  /\ Plus(x, y) \in LongInts
         /\ (Signed(kind, Plus(x, y)) - (Signed(kind, x) + Signed(kind, y))) % MODULUS = 0
<1> DEFINE r == Plus(x, y)
           u == Unsigned(r)
           ux == Unsigned(x)
           uy == Unsigned(y)
           sx == Signed(kind, x)
           sy == Signed(kind, y)
           v == ux + uy
           w == sx + sy
<1>1. r \in LongInts /\ Same(u, v)
  BY PlusSame
<1>2. u \in Int /\ ux \in Int /\ uy \in Int /\ sx \in Int /\ sy \in Int /\ Same(ux, sx) /\ Same(uy, sy)
  BY <1>1, SignedSame
<1> HIDE DEF u, ux, uy, sx, sy
<1>3. v \in Int /\ w \in Int /\ Same(v, w)
  BY <1>2, SamePlus
<1> HIDE DEF v, w
<1>4. Same(u, w)
  BY <1>1, <1>2, <1>3, SameChain
<1>5. (Signed(kind, r) - w) % MODULUS = 0
  <2> HIDE DEF r
  <2> QED BY <1>1, <1>3, <1>4, CongruentTo DEF u
<1> QED BY <1>1, <1>5 DEF w, sx, sy

LEMMA DifferenceIsRight ==
  ASSUME NEW kind, NEW x \in LongInts, NEW y \in LongInts
  PROVE  /\ Minus(x, y) \in LongInts
         /\ (Signed(kind, Minus(x, y)) - (Signed(kind, x) - Signed(kind, y))) % MODULUS = 0
<1> DEFINE r == Minus(x, y)
           u == Unsigned(r)
           ux == Unsigned(x)
           uy == Unsigned(y)
           sx == Signed(kind, x)
           sy == Signed(kind, y)
           v == ux - uy
           w == sx - sy
<1>1. r \in LongInts /\ Same(u, v)
  BY MinusSame
<1>2. u \in Int /\ ux \in Int /\ uy \in Int /\ sx \in Int /\ sy \in Int /\ Same(ux, sx) /\ Same(uy, sy)
  BY <1>1, SignedSame
<1> HIDE DEF u, ux, uy, sx, sy
<1>3. v \in Int /\ w \in Int /\ Same(v, w)
  BY <1>2, SameDifferences
<1> HIDE DEF v, w
<1>4. Same(u, w)
  BY <1>1, <1>2, <1>3, SameChain
<1>5. (Signed(kind, r) - w) % MODULUS = 0
  <2> HIDE DEF r
  <2> QED BY <1>1, <1>3, <1>4, CongruentTo DEF u
<1> QED BY <1>1, <1>5 DEF w, sx, sy

LEMMA ProductIsRight ==
  ASSUME NEW kind, NEW x \in LongInts, NEW y \in LongInts
  PROVE  /\ Times(kind, x, y) \in LongInts
         /\ (Signed(kind, Times(kind, x, y)) - Signed(kind, x) * Signed(kind, y)) % MODULUS = 0
<1> DEFINE r == Times(kind, x, y)
           w == Signed(kind, x) * Signed(kind, y)
<1>1. r \in LongInts /\ Same(Unsigned(r), w)
  BY TimesSame
<1>2. w \in Int
  BY SignedIs
<1> HIDE DEF r, w
<1>3. (Signed(kind, r) - w) % MODULUS = 0
  BY <1>1, <1>2, CongruentTo
<1> QED BY <1>1, <1>3 DEF r, w

LEMMA NegationsAreRight ==
  ASSUME NEW kind, NEW x \in LongInts
  PROVE  /\ Negate(x) \in LongInts
         /\ (Signed(kind, Negate(x)) - (-Signed(kind, x))) % MODULUS = 0
         /\ Complement(x) \in LongInts
         /\ (Signed(kind, Complement(x)) - (-Signed(kind, x) - 1)) % MODULUS = 0
<1> DEFINE n == Negate(x)
           c == Complement(x)
           ux == Unsigned(x)
           sx == Signed(kind, x)
           v == -ux
           w == -sx
           one == 1
           v1 == v - one
           w1 == w - one
<1>1. n \in LongInts /\ Same(Unsigned(n), v) /\ c \in LongInts /\ Same(Unsigned(c), v1)
  BY NegateSame, ComplementSame
<1>2. /\ ux \in Int /\ sx \in Int /\ Same(ux, sx) /\ Unsigned(n) \in Int /\ Unsigned(c) \in Int /\ one \in Int
  BY <1>1, SignedSame
<1> HIDE DEF ux, sx, one, n, c
<1>3. v \in Int /\ w \in Int /\ Same(v, w)
  BY <1>2, SameNegative
<1> HIDE DEF v, w
<1>4. v1 \in Int /\ w1 \in Int /\ Same(v1, w1)
  <2>1. Same(one, one)
    BY <1>2, SameAsItself
  <2> QED BY <2>1, <1>2, <1>3, SameDifferences
<1> HIDE DEF v1, w1
<1>5. Same(Unsigned(n), w) /\ Same(Unsigned(c), w1)
  BY <1>1, <1>2, <1>3, <1>4, SameChain
<1>6. (Signed(kind, n) - w) % MODULUS = 0 /\ (Signed(kind, c) - w1) % MODULUS = 0
  BY <1>1, <1>3, <1>4, <1>5, CongruentTo
<1> QED BY <1>1, <1>6 DEF n, c, w1, w, sx, one

LEMMA StepsAreRight ==
  ASSUME NEW kind, NEW x \in LongInts
  PROVE  /\ (Signed(kind, Plus(x, ONE)) - (Signed(kind, x) + 1)) % MODULUS = 0
         /\ (Signed(kind, Minus(x, ONE)) - (Signed(kind, x) - 1)) % MODULUS = 0
<1> DEFINE p == Plus(x, ONE)
           m == Minus(x, ONE)
           ux == Unsigned(x)
           sx == Signed(kind, x)
           one == 1
           v == ux + one
           w == sx + one
           v1 == ux - one
           w1 == sx - one
<1>1. p \in LongInts /\ Same(Unsigned(p), v) /\ m \in LongInts /\ Same(Unsigned(m), v1)
  <2>1. ONE \in LongInts /\ Unsigned(ONE) = 1
    BY SmallNumbers, SmallUnsigned
  <2>2. /\ Plus(x, ONE) \in LongInts /\ Same(Unsigned(Plus(x, ONE)), Unsigned(x) + Unsigned(ONE))
        /\ Minus(x, ONE) \in LongInts /\ Same(Unsigned(Minus(x, ONE)), Unsigned(x) - Unsigned(ONE))
    BY <2>1, PlusSame, MinusSame
  <2> QED BY <2>1, <2>2
<1>2. /\ ux \in Int /\ sx \in Int /\ Same(ux, sx) /\ Unsigned(p) \in Int /\ Unsigned(m) \in Int /\ one \in Int
  BY <1>1, SignedSame
<1> HIDE DEF ux, sx, one, p, m
<1>3. Same(one, one)
  BY <1>2, SameAsItself
<1>4. v \in Int /\ w \in Int /\ Same(v, w) /\ v1 \in Int /\ w1 \in Int /\ Same(v1, w1)
  BY <1>2, <1>3, SamePlus, SameDifferences
<1> HIDE DEF v, w, v1, w1
<1>5. Same(Unsigned(p), w) /\ Same(Unsigned(m), w1)
  BY <1>1, <1>2, <1>4, SameChain
<1>6. (Signed(kind, p) - w) % MODULUS = 0 /\ (Signed(kind, m) - w1) % MODULUS = 0
  BY <1>1, <1>4, <1>5, CongruentTo
<1> QED BY <1>6 DEF p, m, w1, w, sx, one

LEMMA ShiftLeftIsRight ==
  ASSUME NEW kind, NEW x \in LongInts, NEW k \in Nat
  PROVE  /\ ShiftLeft(x, k) \in LongInts
         /\ (Signed(kind, ShiftLeft(x, k)) - Signed(kind, x) * 2 ^ k) % MODULUS = 0
<1> DEFINE r == ShiftLeft(x, k)
           e == 2 ^ k
           ux == Unsigned(x)
           sx == Signed(kind, x)
           v == e * ux
           w == e * sx
<1>1. r \in LongInts /\ Same(Unsigned(r), v)
  BY ShiftLeftSame
<1>2. e \in Int /\ ux \in Int /\ sx \in Int /\ Same(ux, sx) /\ Unsigned(r) \in Int
  <2>1. e \in Nat
    BY PowerStep
  <2>2. ux \in Int /\ sx \in Int /\ Same(ux, sx) /\ Unsigned(r) \in Int
    BY <1>1, SignedSame
  <2> HIDE DEF e, ux, sx
  <2> QED BY <2>1, <2>2
<1> HIDE DEF e, ux, sx, r
<1>3. v \in Int /\ w \in Int /\ Same(v, w) /\ w = sx * e
  <2>1. v \in Int /\ w \in Int /\ w = sx * e
    BY <1>2
  <2>2. Same(v, w)
    BY <1>2, SameTimes
  <2> QED BY <2>1, <2>2
<1> HIDE DEF v, w
<1>4. (Signed(kind, r) - w) % MODULUS = 0
  BY <1>1, <1>2, <1>3, SameChain, CongruentTo
<1>5. (Signed(kind, r) - sx * e) % MODULUS = 0
  BY <1>3, <1>4
<1> QED BY <1>1, <1>5 DEF r, sx, e

----------------------------------------------------------------------------
(* What the operations compute *)

LongSpec == LongInit /\ [][LongNext]_long

LongOps == {"none", "+", "-", "*", "neg", "~", "++", "--", "&", "|", "^", "<<", ">>", "="}
LongType ==
    long \in [kind : Kinds, op : LongOps, a : LongInts, b : LongInts, k : Int,
              kept : BOOLEAN, result : LongInts]

\* The result is what the operation makes of its operands.
Computed ==
    /\ long.op = "+"   => long.result = Plus(long.a, long.b)
    /\ long.op = "-"   => long.result = Minus(long.a, long.b)
    /\ long.op = "*"   => long.result = Times(long.kind, long.a, long.b)
    /\ long.op = "neg" => long.result = Negate(long.a)
    /\ long.op = "~"   => long.result = Complement(long.a)
    /\ long.op = "++"  => long.result = Plus(long.a, ONE)
    /\ long.op = "--"  => long.result = Minus(long.a, ONE)
    /\ long.op = "&"   => long.result = BitAnd(long.a, long.b)
    /\ long.op = "|"   => long.result = BitOr(long.a, long.b)
    /\ long.op = "^"   => long.result = BitXor(long.a, long.b)
    /\ long.op = "<<"  => long.k \in Shifts /\ long.result = ShiftLeft(long.a, long.k)
    /\ long.op = ">>"  => /\ long.k \in Shifts /\ long.kept \in Overshifts(long.kind)
                          /\ long.result = ShiftRight(long.kind, long.a, long.k, long.kept)
    /\ long.op = "="   => long.k \in Others /\ long.result = Assign(long.kind, long.k)

LongInv == LongType /\ Computed

LEMMA ShiftsAre == Shifts \subseteq Nat /\ Others \subseteq Int
<1>1. DIGITS \in Nat /\ BITS \in Nat /\ INT_BITS - 1 \in Nat
  BY LongIntAssumption
<1>2. 2 ^ (INT_BITS - 1) \in Nat
  BY <1>1, PowerStep
<1>3. (DIGITS + 1) * BITS \in Nat
  BY <1>1
<1> QED BY <1>2, <1>3 DEF Shifts, Others

LEMMA AssignIsRight ==
  ASSUME NEW kind \in Kinds, NEW t \in Others
  PROVE  /\ Assign(kind, t) \in LongInts
         /\ t >= 0 \/ (kind.copy = "float-add" /\ kind.signed)
              => (Signed(kind, Assign(kind, t)) - t) % MODULUS = 0
<1> DEFINE fill == IF kind.copy = "float-add" /\ kind.signed /\ t < 0 THEN BASE - 1 ELSE 0
           r == AssignInt(t, fill)
<1>1. Assign(kind, t) = r
  BY DEF Assign, AssignFloatAdd, AssignNextPrev
<1>2. fill \in 0 .. BASE - 1 /\ t \in Int
  BY BaseIs, ShiftsAre
<1>3. r \in LongInts
  <2> HIDE DEF fill
  <2> QED BY <1>2, AssignIsDigits
<1>4. ASSUME t >= 0 \/ (kind.copy = "float-add" /\ kind.signed)
      PROVE  (Signed(kind, r) - t) % MODULUS = 0
  <2>1. fill = IF t < 0 THEN BASE - 1 ELSE 0
    BY <1>4, <1>2
  <2> HIDE DEF fill
  <2>2. Same(Unsigned(r), t)
    BY <2>1, AssignSame
  <2> HIDE DEF r
  <2> QED BY <1>2, <1>3, <2>2, CongruentTo
<1> HIDE DEF r
<1> QED BY <1>1, <1>3, <1>4

\* A shift of a narrow digit by all of its bits leaves nothing of it.
LEMMA ShiftRightIsRight ==
  ASSUME NEW kind, NEW x \in LongInts, NEW k \in Nat, NEW kept \in Overshifts(kind)
  PROVE  /\ ShiftRight(kind, x, k, kept) \in LongInts
         /\ k < DIGITS * BITS /\ (k > 0 /\ k % BITS = 0 => ~ kind.wide)
              => Signed(kind, ShiftRight(kind, x, k, kept)) = Signed(kind, x) \div 2 ^ k
<1>1. kept \in BOOLEAN /\ (~ kind.wide => kept = FALSE)
  BY DEF Overshifts
<1>2. ASSUME k < DIGITS * BITS, k > 0 /\ k % BITS = 0 => ~ kind.wide
      PROVE  k \div BITS < DIGITS /\ (k # 0 => (kept => k % BITS # 0))
  <2>1. k # 0 => (kept => k % BITS # 0)
    BY <1>1, <1>2
  <2>2. k \div BITS < DIGITS
    <3> DEFINE n == k \div BITS
               b == k % BITS
    <3>1. DIGITS \in Nat /\ BITS \in Nat \ {0}
      BY LongIntAssumption
    <3>2. n \in Nat /\ b \in Nat /\ k = n * BITS + b
      BY <3>1, DivisionIs
    <3> HIDE DEF n, b
    <3>3. ASSUME n >= DIGITS PROVE FALSE
      <4>1. PICK j \in Nat : n = DIGITS + j
        <5>1. n - DIGITS \in Nat
          BY <3>1, <3>2, <3>3
        <5> QED BY <5>1, <3>1, <3>2
      <4>2. n * BITS = DIGITS * BITS + j * BITS /\ j * BITS \in Nat /\ DIGITS * BITS \in Nat
        BY <4>1, <3>1
      <4> QED BY <4>2, <3>2, <1>2
    <3>4. n < DIGITS
      BY <3>1, <3>2, <3>3
    <3> QED BY <3>4 DEF n
  <2> QED BY <2>1, <2>2
<1>3. ShiftRight(kind, x, k, kept) \in LongInts
  BY <1>1, ShiftRightType
<1> QED BY <1>1, <1>2, <1>3, ShiftRightSigned

LEMMA LongInitInv == LongInit => LongInv
<1> SUFFICES ASSUME LongInit PROVE LongInv
  OBVIOUS
<1>1. PICK kind \in Kinds, a \in LongInts :
        long = [kind |-> kind, op |-> "none", a |-> a, b |-> ZERO, k |-> 0,
                kept |-> FALSE, result |-> ZERO]
  BY DEF LongInit
<1>2. LongType
  BY <1>1, SmallNumbers DEF LongType, LongOps
<1>3. Computed
  BY <1>1 DEF Computed
<1> QED BY <1>2, <1>3 DEF LongInv

LEMMA LongNextInv == LongInv /\ [LongNext]_long => LongInv'
<1> SUFFICES ASSUME LongInv, [LongNext]_long PROVE LongInv'
  OBVIOUS
<1> DEFINE x == long.a
           kind == long.kind
<1>1. LongType /\ x \in LongInts /\ kind \in Kinds /\ ONE \in LongInts
  BY SmallNumbers DEF LongInv, LongType
<1>2. CASE Arithmetic
  <2>1. PICK b \in LongInts :
          \/ long' = [long EXCEPT !.op = "+", !.b = b, !.result = Plus(long.a, b)]
          \/ long' = [long EXCEPT !.op = "-", !.b = b, !.result = Minus(long.a, b)]
          \/ long' = [long EXCEPT !.op = "*", !.b = b, !.result = Times(long.kind, long.a, b)]
    BY <1>2 DEF Arithmetic
  <2>2. Plus(x, b) \in LongInts /\ Minus(x, b) \in LongInts /\ Times(kind, x, b) \in LongInts
    BY <1>1, SumIsRight, DifferenceIsRight, ProductIsRight
  <2>3. LongType'
    BY <1>1, <2>1, <2>2 DEF LongType, LongOps
  <2>4. Computed'
    BY <1>1, <2>1 DEF Computed, LongType
  <2> QED BY <2>3, <2>4 DEF LongInv
<1>3. CASE Bitwise
  <2>1. PICK b \in LongInts :
          \/ long' = [long EXCEPT !.op = "&", !.b = b, !.result = BitAnd(long.a, b)]
          \/ long' = [long EXCEPT !.op = "|", !.b = b, !.result = BitOr(long.a, b)]
          \/ long' = [long EXCEPT !.op = "^", !.b = b, !.result = BitXor(long.a, b)]
    BY <1>3 DEF Bitwise
  <2>2. BitAnd(x, b) \in LongInts /\ BitOr(x, b) \in LongInts /\ BitXor(x, b) \in LongInts
    BY <1>1, BitwiseType
  <2>3. LongType'
    BY <1>1, <2>1, <2>2 DEF LongType, LongOps
  <2>4. Computed'
    BY <1>1, <2>1 DEF Computed, LongType
  <2> QED BY <2>3, <2>4 DEF LongInv
<1>4. CASE Unary \/ Increment \/ Decrement
  <2>1. \/ long' = [long EXCEPT !.op = "neg", !.result = Negate(long.a)]
        \/ long' = [long EXCEPT !.op = "~", !.result = Complement(long.a)]
        \/ long' = [long EXCEPT !.op = "++", !.result = Plus(long.a, ONE)]
        \/ long' = [long EXCEPT !.op = "--", !.result = Minus(long.a, ONE)]
    BY <1>4 DEF Unary, Increment, Decrement
  <2>2. /\ Negate(x) \in LongInts /\ Complement(x) \in LongInts
        /\ Plus(x, ONE) \in LongInts /\ Minus(x, ONE) \in LongInts
    BY <1>1, NegationsAreRight, SumIsRight, DifferenceIsRight
  <2>3. LongType'
    BY <1>1, <2>1, <2>2 DEF LongType, LongOps
  <2>4. Computed'
    BY <1>1, <2>1 DEF Computed, LongType
  <2> QED BY <2>3, <2>4 DEF LongInv
<1>5. CASE Shift
  <2>1. PICK k \in Shifts :
          \/ long' = [long EXCEPT !.op = "<<", !.k = k, !.result = ShiftLeft(long.a, k)]
          \/ \E kept \in Overshifts(long.kind) :
                long' = [long EXCEPT !.op = ">>", !.k = k, !.kept = kept,
                                     !.result = ShiftRight(long.kind, long.a, k, kept)]
    BY <1>5 DEF Shift
  <2>2. k \in Nat /\ k \in Int
    BY ShiftsAre
  <2>3. CASE long' = [long EXCEPT !.op = "<<", !.k = k, !.result = ShiftLeft(long.a, k)]
    <3>1. ShiftLeft(x, k) \in LongInts
      BY <1>1, <2>2, ShiftLeftIsRight
    <3>2. LongType'
      BY <1>1, <2>2, <2>3, <3>1 DEF LongType, LongOps
    <3>3. Computed'
      BY <1>1, <2>3 DEF Computed, LongType
    <3> QED BY <3>2, <3>3 DEF LongInv
  <2>4. ASSUME NEW kept \in Overshifts(long.kind),
               long' = [long EXCEPT !.op = ">>", !.k = k, !.kept = kept,
                                    !.result = ShiftRight(long.kind, long.a, k, kept)]
        PROVE  LongInv'
    <3>1. ShiftRight(kind, x, k, kept) \in LongInts
      BY <1>1, <2>2, ShiftRightIsRight
    <3>2. kept \in BOOLEAN
      BY DEF Overshifts
    <3>3. LongType'
      BY <1>1, <2>2, <2>4, <3>1, <3>2 DEF LongType, LongOps
    <3>4. Computed'
      BY <1>1, <2>4 DEF Computed, LongType
    <3> QED BY <3>3, <3>4 DEF LongInv
  <2> QED BY <2>1, <2>3, <2>4
<1>6. CASE AssignOther
  <2>1. PICK t \in Others :
          long' = [long EXCEPT !.op = "=", !.k = t, !.result = Assign(long.kind, t)]
    BY <1>6 DEF AssignOther
  <2>2. t \in Int /\ Assign(kind, t) \in LongInts
    BY <1>1, ShiftsAre, AssignIsRight
  <2>3. LongType'
    BY <1>1, <2>1, <2>2 DEF LongType, LongOps
  <2>4. Computed'
    BY <1>1, <2>1 DEF Computed, LongType
  <2> QED BY <2>3, <2>4 DEF LongInv
<1>7. CASE UNCHANGED long
  BY <1>7 DEF LongInv, LongType, Computed
<1> QED BY <1>2, <1>3, <1>4, <1>5, <1>6, <1>7 DEF LongNext

LEMMA LongInvWorks == LongInv => LongIntWorks
<1> SUFFICES ASSUME LongInv PROVE LongIntWorks
  OBVIOUS
<1> DEFINE kind == long.kind
           x == long.a
           y == long.b
           z == long.result
           k == long.k
           kept == long.kept
<1>1. /\ kind \in Kinds /\ x \in LongInts /\ y \in LongInts /\ z \in LongInts /\ k \in Int
      /\ long.op \in LongOps /\ Computed
  BY DEF LongInv, LongType
<1>2. \A w \in LongInts : ValueOf(w) = Signed(kind, w)
  BY SignedIs DEF ValueOf
<1> DEFINE sx == ValueOf(x)
           sy == ValueOf(y)
           sz == ValueOf(z)
           C(v) == (sz - v) % MODULUS = 0
<1>3. sx = Signed(kind, x) /\ sy = Signed(kind, y) /\ sz = Signed(kind, z)
  BY <1>1, <1>2
<1>4. ASSUME ~ Excepted PROVE Works
  <2>1. Works <=> CASE long.op = "+"   -> C(sx + sy)
                    [] long.op = "-"   -> C(sx - sy)
                    [] long.op = "*"   -> C(sx * sy)
                    [] long.op = "neg" -> C(-sx)
                    [] long.op = "~"   -> C(-sx - 1)
                    [] long.op = "++"  -> C(sx + 1)
                    [] long.op = "--"  -> C(sx - 1)
                    [] long.op = "&"   -> BitsOf(z) = BitsOf(x) \cap BitsOf(y)
                    [] long.op = "|"   -> BitsOf(z) = BitsOf(x) \cup BitsOf(y)
                    [] long.op = "^"   -> BitsOf(z) = SymDiff(BitsOf(x), BitsOf(y))
                    [] long.op = "<<"  -> C(sx * 2 ^ k)
                    [] long.op = ">>"  -> sz = sx \div 2 ^ k
                    [] long.op = "="   -> C(k)
                    [] OTHER -> TRUE
    BY DEF Works
  <2>2. long.op = "+" => C(sx + sy)
    BY <1>1, <1>3, SumIsRight DEF Computed
  <2>3. long.op = "-" => C(sx - sy)
    BY <1>1, <1>3, DifferenceIsRight DEF Computed
  <2>4. long.op = "*" => C(sx * sy)
    BY <1>1, <1>3, ProductIsRight DEF Computed
  <2>5. /\ long.op = "neg" => C(-sx)
        /\ long.op = "~" => C(-sx - 1)
    BY <1>1, <1>3, NegationsAreRight DEF Computed
  <2>6. /\ long.op = "++" => C(sx + 1)
        /\ long.op = "--" => C(sx - 1)
    BY <1>1, <1>3, StepsAreRight DEF Computed
  <2>7. /\ long.op = "&" => BitsOf(z) = BitsOf(x) \cap BitsOf(y)
        /\ long.op = "|" => BitsOf(z) = BitsOf(x) \cup BitsOf(y)
        /\ long.op = "^" => BitsOf(z) = SymDiff(BitsOf(x), BitsOf(y))
    BY <1>1, BitwiseType DEF Computed, SymDiff
  <2>8. long.op = "<<" => C(sx * 2 ^ k)
    <3>1. long.op = "<<" => k \in Nat /\ z = ShiftLeft(x, k)
      BY <1>1, ShiftsAre DEF Computed
    <3> QED BY <1>1, <1>3, <3>1, ShiftLeftIsRight
  <2>9. long.op = ">>" => sz = sx \div 2 ^ k
    <3>1. long.op = ">>" => k \in Nat /\ kept \in Overshifts(kind) /\ z = ShiftRight(kind, x, k, kept)
      BY <1>1, ShiftsAre DEF Computed
    <3>2. long.op = ">>" => k < DIGITS * BITS /\ (k > 0 /\ k % BITS = 0 => ~ kind.wide)
      <4>1. DIGITS * BITS \in Int
        BY BaseIs
      <4> DEFINE all == DIGITS * BITS
      <4>2. long.op = ">>" => ~ (k >= all) /\ (k > 0 /\ k % BITS = 0 => ~ kind.wide)
        BY <1>4 DEF Excepted
      <4> HIDE DEF all
      <4>3. long.op = ">>" => k < all /\ (k > 0 /\ k % BITS = 0 => ~ kind.wide)
        BY <4>1, <4>2, <1>1 DEF all
      <4> QED BY <4>3 DEF all
    <3> QED BY <1>1, <1>3, <3>1, <3>2, ShiftRightIsRight
  <2>10. long.op = "=" => C(k)
    <3>1. long.op = "=" => k \in Others /\ z = Assign(kind, k)
      BY <1>1 DEF Computed
    <3>2. long.op = "=" => k >= 0 \/ (kind.copy = "float-add" /\ kind.signed)
      BY <1>1, <1>4 DEF Excepted, Kinds
    <3> QED BY <1>1, <1>3, <3>1, <3>2, AssignIsRight
  <2> HIDE DEF C, sx, sy, sz, x, y, z, k
  <2> DEFINE op == long.op
             A1 == C(sx + sy)
             A2 == C(sx - sy)
             A3 == C(sx * sy)
             A4 == C(-sx)
             A5 == C(-sx - 1)
             A6 == C(sx + 1)
             A7 == C(sx - 1)
             B1 == BitsOf(z) = BitsOf(x) \cap BitsOf(y)
             B2 == BitsOf(z) = BitsOf(x) \cup BitsOf(y)
             B3 == BitsOf(z) = SymDiff(BitsOf(x), BitsOf(y))
             S1 == C(sx * 2 ^ k)
             S2 == sz = sx \div 2 ^ k
             S3 == C(k)
  <2>11. /\ op = "+" => A1
         /\ op = "-" => A2
         /\ op = "*" => A3
         /\ op = "neg" => A4
         /\ op = "~" => A5
         /\ op = "++" => A6
         /\ op = "--" => A7
         /\ op = "&" => B1
         /\ op = "|" => B2
         /\ op = "^" => B3
         /\ op = "<<" => S1
         /\ op = ">>" => S2
         /\ op = "=" => S3
    BY <2>2, <2>3, <2>4, <2>5, <2>6, <2>7, <2>8, <2>9, <2>10
  <2>12. Works <=> CASE op = "+" -> A1 [] op = "-" -> A2 [] op = "*" -> A3 [] op = "neg" -> A4
                     [] op = "~" -> A5 [] op = "++" -> A6 [] op = "--" -> A7 [] op = "&" -> B1
                     [] op = "|" -> B2 [] op = "^" -> B3 [] op = "<<" -> S1 [] op = ">>" -> S2
                     [] op = "=" -> S3 [] OTHER -> TRUE
    BY <2>1
  <2>13. op \in LongOps
    BY <1>1
  <2> HIDE DEF op, A1, A2, A3, A4, A5, A6, A7, B1, B2, B3, S1, S2, S3
  <2> QED BY ONLY <2>11, <2>12, <2>13 DEF LongOps
<1>5. Less(kind, x, y) <=> sx < sy
  BY <1>1, <1>3, LessIsRight
<1>6. is_even(x) <=> Unsigned(x) % 2 = 0
  BY <1>1, EvenIsRight
<1>7. long_is_zero(x) <=> Unsigned(x) = 0
  BY <1>1, ZeroIsRight
<1>8. LET width == DIGITS * BITS - countl_zero(x)
      IN  /\ Unsigned(x) < 2 ^ width
          /\ width > 0 => Unsigned(x) >= 2 ^ (width - 1)
  BY <1>1, WidthIsRight
<1> QED BY <1>4, <1>5, <1>6, <1>7, <1>8 DEF LongIntWorks

\* Every operation of LongInt.hpp keeps the digits in their range, and what it
\* stores is what it makes of its operands.
THEOREM LongIntInvariant == LongSpec => []LongInv
<1>1. LongInit => LongInv
  BY LongInitInv
<1>2. LongInv /\ [LongNext]_long => LongInv'
  BY LongNextInv
<1> QED BY <1>1, <1>2, PTL DEF LongSpec

\* For any number of digits of any width, with a sign or without: +, -, *, the
\* negations and << compute modulo 2 to the width what they do of integers, >>
\* divides, the bitwise operators take the bits one by one, < is the order of
\* the values, and zero, parity and width are those of the number; with the
\* exceptions that LongIntWorks names.
THEOREM LongIntsWork == LongSpec => []LongIntWorks
<1>1. LongInv => LongIntWorks
  BY LongInvWorks
<1> QED BY <1>1, LongIntInvariant, PTL

----------------------------------------------------------------------------
(* The digits that the loops of LongIntSteps write *)

\* A number of which a loop has written the digits before or behind a place.
Upto(r, x, i)   == [n \in Places |-> IF n < i THEN r[n] ELSE x[n]]
Behind(r, x, i) == [n \in Places |-> IF n > i THEN r[n] ELSE x[n]]

LEMMA AssignedDigit ==
  ASSUME NEW kind, NEW t, NEW i \in Places
  PROVE  AssignNextPrev(kind, t)[i] = IF (i - 1) * BITS < INT_BITS
                                      THEN (t \div 2 ^ ((i - 1) * BITS)) % BASE
                                      ELSE 0
<1> DEFINE n == INT_BITS + BITS - 1
           q == n \div BITS
           s == n % BITS
           e == (i - 1) * BITS
<1>1. i \in Nat /\ i >= 1 /\ BITS \in Nat \ {0} /\ INT_BITS \in Nat \ {0} /\ n \in Nat
  BY LongIntAssumption DEF Places
<1>2. q \in Nat /\ s \in 0 .. BITS - 1 /\ n = q * BITS + s
  BY ONLY <1>1, DivisionIs
<1>3. i <= q <=> e < INT_BITS
  <2> HIDE DEF q, s
  <2>1. ASSUME i <= q PROVE e < INT_BITS
    <3>1. PICK j \in Nat : q = i + j
      <4>1. q - i \in Nat
        BY <2>1, <1>1, <1>2
      <4> QED BY <4>1, <1>1, <1>2
    <3>2. q * BITS = e + BITS + j * BITS /\ j * BITS \in Nat /\ e \in Nat
      BY <3>1, <1>1
    <3> QED BY <3>2, <1>1, <1>2
  <2>2. ASSUME ~ (i <= q) PROVE ~ (e < INT_BITS)
    <3>1. PICK j \in Nat : i - 1 = q + j
      <4>1. i - 1 - q \in Nat
        BY <2>2, <1>1, <1>2
      <4> QED BY <4>1, <1>1, <1>2
    <3>2. e = q * BITS + j * BITS /\ j * BITS \in Nat /\ q * BITS \in Nat
      BY <3>1, <1>1, <1>2
    <3> HIDE DEF e
    <3> QED BY <3>2, <1>1, <1>2
  <2> QED BY <2>1, <2>2
<1> HIDE DEF e
<1> QED BY <1>3 DEF AssignNextPrev, AssignInt, Covered, e

LEMMA ShiftedLeftDigit ==
  ASSUME NEW x \in LongInts, NEW k \in Nat, NEW i \in Places
  PROVE  LET n == k \div BITS  b == k % BITS  from == i - n
         IN  /\ i <= n => ShiftLeft(x, k)[i] = 0
             /\ i > n => ShiftLeft(x, k)[i]
                          = ((x[from] * 2 ^ b) % BASE)
                            + (IF from > 1 /\ b # 0 THEN x[from - 1] \div 2 ^ (BITS - b) ELSE 0)
<1> DEFINE n == k \div BITS
           b == k % BITS
<1>1. n \in Nat /\ i \in Nat
  BY ShiftParts DEF Places
<1>2. ShiftLeft(x, k)[i] = (IF i > n THEN (x[i - n] * 2 ^ b) % BASE ELSE 0)
                            + (IF i > n + 1 /\ b # 0 THEN x[i - n - 1] \div 2 ^ (BITS - b) ELSE 0)
  BY DEF ShiftLeft
<1> HIDE DEF n, b
<1>3. (i - n > 1 <=> i > n + 1) /\ (i <= n => ~ (i > n) /\ ~ (i > n + 1))
  BY <1>1
<1>4. i <= n => ShiftLeft(x, k)[i] = 0
  BY <1>2, <1>3
<1>5. i > n => ShiftLeft(x, k)[i] = ((x[i - n] * 2 ^ b) % BASE)
                            + (IF i - n > 1 /\ b # 0 THEN x[i - n - 1] \div 2 ^ (BITS - b) ELSE 0)
  BY <1>2, <1>3
<1> QED BY <1>4, <1>5 DEF n, b

\* Division that rounds down keeps a negative digit one.
LEMMA NegativeQuotient ==
  ASSUME NEW c \in Int, NEW m \in Nat \ {0}, NEW e \in Nat \ {0}, c < 0, c >= -m
  PROVE  c \div e \in Int /\ c \div e < 0 /\ c \div e >= -m /\ (c \div e) % m = c \div e + m
<1> DEFINE q == c \div e
           s == c % e
<1>1. q \in Int /\ s \in 0 .. e - 1 /\ c = q * e + s
  BY IntDivisionIs
<1> HIDE DEF q, s
<1>2. ASSUME q >= 0 PROVE FALSE
  <2>1. q \in Nat
    BY <1>1, <1>2
  <2>2. q * e \in Nat
    BY <2>1
  <2> QED BY <1>1, <2>2
<1>3. ASSUME q < c PROVE FALSE
  <2>1. PICK p \in Nat : q = c - 1 - p
    <3>1. c - 1 - q \in Nat
      BY <1>3, <1>1
    <3> QED BY <3>1, <1>1
  <2>2. PICK f \in Nat : e = 1 + f
    <3>1. e - 1 \in Nat
      OBVIOUS
    <3> QED BY <3>1
  <2>3. PICK d \in Nat : c = -1 - d
    <3>1. -1 - c \in Nat
      OBVIOUS
    <3> QED BY <3>1
  <2>4. q = -2 - d - p
    BY <2>1, <2>3
  <2>5. q * e = q + q * f /\ q * f = -(2 * f) - d * f - p * f /\ d * f \in Nat /\ p * f \in Nat
    BY <2>2, <2>4
  <2> QED BY <2>1, <2>2, <2>5, <1>1, <1>3
<1>4. q \in Int /\ q < 0 /\ q >= -m
  BY <1>1, <1>2, <1>3
<1>5. q % m = q + m
  <2> DEFINE u == -1
             r == q + m
  <2>1. u \in Int /\ r \in 0 .. m - 1 /\ q = u * m + r
    BY <1>4
  <2> HIDE DEF u, r
  <2>2. q % m = r
    BY ONLY <1>4, <2>1, m \in Nat \ {0}, IntDivisionUnique
  <2> QED BY <2>2 DEF r
<1> QED BY <1>4, <1>5 DEF q

\* The highest digit that the loop reads as a signed one.
LEMMA SignedDigitShifted ==
  ASSUME NEW kind \in Kinds, NEW x \in LongInts, NEW b \in 0 .. BITS, NEW from \in Places
  PROVE  (IF kind.signed /\ from = DIGITS THEN (SignedDigit(x[from]) \div (2 ^ b)) % BASE
                                          ELSE x[from] \div 2 ^ b)
           = (IF from = DIGITS /\ is_negative(kind, x) THEN (x[DIGITS] - BASE) \div 2 ^ b + BASE
                                                       ELSE x[from] \div 2 ^ b)
<1> DEFINE d == x[from]
           e == 2 ^ b
           h == BASE \div 2
<1>1. d \in 0 .. BASE - 1 /\ BASE \in Nat \ {0} /\ e \in Nat \ {0} /\ kind.signed \in BOOLEAN /\ h \in Nat
  <2>1. e \in Nat \ {0}
    BY BaseParts
  <2>2. d \in 0 .. BASE - 1 /\ BASE \in Nat \ {0} /\ kind.signed \in BOOLEAN /\ h \in Nat
    BY BaseIs, HalfIs DEF LongInts, Kinds
  <2> HIDE DEF d, e, h
  <2> QED BY <2>1, <2>2
<1>2. CASE kind.signed /\ from = DIGITS /\ d >= h
  <2>1. is_negative(kind, x) /\ SignedDigit(d) = d - BASE /\ d = x[DIGITS]
    BY <1>2 DEF is_negative, SignedDigit
  <2>2. ((d - BASE) \div e) % BASE = (d - BASE) \div e + BASE
    <3> DEFINE c == d - BASE
    <3>1. c \in Int /\ c < 0 /\ c >= -BASE
      BY <1>1
    <3> HIDE DEF c, e, d
    <3>2. (c \div e) % BASE = c \div e + BASE
      BY <3>1, <1>1, NegativeQuotient
    <3> QED BY <3>2 DEF c
  <2> HIDE DEF d, e
  <2>3. (IF kind.signed /\ from = DIGITS THEN (SignedDigit(d) \div e) % BASE ELSE d \div e)
          = (IF from = DIGITS /\ is_negative(kind, x) THEN (x[DIGITS] - BASE) \div e + BASE ELSE d \div e)
    BY <1>2, <2>1, <2>2
  <2> QED BY <2>3 DEF d, e
<1>3. CASE kind.signed /\ from = DIGITS /\ ~ (d >= h)
  <2>1. ~ is_negative(kind, x) /\ SignedDigit(d) = d
    BY <1>3 DEF is_negative, SignedDigit
  <2>2. (d \div e) % BASE = d \div e
    <3> DEFINE q == d \div e
               o == 0
    <3>1. q \in Nat /\ q <= d
      <4>1. q = Stays(d, b) /\ BASE \in Nat
        BY <1>1 DEF Stays
      <4> DEFINE s == d % e
      <4>2. d \in Int /\ q \in Int /\ s \in 0 .. e - 1 /\ d = q * e + s /\ q \in Nat
        <5>1. d \in Int
          BY <1>1
        <5>2. q \in Nat
          BY <1>1, <4>1, ShiftedRight
        <5> HIDE DEF d, e
        <5> QED BY <5>1, <5>2, <1>1, IntDivisionIs
      <4>3. PICK f \in Nat : e = 1 + f
        <5>1. e - 1 \in Nat
          BY <1>1
        <5> HIDE DEF e
        <5> QED BY <5>1, <1>1
      <4> HIDE DEF q, s, e, d
      <4>4. q * e = q + q * f /\ q * f \in Nat
        BY <4>2, <4>3
      <4> QED BY <4>2, <4>4, <1>1
    <3> HIDE DEF q
    <3>2. o \in Int /\ q \in 0 .. BASE - 1 /\ q = o * BASE + q /\ q \in Int
      BY <3>1, <1>1
    <3> HIDE DEF o
    <3>3. q % BASE = q
      BY ONLY <3>2, <1>1, IntDivisionUnique
    <3> QED BY <3>3 DEF q
  <2> HIDE DEF d, e
  <2>3. (IF kind.signed /\ from = DIGITS THEN (SignedDigit(d) \div e) % BASE ELSE d \div e)
          = (IF from = DIGITS /\ is_negative(kind, x) THEN (x[DIGITS] - BASE) \div e + BASE ELSE d \div e)
    BY <1>3, <2>1, <2>2
  <2> QED BY <2>3 DEF d, e
<1>4. CASE ~ (kind.signed /\ from = DIGITS)
  BY <1>4 DEF is_negative
<1> QED BY <1>2, <1>3, <1>4

LEMMA ShiftedRightDigit ==
  ASSUME NEW kind \in Kinds, NEW x \in LongInts, NEW k \in Nat \ {0}, NEW kept \in BOOLEAN,
         NEW i \in Places, k \div BITS < DIGITS
  PROVE  LET n == k \div BITS  b == k % BITS  from == i + n
             low == IF kind.signed /\ from = DIGITS THEN (SignedDigit(x[from]) \div (2 ^ b)) % BASE
                                                    ELSE x[from] \div 2 ^ b
             high == CASE from = DIGITS -> 0
                       [] from < DIGITS /\ b # 0 -> (x[from + 1] * 2 ^ (BITS - b)) % BASE
                       [] OTHER -> IF kept THEN x[from + 1] ELSE 0
         IN  /\ from > DIGITS => ShiftRight(kind, x, k, kept)[i]
                                   = IF is_negative(kind, x) THEN BASE - 1 ELSE 0
             /\ from <= DIGITS => ShiftRight(kind, x, k, kept)[i] = FromOnes(Ones(low) \cup Ones(high))
<1> DEFINE n == k \div BITS
           b == k % BITS
           from == i + n
           low == IF kind.signed /\ from = DIGITS THEN (SignedDigit(x[from]) \div (2 ^ b)) % BASE
                                                  ELSE x[from] \div 2 ^ b
           part == (x[from + 1] * 2 ^ (BITS - b)) % BASE
           whole == IF kept THEN x[from + 1] ELSE 0
           high == CASE from = DIGITS -> 0 [] from < DIGITS /\ b # 0 -> part [] OTHER -> whole
           Low == IF from = DIGITS /\ is_negative(kind, x) THEN (x[DIGITS] - BASE) \div 2 ^ b + BASE
                                                           ELSE x[from] \div 2 ^ b
           High == CASE from >= DIGITS -> 0 [] from < DIGITS /\ b # 0 -> part [] OTHER -> whole
<1>1. n \in Nat /\ i \in Nat /\ b \in 0 .. BITS - 1 /\ DIGITS \in Nat /\ BITS \in Nat /\ n < DIGITS /\ i >= 1
  <2>1. k \in Nat
    OBVIOUS
  <2>2. n \in Nat /\ b \in 0 .. BITS - 1
    BY <2>1, ShiftParts
  <2> HIDE DEF b
  <2> QED BY <2>2, BaseIs DEF Places
<1>2. ShiftRight(kind, x, k, kept)[i]
        = IF from > DIGITS THEN IF is_negative(kind, x) THEN BASE - 1 ELSE 0 ELSE OrSame(Low, High)
  <2>1. k # 0 /\ ~ (n >= DIGITS)
    <3> HIDE DEF n
    <3> QED BY <1>1
  <2> QED BY <2>1 DEF ShiftRight
<1>3. from \in Nat /\ from >= 1 /\ b \in 0 .. BITS
  <2> HIDE DEF n, b
  <2> QED BY <1>1
<1>4. from > DIGITS => ShiftRight(kind, x, k, kept)[i] = IF is_negative(kind, x) THEN BASE - 1 ELSE 0
  <2> HIDE DEF from, Low, High
  <2> QED BY <1>2
<1>5. ASSUME from <= DIGITS
      PROVE  ShiftRight(kind, x, k, kept)[i] = FromOnes(Ones(low) \cup Ones(high))
  <2>1. from \in Places /\ ~ (from > DIGITS)
    <3> HIDE DEF from
    <3> QED BY <1>1, <1>3, <1>5 DEF Places
  <2>2. low = Low
    <3> HIDE DEF from, b
    <3> QED BY <2>1, <1>3, SignedDigitShifted
  <2>3. high = High
    <3> DEFINE all == from = DIGITS
               over == from >= DIGITS
               some == from < DIGITS /\ b # 0
    <3>1. all <=> over
      <4> HIDE DEF from
      <4> QED BY <1>1, <1>3, <1>5
    <3>2. (CASE all -> 0 [] some -> part [] OTHER -> whole) = (CASE over -> 0 [] some -> part [] OTHER -> whole)
      <4> HIDE DEF all, over, some, part, whole
      <4> QED BY <3>1
    <3> QED BY <3>2
  <2> HIDE DEF low, high, Low, High, from
  <2> QED BY <1>2, <2>1, <2>2, <2>3 DEF OrSame
<1> QED BY <1>4, <1>5

----------------------------------------------------------------------------
(* Where a comparison and a count end *)

\* The comparisons go down from the highest digit to the first that differs.
LEMMA LessAt ==
  ASSUME NEW kind, NEW x \in LongInts, NEW y \in LongInts
  PROVE  /\ is_negative(kind, x) # is_negative(kind, y) => (Less(kind, x, y) <=> is_negative(kind, x))
         /\ is_negative(kind, x) = is_negative(kind, y) =>
              /\ \A i \in Places : x[i] # y[i] /\ (\A n \in Places : n > i => x[n] = y[n])
                                     => (Less(kind, x, y) <=> x[i] < y[i])
              /\ (\A n \in Places : x[n] = y[n]) => ~ Less(kind, x, y)
         /\ x = y <=> \A n \in Places : x[n] = y[n]
<1>1. DIGITS \in Nat /\ Places = 1 .. DIGITS /\ \A i \in Places : i \in Nat /\ x[i] \in Nat /\ y[i] \in Nat
  BY BaseIs DEF Places, LongInts
<1>2. is_negative(kind, x) # is_negative(kind, y) => (Less(kind, x, y) <=> is_negative(kind, x))
  BY DEF Less
<1>3. ASSUME is_negative(kind, x) = is_negative(kind, y)
      PROVE  Less(kind, x, y) <=> \E i \in Places : x[i] < y[i] /\ \A j \in i + 1 .. DIGITS : x[j] = y[j]
  BY <1>3 DEF Less
<1>4. ASSUME is_negative(kind, x) = is_negative(kind, y), NEW i \in Places, x[i] # y[i],
             \A n \in Places : n > i => x[n] = y[n]
      PROVE  Less(kind, x, y) <=> x[i] < y[i]
  <2>1. ASSUME x[i] < y[i] PROVE Less(kind, x, y)
    <3>1. \A j \in i + 1 .. DIGITS : x[j] = y[j]
      BY <1>1, <1>4
    <3> QED BY <3>1, <2>1, <1>3, <1>4
  <2>2. ASSUME Less(kind, x, y) PROVE x[i] < y[i]
    <3>1. PICK m \in Places : x[m] < y[m] /\ \A j \in m + 1 .. DIGITS : x[j] = y[j]
      BY <2>2, <1>3, <1>4
    <3>2. ~ (m > i)
      BY <3>1, <1>1, <1>4
    <3>3. ~ (m < i)
      <4>1. ASSUME m < i PROVE FALSE
        <5>1. i \in m + 1 .. DIGITS
          BY <4>1, <1>1
        <5> QED BY <5>1, <3>1, <1>4
      <4> QED BY <4>1
    <3>4. m = i
      BY <3>2, <3>3, <1>1
    <3> QED BY <3>1, <3>4
  <2> QED BY <2>1, <2>2
<1>5. ASSUME is_negative(kind, x) = is_negative(kind, y), \A n \in Places : x[n] = y[n]
      PROVE  ~ Less(kind, x, y)
  BY <1>1, <1>3, <1>5
<1>6. x = y <=> \A n \in Places : x[n] = y[n]
  BY DEF LongInts
<1> QED BY <1>2, <1>4, <1>5, <1>6

\* The highest bit that is set is the one that the leading zeros end at.
LEMMA HighestBit ==
  ASSUME NEW d \in 1 .. BASE - 1
  PROVE  /\ Max(Ones(d)) \in 0 .. BITS - 1
         /\ BITS - 1 - Max(Ones(d)) = Min({z \in 0 .. BITS - 1 : d >= 2 ^ (BITS - 1 - z)})
<1> DEFINE z == Min({y \in 0 .. BITS - 1 : d >= 2 ^ (BITS - 1 - y)})
           p == BITS - 1 - z
           S == Ones(d)
<1>1. z \in 0 .. BITS - 1 /\ d >= 2 ^ (BITS - 1 - z) /\ d < 2 ^ (BITS - z)
  BY LeadingZeros
<1>2. d \in Nat /\ BITS \in Nat
  BY BaseIs
<1> HIDE DEF z
<1>3. p \in 0 .. BITS - 1 /\ p + 1 = BITS - z /\ z = BITS - 1 - p /\ p \in Nat
  BY <1>1, <1>2
<1>4. 2 ^ p <= d /\ d < 2 ^ (p + 1)
  BY <1>1, <1>3
<1> HIDE DEF p
<1>5. p \in S
  <2> DEFINE e == 2 ^ p
             q == d \div e
             s == d % e
             one == 1
  <2>1. e \in Nat \ {0} /\ 2 ^ (p + 1) = 2 * e
    BY <1>3, PowerStep
  <2>2. d - e \in 0 .. e - 1 /\ one \in Nat /\ d = one * e + (d - e)
    <3>1. d >= e /\ d < 2 * e
      BY <1>4, <2>1
    <3> HIDE DEF e
    <3> QED BY <3>1, <2>1, <1>2
  <2>3. q = one
    <3> DEFINE r == d - e
    <3>1. r \in 0 .. e - 1 /\ d = one * e + r
      BY <2>2
    <3> HIDE DEF r, e, one
    <3> QED BY <3>1, <2>1, <2>2, <1>2, IntDivisionUnique
  <2>4. Bit(d, p) = 1
    BY <2>3 DEF Bit
  <2> QED BY <2>4, <1>2, <1>3, OnesAre
<1>6. ASSUME NEW n \in S PROVE n <= p
  <2>1. n \in 0 .. BITS - 1 /\ Bit(d, n) = 1
    BY <1>2, OnesAre
  <2>2. ASSUME n > p PROVE FALSE
    <3> DEFINE e == 2 ^ n
               o == 0
    <3>1. PICK j \in Nat : n = (p + 1) + j
      <4>1. n - (p + 1) \in Nat
        BY <2>1, <2>2, <1>3
      <4> QED BY <4>1, <2>1, <1>3
    <3>2. e = 2 ^ (p + 1) * 2 ^ j /\ 2 ^ (p + 1) \in Nat \ {0} /\ 2 ^ j \in Nat \ {0} /\ e \in Nat \ {0}
      <4>1. p + 1 \in Nat /\ n \in Nat
        BY <1>3, <2>1
      <4> QED BY <3>1, <4>1, PowerSum, PowerStep
    <3>3. d < e
      <4> DEFINE u == 2 ^ (p + 1)
                 v == 2 ^ j
      <4>1. e = u * v /\ u \in Nat \ {0} /\ v \in Nat \ {0} /\ d < u
        BY <3>2, <1>4
      <4> HIDE DEF e, u, v
      <4>2. PICK w \in Nat : v = 1 + w
        <5>1. v - 1 \in Nat
          BY <4>1
        <5> QED BY <5>1, <4>1
      <4>3. u * v = u + u * w /\ u * w \in Nat
        BY <4>1, <4>2
      <4> QED BY <4>1, <4>3, <1>2
    <3>4. d \div e = o
      <4>1. d \in 0 .. e - 1 /\ o \in Int /\ d = o * e + d
        <5> HIDE DEF e
        <5> QED BY <3>2, <3>3, <1>2
      <4> HIDE DEF e, o
      <4>2. d \in Int /\ e \in Nat \ {0}
        BY <3>2, <1>2
      <4> QED BY ONLY <4>1, <4>2, IntDivisionUnique
    <3>5. Bit(d, n) = 0
      BY <3>4 DEF Bit
    <3> QED BY <3>5, <2>1
  <2> QED BY <2>1, <2>2, <1>3
<1>7. Max(S) = p
  <2>1. S \in SUBSET (0 .. BITS - 1) /\ S # {} /\ BITS - 1 \in Nat
    BY <1>2, <1>5, OnesAre, BaseIs
  <2> HIDE DEF S
  <2>2. Max(S) \in S /\ \A y \in S : y <= Max(S)
    <3> DEFINE b == BITS - 1
    <3>1. b \in Nat /\ S \in SUBSET (0 .. b)
      BY <2>1
    <3> HIDE DEF b
    <3> QED BY <3>1, <2>1, MaxIsGreatest
  <2>3. \A y \in S : y \in Int
    BY <2>1
  <2> DEFINE m == Max(S)
  <2>4. m \in Int /\ m <= p /\ p <= m
    BY <2>2, <2>3, <1>5, <1>6
  <2> HIDE DEF m
  <2>5. m = p
    BY <2>4, <1>3
  <2> QED BY <2>5 DEF m
<1> QED BY <1>3, <1>7 DEF S, z

LEMMA CountAt ==
  ASSUME NEW x \in LongInts
  PROVE  /\ \A i \in Places : x[i] # 0 /\ (\A n \in Places : n > i => x[n] = 0)
               => countl_zero(x) = (DIGITS - i) * BITS + BITS - 1 - Max(Ones(x[i]))
         /\ (\A n \in Places : x[n] = 0) => countl_zero(x) = DIGITS * BITS
<1>1. DIGITS \in Nat /\ BITS \in Nat /\ \A i \in Places : i \in 1 .. DIGITS /\ i \in Nat /\ x[i] \in 0 .. BASE - 1
  BY BaseIs DEF Places, LongInts
<1> DEFINE S == {0} \cup {j \in Places : x[j] # 0}
<1>2. S \in SUBSET (0 .. DIGITS) /\ S # {} /\ 0 \in S
  BY <1>1 DEF Places
<1>3. ASSUME NEW i \in Places, x[i] # 0, \A n \in Places : n > i => x[n] = 0
      PROVE  countl_zero(x) = (DIGITS - i) * BITS + BITS - 1 - Max(Ones(x[i]))
  <2>1. i \in S /\ \A n \in S : n <= i
    BY <1>1, <1>3
  <2>2. Max(S) = i
    <3> HIDE DEF S
    <3>1. Max(S) \in S /\ \A y \in S : y <= Max(S)
      BY <1>1, <1>2, MaxIsGreatest
    <3>2. \A y \in S : y \in Int
      BY <1>2
    <3> DEFINE m == Max(S)
    <3>3. m \in Int /\ m <= i /\ i <= m /\ i \in Int
      BY <3>1, <3>2, <2>1, <1>1
    <3> HIDE DEF m
    <3>4. m = i
      BY <3>3
    <3> QED BY <3>4 DEF m
  <2> DEFINE d == x[i]
             z == Min({y \in 0 .. BITS - 1 : d >= 2 ^ (BITS - 1 - y)})
             m == Max(Ones(d))
  <2>3. d \in 1 .. BASE - 1
    BY <1>1, <1>3, BaseIs
  <2>4. BITS - 1 - m = z /\ m \in Int
    <3>1. Max(Ones(d)) \in 0 .. BITS - 1 /\ BITS - 1 - m = z
      <4> HIDE DEF d
      <4> QED BY <2>3, HighestBit
    <3> HIDE DEF d, z
    <3> QED BY <3>1
  <2>5. i # 0
    BY <1>1
  <2>6. countl_zero(x) = (DIGITS - i) * BITS + z
    <3>1. countl_zero(x) = LET h == Max(S) IN
             IF h = 0 THEN DIGITS * BITS
             ELSE (DIGITS - h) * BITS + Min({y \in 0 .. BITS - 1 : x[h] >= 2 ^ (BITS - 1 - y)})
      BY DEF countl_zero
    <3> HIDE DEF S
    <3> QED BY <3>1, <2>2, <2>5
  <2>8. (DIGITS - i) * BITS \in Int
    BY <1>1
  <2> DEFINE v == (DIGITS - i) * BITS
  <2>9. countl_zero(x) = v + BITS - 1 - m
    <3> HIDE DEF v, z, m
    <3> QED BY <2>4, <2>6, <2>8, <1>1 DEF v
  <2> QED BY <2>9
<1>4. ASSUME \A n \in Places : x[n] = 0 PROVE countl_zero(x) = DIGITS * BITS
  <2>1. \A n \in S : n <= 0
    BY <1>4
  <2>2. Max(S) = 0
    <3> HIDE DEF S
    <3>1. Max(S) \in S /\ \A y \in S : y <= Max(S)
      BY <1>1, <1>2, MaxIsGreatest
    <3>2. \A y \in S : y \in Int
      BY <1>2
    <3> DEFINE m == Max(S)
    <3>3. m \in Int /\ m <= 0 /\ 0 <= m
      BY <3>1, <3>2, <2>1, <1>1, <1>2
    <3> HIDE DEF m
    <3>4. m = 0
      BY <3>3
    <3> QED BY <3>4 DEF m
  <2> QED BY <2>2 DEF countl_zero
<1> QED BY <1>3, <1>4

----------------------------------------------------------------------------
(* What a conversion and a complement are worth *)

\* What the conversion to an unsigned number of k digits makes of a number.
LEMMA ULongIs ==
  ASSUME NEW kind, NEW x \in LongInts, NEW k \in Nat
  PROVE  ULong(kind, x, k) = Extended(kind, x, k)
<1> DEFINE f == [n \in 1 .. k |-> Digit(kind, x, n) * 2 ^ (BITS * (n - 1))]
           v == Running(k, f)
           P == {n \in 0 .. k : v[n] = Extended(kind, x, n)}
<1>1. \A n \in 1 .. k : f[n] = Digit(kind, x, n) * W(n - 1) /\ f[n] \in Int
  <2> TAKE n \in 1 .. k
  <2>1. n \in Nat \ {0} /\ n - 1 \in Nat
    OBVIOUS
  <2>2. Digit(kind, x, n) \in Nat /\ W(n - 1) \in Nat
    BY <2>1, DigitIs, WeightsAre
  <2>3. f[n] = Digit(kind, x, n) * W(n - 1)
    BY DEF W
  <2> HIDE DEF f
  <2> QED BY <2>2, <2>3
<1>2. f \in [1 .. k -> Int]
  BY <1>1
<1> HIDE DEF f
<1>3. v[0] = 0 /\ \A n \in 1 .. k : v[n] = v[n - 1] + f[n]
  BY <1>2, RunningIs
<1> HIDE DEF v
<1>4. 0 \in P
  BY <1>3, ExtendedIs
<1>5. ASSUME NEW n \in 0 .. k - 1, n \in P PROVE n + 1 \in P
  <2> DEFINE h == n + 1
  <2>1. h \in 1 .. k /\ h \in 0 .. k /\ h - 1 = n /\ n \in Nat
    OBVIOUS
  <2>2. Extended(kind, x, n + 1) = Extended(kind, x, n) + Digit(kind, x, n + 1) * W(n)
    BY <2>1, ExtendedIs
  <2>3. Extended(kind, x, h) = Extended(kind, x, n) + Digit(kind, x, h) * W(n)
    BY <2>2
  <2> HIDE DEF h
  <2>4. v[h] = v[n] + Digit(kind, x, h) * W(n)
    BY <2>1, <1>1, <1>3
  <2>5. h \in P
    BY <2>1, <2>3, <2>4, <1>5
  <2> QED BY <2>5 DEF h
<1> HIDE DEF P
<1>6. \A n \in 0 .. k : n \in P
  BY <1>4, <1>5, StepByStep
<1>7. v[k] = Extended(kind, x, k)
  BY <1>6 DEF P
<1> QED BY <1>7 DEF ULong, v, f

LEMMA ConversionIsRight ==
  ASSUME NEW kind, NEW x \in LongInts, NEW k \in Nat
  PROVE  (ULong(kind, x, k) - Signed(kind, x)) % 2 ^ (BITS * k) = 0
<1> DEFINE w == W(k)
           s == Signed(kind, x)
           u == Unsigned(x)
           c == Negative(kind, x)
           l == ULong(kind, x, k)
<1>1. w \in Nat \ {0} /\ w = 2 ^ (BITS * k)
  BY WeightsAre DEF W
<1>2. s \in Int /\ c \in {0, 1} /\ s = u - c * MODULUS /\ u \in Nat /\ DIGITS \in Nat /\ MODULUS \in Nat
      /\ MODULUS = W(DIGITS)
  BY SignedIs, UnsignedIs, BaseIs DEF Signed
<1>3. l = Extended(kind, x, k)
  BY ULongIs
<1>4. \E q \in Int : l - s = q * w
  <2>1. CASE k >= DIGITS
    <3>1. l = s + c * w
      BY <2>1, <1>3, ExtendedIs
    <3> HIDE DEF l, s, c, w
    <3>2. l - s = c * w /\ c \in Int
      BY <3>1, <1>1, <1>2
    <3> QED BY <3>2
  <2>2. CASE k < DIGITS
    <3>1. k \in 0 .. DIGITS
      BY <2>2, <1>2
    <3> DEFINE t == Values(x)[k]
    <3>2. PICK q \in Nat : u = t + q * w
      BY <3>1, AboveIs
    <3>3. PICK j \in Nat : DIGITS = k + j
      <4>1. DIGITS - k \in Nat
        BY <2>2, <1>2
      <4> QED BY <4>1, <1>2
    <3>4. MODULUS = w * W(j) /\ W(j) \in Nat
      BY <3>3, <1>2, WeightsMultiply, WeightsAre
    <3>5. l = t /\ t \in Nat
      <4>1. k <= DIGITS
        BY <3>1
      <4> QED BY <4>1, <3>1, <1>3, ValuesAre DEF Extended
    <3> DEFINE v == W(j)
               m == MODULUS
    <3> HIDE DEF l, t, s, u, c, w, v, m
    <3>6. m = w * v /\ v \in Nat /\ s = u - c * m /\ m \in Nat
      BY <3>4, <1>2 DEF v, m
    <3>7. l - s = (c * v - q) * w /\ c * v - q \in Int
      <4>1. CASE c = 0
        <5>1. s = u /\ c * v - q = -q
          BY <4>1, <3>6, <1>2
        <5>2. l - s = -(q * w) /\ (-q) * w = -(q * w) /\ -q \in Int
          BY <5>1, <3>2, <3>5, <1>1
        <5> QED BY <5>1, <5>2
      <4>2. CASE c = 1
        <5>1. s = u - m /\ c * v - q = v - q
          BY <4>2, <3>6, <1>2
        <5>2. l - s = m - q * w /\ (v - q) * w = m - q * w /\ v - q \in Int
          <6>1. (v - q) * w = v * w - q * w /\ v * w = w * v
            BY <3>2, <3>6, <1>1
          <6>2. q * w \in Int
            BY <3>2, <1>1
          <6> QED BY <6>1, <6>2, <5>1, <3>2, <3>5, <3>6
        <5> QED BY <5>1, <5>2
      <4> QED BY <4>1, <4>2, <1>2
    <3> QED BY <3>7
  <2> QED BY <2>1, <2>2, <1>2
<1>5. PICK q \in Int : l - s = q * w
  BY <1>4
<1> DEFINE a == l - s
<1>6. a % w = 0
  <2>1. a = q * w
    BY <1>5
  <2> HIDE DEF a, w
  <2> QED BY <2>1, <1>1, MultipleMod
<1> QED BY <1>1, <1>6

LEMMA ComplementIsRight ==
  ASSUME NEW kind \in Kinds, NEW x \in LongInts
  PROVE  Signed(kind, Complement(x)) = IF kind.signed THEN -1 - Signed(kind, x)
                                       ELSE MODULUS - 1 - Signed(kind, x)
<1> DEFINE r == Complement(x)
           u == Unsigned(x)
           v == Unsigned(r)
           m == MODULUS
           h == BASE \div 2
           d == x[DIGITS]
<1>1. r \in LongInts /\ v = m - 1 - u /\ u \in Nat /\ u < m /\ m \in Nat /\ v \in Nat
  BY ComplementUnsigned, UnsignedIs
<1>2. r[DIGITS] = BASE - 1 - d /\ d \in 0 .. BASE - 1 /\ BASE \in Nat /\ h \in Nat
  BY BaseIs, HalfIs DEF Complement, LongInts, Places
<1>3. BASE = 2 * h
  <2>1. BITS - 1 \in Nat /\ (BITS - 1) + 1 = BITS
    BY LongIntAssumption
  <2> DEFINE e == 2 ^ (BITS - 1)
             o == 0
  <2>2. e \in Nat \ {0} /\ BASE = 2 * e
    BY <2>1, PowerStep DEF BASE
  <2> HIDE DEF e
  <2>3. BASE \div 2 = e
    BY <2>2
  <2> QED BY <2>2, <2>3
<1>4. kind.signed \in BOOLEAN
  BY DEF Kinds
<1>5. CASE kind.signed
  <2>1. is_negative(kind, r) <=> ~ is_negative(kind, x)
    <3>1. (is_negative(kind, r) <=> BASE - 1 - d >= h) /\ (is_negative(kind, x) <=> d >= h)
      BY <1>2, <1>5 DEF is_negative
    <3> HIDE DEF d, h
    <3> QED BY <3>1, <1>2, <1>3
  <2>2. Signed(kind, r) = (IF is_negative(kind, r) THEN v - m ELSE v) /\ Signed(kind, x) = (IF is_negative(kind, x) THEN u - m ELSE u)
    BY <1>1, SignedIs
  <2> DEFINE nx == is_negative(kind, x)
             nr == is_negative(kind, r)
             sx == Signed(kind, x)
             sr == Signed(kind, r)
  <2>3. sr = -1 - sx
    <3>1. CASE nx
      <4>1. sr = v /\ sx = u - m
        BY <3>1, <2>1, <2>2
      <4> HIDE DEF u, v, m, sx, sr
      <4> QED BY <4>1, <1>1
    <3>2. CASE ~ nx
      <4>1. sr = v - m /\ sx = u
        BY <3>2, <2>1, <2>2
      <4> HIDE DEF u, v, m, sx, sr
      <4> QED BY <4>1, <1>1
    <3> QED BY <3>1, <3>2
  <2> QED BY <2>3, <1>5
<1>6. CASE ~ kind.signed
  <2>1. ~ is_negative(kind, r) /\ ~ is_negative(kind, x)
    BY <1>6 DEF is_negative
  <2>2. Signed(kind, r) = v /\ Signed(kind, x) = u
    BY <2>1, <1>1, SignedIs
  <2> QED BY <2>2, <1>1, <1>6
<1> QED BY <1>4, <1>5, <1>6

LEMMA ZeroByValue ==
  ASSUME NEW kind, NEW x \in LongInts
  PROVE  (\A n \in Places : x[n] = 0) <=> Signed(kind, x) = 0
<1>1. (\A n \in Places : x[n] = 0) <=> Unsigned(x) = 0
  BY ZeroIsRight DEF long_is_zero
<1> DEFINE u == Unsigned(x)
           s == Signed(kind, x)
           m == MODULUS
           neg == is_negative(kind, x)
<1>2. u \in Nat /\ u < m /\ m \in Nat
  BY UnsignedIs, ModulusIs
<1>4. s = IF neg THEN u - m ELSE u
  BY <1>2, SignedIs
<1>3. Unsigned(x) = 0 => ~ is_negative(kind, x)
  <2>1. ASSUME Unsigned(x) = 0 PROVE ~ is_negative(kind, x)
    <3>1. x = ZERO
      <4>1. x = [n \in Places |-> x[n]]
        BY DEF LongInts
      <4> QED BY <4>1, <2>1, <1>1 DEF ZERO
    <3>2. x[DIGITS] = 0 /\ BASE \div 2 \in Nat \ {0}
      BY <3>1, HalfIs, BaseIs DEF ZERO, Places
    <3> QED BY <3>2 DEF is_negative
  <2> QED BY <2>1
<1>5. u = 0 <=> s = 0
  <2>1. CASE neg
    <3> HIDE DEF u, s, m
    <3>1. s = u - m /\ u # 0
      BY <2>1, <1>3, <1>4 DEF u
    <3> QED BY <3>1, <1>2
  <2>2. CASE ~ neg
    BY <2>2, <1>4
  <2> QED BY <2>1, <2>2
<1> QED BY <1>1, <1>5

----------------------------------------------------------------------------
(* A state of a loop *)

Calls == {"+=", "++", "+", "_++", "-=", "--", "-", "_--", "&=", "|=", "^=", "&", "|", "~", "neg",
          "<<=", ">>=", "<<", ">>", "*=", "*", "=", "<", "<=", ">", ">=", "==", "!=",
          "is_zero", "countl_zero", "uint"}
Stages == {"add", "sub", "bit", "not", "shift", "left", "right", "mul", "assign", "less", "equal",
           "zero", "count", "uint", "done"}
Names == {"this", "other", "one", "new"}
StepRecords ==
    [call : Calls, kind : Kinds, a : LongInts, b : LongInts, k : Int,
     by : {"this", "other", "one"}, to : {"this", "new"}, obj : [Names -> LongInts],
     sum : LongInts, kept : BOOLEAN, at : Stages, i : Int, j : Int, carry : {0, 1}, answer : Int]

LEMMA ObjectsAre ==
  ASSUME NEW a \in LongInts, NEW b \in LongInts, NEW c \in LongInts, NEW d \in LongInts
  PROVE  LET o == [this |-> a, other |-> b, one |-> c, new |-> d]
         IN  o \in [Names -> LongInts] /\ o["this"] = a /\ o["other"] = b /\ o["one"] = c /\ o["new"] = d
BY DEF Names

LEMMA LoopIs == \A l \in DOMAIN Loops : \A c \in Loops[l] : LoopOf(c) = l
<1> DEFINE D == {"add", "sub", "bit", "not", "shift", "mul", "assign", "less", "equal", "zero", "count", "uint"}
<1>1. DOMAIN Loops = D
  BY DEF Loops
<1>2. \A l, m \in D : \A c : c \in Loops[l] /\ c \in Loops[m] => l = m
  BY DEF Loops
<1> QED BY <1>1, <1>2 DEF LoopOf

LEMMA LoopCalls ==
  /\ DOMAIN Loops = {"add", "sub", "bit", "not", "shift", "mul", "assign", "less", "equal", "zero", "count", "uint"}
  /\ Loops["add"] = {"+=", "++", "+", "_++"} /\ Loops["sub"] = {"-=", "--", "-", "_--"}
  /\ Loops["bit"] = {"&=", "|=", "^=", "&", "|"} /\ Loops["not"] = {"~", "neg"}
  /\ Loops["shift"] = {"<<=", ">>=", "<<", ">>"} /\ Loops["mul"] = {"*=", "*"} /\ Loops["assign"] = {"="}
  /\ Loops["less"] = {"<", "<=", ">", ">="} /\ Loops["equal"] = {"==", "!="} /\ Loops["zero"] = {"is_zero"}
  /\ Loops["count"] = {"countl_zero"} /\ Loops["uint"] = {"uint"}
BY DEF Loops

----------------------------------------------------------------------------
(* The invariant of the loops *)

\* The operands as the call had them: what the loop begins with, and the
\* digits it reads beside them.
Right(s) == IF s.by = "one" THEN ONE ELSE s.b
Left(s)  == IF s.call = "neg" THEN Complement(s.a) ELSE s.a

BitwiseOf(s) == CASE s.call \in {"&=", "&"} -> BitAnd(s.a, s.b)
                  [] s.call \in {"|=", "|"} -> BitOr(s.a, s.b)
                  [] s.call = "^=" -> BitXor(s.a, s.b)

Setting(s) ==
    /\ s.to = IF s.call \in Copying \cup {"~", "neg"} THEN "new" ELSE "this"
    /\ s.obj["other"] = s.b
    /\ s.obj["one"] = ONE
    /\ s.by = "this" => s.b = s.a
    /\ s.to = "new" => s.obj["this"] = s.a
    /\ s.call \in Postfix => s.obj["new"] = s.a
    /\ s.call \in {"++", "--", "_++", "_--", "neg"} => s.by = "one"
    /\ s.call \in Binary => s.by # "one"
    /\ s.call \in Loops.shift \cup Loops.uint => s.k \in Nat
    /\ s.call = "=" => s.k \in Others
    /\ s.at \notin {"left", "right", "equal", "done"} => s.at = LoopOf(s.call) \/ (s.at = "add" /\ s.call = "neg")

\* What a loop has done when it is at its place i.
Added(s) ==
    /\ s.i \in 1 .. DIGITS + 1
    /\ s.obj[s.to] = Upto(Plus(Left(s), Right(s)), Left(s), s.i)
    /\ s.carry = Carries(Left(s), Right(s))[s.i - 1]
Subtracted(s) ==
    /\ s.i \in 1 .. DIGITS + 1
    /\ s.obj[s.to] = Upto(Minus(s.a, Right(s)), s.a, s.i)
    /\ s.carry = Borrows(s.a, Right(s))[s.i - 1]
Combined(s) ==
    /\ s.i \in 1 .. DIGITS + 1
    /\ s.obj[s.to] = Upto(BitwiseOf(s), s.a, s.i)
Turned(s) ==
    /\ s.i \in 1 .. DIGITS + 1 /\ s.carry = 0
    /\ s.obj["new"] = Upto(Complement(s.a), ZERO, s.i)
Assigned(s) ==
    /\ s.i \in 1 .. DIGITS + 1
    /\ s.obj["this"] = Upto(AssignNextPrev(s.kind, s.k), s.a, s.i)
ToShift(s) == s.i = 1 /\ s.obj[s.to] = s.a
WentLeft(s) ==
    /\ s.call \in Leftwards /\ s.k \div BITS < DIGITS /\ s.i \in s.k \div BITS .. DIGITS
    /\ s.obj[s.to] = Behind(ShiftLeft(s.a, s.k), s.a, s.i)
WentRight(s) ==
    /\ s.call \in {">>=", ">>"} /\ s.k # 0 /\ s.k \div BITS < DIGITS
    /\ s.i \in 1 .. DIGITS + 1 - s.k \div BITS
    /\ s.obj[s.to] = Upto(ShiftRight(s.kind, s.a, s.k, s.kept), s.a, s.i)
SummedUp(s) ==
    LET x == AbsoluteOf(s.kind, s.a)  y == AbsoluteOf(s.kind, s.b)
    IN  /\ s.i \in 1 .. DIGITS + 1 /\ s.j \in Places
        /\ s.obj[s.to] = s.a
        /\ s.sum = IF s.i \in Places THEN Row(x, y, s.i, Rows(x, y)[s.i - 1])[s.j - 1]
                   ELSE Rows(x, y)[DIGITS]
SameAbove(s) ==
    /\ s.i \in 0 .. DIGITS /\ s.obj["this"] = s.a
    /\ \A n \in Places : n > s.i => s.a[n] = s.b[n]
SameBelow(s) ==
    /\ s.call \in Loops.equal \cup {"<=", ">"}
    /\ s.i \in 1 .. DIGITS + 1 /\ s.obj["this"] = s.a
    /\ \A n \in Places : n < s.i => s.a[n] = s.b[n]
    /\ s.call \in {"<=", ">"} => ~ Less(s.kind, s.a, s.b)
ZeroBelow(s) ==
    /\ s.i \in 1 .. DIGITS + 1 /\ s.obj["this"] = s.a
    /\ \A n \in Places : n < s.i => s.a[n] = 0
ZeroAbove(s) ==
    /\ s.i \in 0 .. DIGITS /\ s.obj["this"] = s.a
    /\ \A n \in Places : n > s.i => s.a[n] = 0

\* What InPlace says of a state that is at its end.
Placed(s) ==
    LET a == s.a  b == s.b  kind == s.kind
        this == s.obj["this"]  new == s.obj["new"]  to == s.obj[s.to]
        yes == s.answer = 1  less == ValueIn(kind, a) < ValueIn(kind, b)
        Expected ==
            CASE s.call \in {"+=", "+"}  -> to = Plus(a, b)
              [] s.call \in {"-=", "-"}  -> to = Minus(a, b)
              [] s.call \in {"++", "_++"} -> to = Plus(a, ONE)
              [] s.call \in {"--", "_--"} -> to = Minus(a, ONE)
              [] s.call \in {"*=", "*"}  -> to = Times(kind, a, b)
              [] s.call \in {"&=", "&"}  -> BitsOf(to) = BitsOf(a) \cap BitsOf(b)
              [] s.call \in {"|=", "|"}  -> BitsOf(to) = BitsOf(a) \cup BitsOf(b)
              [] s.call = "^="  -> BitsOf(to) = (BitsOf(a) \cup BitsOf(b))
                                                     \ (BitsOf(a) \cap BitsOf(b))
              [] s.call \in {"<<=", "<<"} -> to = ShiftLeft(a, s.k)
              [] s.call \in {">>=", ">>"} -> to = ShiftRight(kind, a, s.k, s.kept)
              [] s.call = "="   -> this = AssignNextPrev(kind, s.k)
              [] s.call = "~"   -> ValueIn(kind, new) = IF kind.signed THEN -1 - ValueIn(kind, a)
                                                            ELSE MODULUS - 1 - ValueIn(kind, a)
              [] s.call = "neg" -> new = Negate(a)
              [] s.call = "<"   -> yes <=> less
              [] s.call = ">="  -> yes <=> ~ less
              [] s.call = "<="  -> yes <=> less \/ a = b
              [] s.call = ">"   -> yes <=> ~ less /\ a # b
              [] s.call = "=="  -> yes <=> a = b
              [] s.call = "!="  -> yes <=> a # b
              [] s.call = "is_zero" -> yes <=> ValueIn(kind, a) = 0
              [] s.call = "countl_zero" -> s.answer = countl_zero(a)
              [] s.call = "uint" -> (s.answer - ValueIn(kind, a)) % (2 ^ (BITS * s.k)) = 0
    IN  /\ Expected
        /\ s.obj["other"] = b
        /\ s.to = "new" \/ LoopOf(s.call) \in {"less", "equal", "zero", "count", "uint"} => this = a
        /\ s.call \in Postfix => new = a

Finished(s) ==
    LET a == s.a  b == s.b  kind == s.kind  to == s.obj[s.to]
        yes == s.answer = 1  less == Less(kind, a, b)
    IN  /\ s.call \in Loops.add \cup {"neg"} => to = Plus(Left(s), Right(s))
        /\ s.call \in Loops.sub => to = Minus(a, Right(s))
        /\ s.call \in Loops.bit => to = BitwiseOf(s)
        /\ s.call \in Loops.mul => to = Times(kind, a, b)
        /\ s.call \in Leftwards => to = ShiftLeft(a, s.k)
        /\ s.call \in {">>=", ">>"} => to = ShiftRight(kind, a, s.k, s.kept)
        /\ s.call = "=" => to = AssignNextPrev(kind, s.k)
        /\ s.call = "~" => to = Complement(a)
        /\ s.call \in Loops.less \cup Loops.equal \cup {"is_zero", "countl_zero", "uint"} => to = a
        /\ s.call = "<"  => (yes <=> less)
        /\ s.call = ">=" => (yes <=> ~ less)
        /\ s.call = "<=" => (yes <=> less \/ a = b)
        /\ s.call = ">"  => (yes <=> ~ less /\ a # b)
        /\ s.call = "==" => (yes <=> a = b)
        /\ s.call = "!=" => (yes <=> a # b)
        /\ s.call = "is_zero" => (yes <=> \A n \in Places : a[n] = 0)
        /\ s.call = "countl_zero" => s.answer = countl_zero(a)
        /\ s.call = "uint" => s.answer = ULong(kind, a, s.k)

Advanced(s) ==
    /\ s.at = "add" => Added(s)
    /\ s.at = "sub" => Subtracted(s)
    /\ s.at = "bit" => Combined(s)
    /\ s.at = "not" => Turned(s)
    /\ s.at = "assign" => Assigned(s)
    /\ s.at = "shift" => ToShift(s)
    /\ s.at = "left" => WentLeft(s)
    /\ s.at = "right" => WentRight(s)
    /\ s.at = "mul" => SummedUp(s)
    /\ s.at = "less" => SameAbove(s)
    /\ s.at = "equal" => SameBelow(s)
    /\ s.at = "zero" => ZeroBelow(s)
    /\ s.at = "count" => ZeroAbove(s)
    /\ s.at = "uint" => s.obj["this"] = s.a
    /\ s.at = "done" => Finished(s)

StepsInv == steps \in StepRecords /\ Setting(steps) /\ Advanced(steps)

----------------------------------------------------------------------------
(* One digit is written *)

SameCall(s, t) == /\ t.call = s.call /\ t.kind = s.kind /\ t.a = s.a /\ t.b = s.b /\ t.k = s.k
                  /\ t.by = s.by /\ t.to = s.to

\* The number that is written has become y; the loop has written a digit d.
Puts(s, t, y) == t.obj = [s.obj EXCEPT ![s.to] = y]
Writes(s, t, d, i, c) == t = [s EXCEPT !.obj[s.to][s.i] = d, !.i = i, !.carry = c]

LEMMA SettingStays ==
  ASSUME NEW s \in StepRecords, NEW t \in StepRecords, Setting(s), SameCall(s, t),
         NEW y, Puts(s, t, y),
         t.at \notin {"left", "right", "equal", "done"} => t.at = LoopOf(t.call) \/ (t.at = "add" /\ t.call = "neg")
  PROVE  Setting(t)
<1>1. s.obj \in [Names -> LongInts] /\ s.to \in {"this", "new"}
  BY DEF StepRecords
<1>2. t.obj["other"] = s.obj["other"] /\ t.obj["one"] = s.obj["one"]
      /\ (s.to = "new" => t.obj["this"] = s.obj["this"])
      /\ (s.to = "this" => t.obj["new"] = s.obj["new"])
  BY <1>1 DEF Names, Puts
<1>3. s.call \in Postfix => s.to = "this"
  BY DEF Setting, Postfix, Copying
<1> QED BY <1>2, <1>3 DEF Setting, SameCall

LEMMA RightIsRead ==
  ASSUME NEW s \in StepRecords, Setting(s), NEW i \in Places,
         s.by = "this" /\ s.to = "this" => s.obj["this"][i] = s.a[i], s.call \notin {"~", "is_zero", "countl_zero"}
  PROVE  s.obj[s.by][i] = Right(s)[i] /\ Right(s) \in LongInts
<1>1. s.by \in {"this", "other", "one"} /\ s.to \in {"this", "new"} /\ s.b \in LongInts
  BY DEF StepRecords
<1>2. ONE \in LongInts
  BY SmallNumbers
<1> QED BY <1>1, <1>2 DEF Setting, Right

LEMMA DigitWritten ==
  ASSUME NEW s \in StepRecords, s.i \in Places, NEW d \in 0 .. BASE - 1, NEW i \in Int, NEW c \in {0, 1},
         NEW t, Writes(s, t, d, i, c)
  PROVE      /\ t \in StepRecords /\ SameCall(s, t) /\ t.at = s.at /\ t.i = i /\ t.carry = c
             /\ Puts(s, t, [s.obj[s.to] EXCEPT ![s.i] = d])
             /\ t.obj[s.to] = [s.obj[s.to] EXCEPT ![s.i] = d]
<1> DEFINE y == [s.obj[s.to] EXCEPT ![s.i] = d]
           o == [s.obj EXCEPT ![s.to] = y]
<1>1. s.obj \in [Names -> LongInts] /\ s.to \in Names
  BY DEF StepRecords, Names
<1>2. y \in LongInts
  BY <1>1 DEF LongInts
<1>3. o \in [Names -> LongInts] /\ o[s.to] = y
  BY <1>1, <1>2
<1>4. t = [s EXCEPT !.obj = o, !.i = i, !.carry = c]
  BY DEF Writes
<1> HIDE DEF o, y
<1>5. t.obj = o /\ t.i = i /\ t.carry = c /\ t.at = s.at /\ SameCall(s, t)
  BY <1>4 DEF StepRecords, SameCall
<1>6. t \in StepRecords
  BY <1>4, <1>3 DEF StepRecords
<1> QED BY <1>3, <1>5, <1>6 DEF o, y, Puts

----------------------------------------------------------------------------
(* A loop at its end *)

LEMMA ValuesInPlace ==
  ASSUME NEW kind \in Kinds, NEW a \in LongInts, NEW b \in LongInts
  PROVE  /\ ValueIn(kind, a) = Signed(kind, a)
         /\ Less(kind, a, b) <=> ValueIn(kind, a) < ValueIn(kind, b)
         /\ ValueIn(kind, Complement(a)) = IF kind.signed THEN -1 - ValueIn(kind, a)
                                           ELSE MODULUS - 1 - ValueIn(kind, a)
         /\ (\A n \in Places : a[n] = 0) <=> ValueIn(kind, a) = 0
         /\ \A k \in Nat : (ULong(kind, a, k) - ValueIn(kind, a)) % (2 ^ (BITS * k)) = 0
<1>1. \A x \in LongInts : ValueIn(kind, x) = Signed(kind, x)
  BY SignedIs DEF ValueIn
<1>2. Complement(a) \in LongInts
  BY ComplementUnsigned
<1>3. Less(kind, a, b) <=> Signed(kind, a) < Signed(kind, b)
  BY LessIsRight
<1>4. Signed(kind, Complement(a)) = IF kind.signed THEN -1 - Signed(kind, a) ELSE MODULUS - 1 - Signed(kind, a)
  BY ComplementIsRight
<1>5. (\A n \in Places : a[n] = 0) <=> Signed(kind, a) = 0
  BY ZeroByValue
<1>6. \A k \in Nat : (ULong(kind, a, k) - Signed(kind, a)) % (2 ^ (BITS * k)) = 0
  BY ConversionIsRight
<1>7. ValueIn(kind, a) = Signed(kind, a) /\ ValueIn(kind, b) = Signed(kind, b)
      /\ ValueIn(kind, Complement(a)) = Signed(kind, Complement(a))
  BY <1>1, <1>2
<1> QED BY <1>3, <1>4, <1>5, <1>6, <1>7

LEMMA FinishedIsPlaced ==
  ASSUME NEW s \in StepRecords, Setting(s), Finished(s)
  PROVE  Placed(s)
<1> DEFINE a == s.a
           b == s.b
           kind == s.kind
           to == s.obj[s.to]
           yes == s.answer = 1
           va == ValueIn(kind, a)
           less == va < ValueIn(kind, b)
<1>1. a \in LongInts /\ b \in LongInts /\ kind \in Kinds /\ s.to \in {"this", "new"} /\ s.call \in Calls
  BY DEF StepRecords
<1>2. (Less(kind, a, b) <=> less) /\ ((\A n \in Places : a[n] = 0) <=> va = 0)
      /\ ValueIn(kind, Complement(a)) = (IF kind.signed THEN -1 - va ELSE MODULUS - 1 - va)
      /\ \A k \in Nat : (ULong(kind, a, k) - va) % (2 ^ (BITS * k)) = 0
  BY <1>1, ValuesInPlace
<1>3. BitsOf(BitAnd(a, b)) = BitsOf(a) \cap BitsOf(b) /\ BitsOf(BitOr(a, b)) = BitsOf(a) \cup BitsOf(b)
      /\ BitsOf(BitXor(a, b)) = (BitsOf(a) \cup BitsOf(b)) \ (BitsOf(a) \cap BitsOf(b))
  BY <1>1, BitwiseType
<1>4. s.obj["other"] = b /\ (s.call \in Postfix => s.obj["new"] = a) /\ (s.to = "new" => s.obj["this"] = a)
  BY DEF Setting
<1> DEFINE Answers == {"<", "<=", ">", ">=", "==", "!=", "is_zero", "countl_zero", "uint"}
           Asks == LoopOf(s.call) \in {"less", "equal", "zero", "count", "uint"}
<1>5. Asks <=> s.call \in Answers
  <2>1. \A l \in DOMAIN Loops : s.call \in Loops[l] => LoopOf(s.call) = l
    BY LoopIs
  <2> DEFINE loop == LoopOf(s.call)
  <2> HIDE DEF loop
  <2>2. loop \in {"less", "equal", "zero", "count", "uint"} <=> s.call \in Answers
    BY <2>1, <1>1, LoopCalls DEF Calls, loop
  <2> QED BY <2>2 DEF loop
<1>6. s.call \in Answers => s.to = "this" /\ s.obj["this"] = a
  BY DEF Setting, Finished, Copying, Loops
<1>7. s.to = "new" \/ Asks => s.obj["this"] = a
  BY <1>4, <1>5, <1>6
<1>8. s.call = "=" => s.to = "this"
  BY DEF Setting, Copying
<1>9. s.call \in {"~", "neg"} => s.to = "new"
  BY DEF Setting, Copying
<1>10. s.call \in Binary => Right(s) = b
  BY DEF Setting, Right
<1>11. s.call \in {"++", "_++", "--", "_--", "neg"} => Right(s) = ONE
  BY DEF Setting, Right
<1>12. Left(s) = IF s.call = "neg" THEN Complement(a) ELSE a
  BY DEF Left
<1>13. s.call = "uint" => s.k \in Nat
  BY DEF Setting, Loops
<1> DEFINE Expected ==
            CASE s.call \in {"+=", "+"}  -> to = Plus(a, b)
              [] s.call \in {"-=", "-"}  -> to = Minus(a, b)
              [] s.call \in {"++", "_++"} -> to = Plus(a, ONE)
              [] s.call \in {"--", "_--"} -> to = Minus(a, ONE)
              [] s.call \in {"*=", "*"}  -> to = Times(kind, a, b)
              [] s.call \in {"&=", "&"}  -> BitsOf(to) = BitsOf(a) \cap BitsOf(b)
              [] s.call \in {"|=", "|"}  -> BitsOf(to) = BitsOf(a) \cup BitsOf(b)
              [] s.call = "^="  -> BitsOf(to) = (BitsOf(a) \cup BitsOf(b))
                                                     \ (BitsOf(a) \cap BitsOf(b))
              [] s.call \in {"<<=", "<<"} -> to = ShiftLeft(a, s.k)
              [] s.call \in {">>=", ">>"} -> to = ShiftRight(kind, a, s.k, s.kept)
              [] s.call = "="   -> s.obj["this"] = AssignNextPrev(kind, s.k)
              [] s.call = "~"   -> ValueIn(kind, s.obj["new"]) = IF kind.signed THEN -1 - va
                                                            ELSE MODULUS - 1 - va
              [] s.call = "neg" -> s.obj["new"] = Negate(a)
              [] s.call = "<"   -> yes <=> less
              [] s.call = ">="  -> yes <=> ~ less
              [] s.call = "<="  -> yes <=> less \/ a = b
              [] s.call = ">"   -> yes <=> ~ less /\ a # b
              [] s.call = "=="  -> yes <=> a = b
              [] s.call = "!="  -> yes <=> a # b
              [] s.call = "is_zero" -> yes <=> va = 0
              [] s.call = "countl_zero" -> s.answer = countl_zero(a)
              [] s.call = "uint" -> (s.answer - va) % (2 ^ (BITS * s.k)) = 0
<1>20. Expected
  <2> HIDE DEF to, yes, va, less
  <2>1. CASE s.call \in {"+=", "+", "++", "_++"}
    BY <2>1, <1>10, <1>11, <1>12 DEF Finished, Loops, Binary, to
  <2>2. CASE s.call \in {"-=", "-", "--", "_--"}
    BY <2>2, <1>10, <1>11 DEF Finished, Loops, Binary, to
  <2>3. CASE s.call \in {"*=", "*"}
    BY <2>3 DEF Finished, Loops, to
  <2>4. CASE s.call \in {"&=", "&", "|=", "|", "^="}
    BY <2>4, <1>3 DEF Finished, Loops, BitwiseOf, to
  <2>5. CASE s.call \in {"<<=", "<<", ">>=", ">>"}
    BY <2>5 DEF Finished, Leftwards, to
  <2>6. CASE s.call = "="
    BY <2>6, <1>8 DEF Finished, to
  <2>9. CASE s.call = "~"
    <3>1. s.obj["new"] = Complement(a)
      BY <2>9, <1>9 DEF Finished
    <3>2. ValueIn(kind, s.obj["new"]) = (IF kind.signed THEN -1 - va ELSE MODULUS - 1 - va)
      BY <3>1, <1>2
    <3> QED BY <3>2, <2>9
  <2>10. CASE s.call = "neg"
    BY <2>10, <1>9, <1>11, <1>12 DEF Finished, Loops, Negate
  <2>7. CASE s.call \in {"<", "<=", ">", ">=", "==", "!="}
    BY <2>7, <1>2 DEF Finished, yes
  <2>8. CASE s.call \in {"is_zero", "countl_zero", "uint"}
    BY <2>8, <1>2, <1>13 DEF Finished, yes
  <2> QED BY <1>1, <2>1, <2>2, <2>3, <2>4, <2>5, <2>6, <2>7, <2>8, <2>9, <2>10 DEF Calls
<1> HIDE DEF Asks
<1> QED BY <1>20, <1>4, <1>7 DEF Placed, Expected, Asks

----------------------------------------------------------------------------
(* The loops that go up *)

LEMMA UptoStep ==
  ASSUME NEW r \in LongInts, NEW x \in LongInts, NEW i \in Places, NEW h, h = i + 1
  PROVE  /\ Upto(r, x, i)[i] = x[i]
         /\ Upto(r, x, h) = [Upto(r, x, i) EXCEPT ![i] = r[i]]
<1>1. \A n \in Places : (n < h <=> n < i \/ n = i) /\ ~ (i < i)
  BY BaseIs DEF Places
<1> QED BY <1>1 DEF Upto

LEMMA UptoEnds ==
  ASSUME NEW r \in LongInts, NEW x \in LongInts, NEW i \in Int
  PROVE  (i > DIGITS => Upto(r, x, i) = r) /\ (i = 1 => Upto(r, x, i) = x)
<1>1. i > DIGITS => \A n \in Places : n < i
  BY BaseIs DEF Places
<1>2. i = 1 => \A n \in Places : ~ (n < i)
  BY BaseIs DEF Places
<1> QED BY <1>1, <1>2 DEF Upto, LongInts

\* A loop that goes up: the digit it writes is that of the result.
LEMMA LoopStep ==
  ASSUME NEW s \in StepRecords, Setting(s), s.at \in {"add", "sub", "bit", "not", "assign", "right"},
         NEW i \in Places, s.i = i, NEW r \in LongInts, NEW x \in LongInts,
         s.obj[s.to] = Upto(r, x, i), NEW d, d = r[i], NEW c \in {0, 1}, NEW h, h = i + 1,
         NEW t, Writes(s, t, d, h, c)
  PROVE  /\ t \in StepRecords /\ SameCall(s, t) /\ Setting(t) /\ t.at = s.at /\ t.carry = c
         /\ t.i = h /\ h \in 1 .. DIGITS + 1 /\ t.i - 1 = i
         /\ t.obj[t.to] = Upto(r, x, t.i)
<1> DEFINE y == [s.obj[s.to] EXCEPT ![s.i] = d]
<1>1. h \in Int /\ h \in 1 .. DIGITS + 1 /\ i \in Int
  BY BaseIs DEF Places
<1>2. d \in 0 .. BASE - 1
  BY DEF LongInts
<1>3. y = Upto(r, x, h)
  <2>1. Upto(r, x, h) = [Upto(r, x, i) EXCEPT ![i] = r[i]]
    BY UptoStep
  <2> QED BY <2>1
<1>4. t \in StepRecords /\ SameCall(s, t) /\ t.at = s.at /\ t.i = h /\ t.carry = c
      /\ Puts(s, t, y) /\ t.obj[s.to] = y
  BY <1>1, <1>2, DigitWritten
<1> HIDE DEF y
<1>5. Setting(t)
  BY <1>4, SettingStays DEF Setting, SameCall
<1>6. t.obj[t.to] = Upto(r, x, t.i)
  BY <1>3, <1>4 DEF SameCall
<1> QED BY <1>1, <1>4, <1>5, <1>6

LEMMA AddStepInv == StepsInv /\ AddStep => StepsInv'
<1> SUFFICES ASSUME StepsInv, AddStep PROVE StepsInv'
  OBVIOUS
<1> DEFINE s == steps
           t == steps'
           L == Left(s)
           R == Right(s)
           i == s.i
           x == s.obj[s.to][i]
           y == s.obj[s.by][i]
           d == (x + y + s.carry) % BASE
           c == IF x > BASE - 1 - y \/ (s.carry = 1 /\ x = BASE - 1 - y) THEN 1 ELSE 0
           r == Plus(L, R)
           h == i + 1
<1>1. s \in StepRecords /\ Setting(s) /\ Added(s) /\ s.at = "add" /\ i \in Places
  BY DEF StepsInv, Advanced, AddStep, InLoop
<1>2. Writes(s, t, d, h, c)
  BY DEF AddStep, Object, Writes
<1> HIDE DEF s, t
<1>3. L \in LongInts
  BY <1>1, ComplementIs DEF Left, StepRecords
<1>4. s.obj[s.to] = Upto(r, L, i) /\ s.carry = Carries(L, R)[i - 1]
  BY <1>1 DEF Added
<1>5. s.call \in Loops.add \cup {"neg"}
  <2>1. LoopOf(s.call) = "add" \/ s.call = "neg"
    BY <1>1 DEF Setting
  <2>2. \A l \in DOMAIN Loops : s.call \in Loops[l] => LoopOf(s.call) = l
    BY LoopIs
  <2>3. s.call \in Calls
    BY <1>1 DEF StepRecords
  <2> QED BY <2>1, <2>2, <2>3, LoopCalls DEF Calls, Loops
<1>6. y = R[i] /\ R \in LongInts
  <2>1. s.by = "this" /\ s.to = "this" => L = s.a
    BY <1>1 DEF Setting, Left, Copying
  <2>2. R \in LongInts
    BY <1>1, SmallNumbers DEF Right, StepRecords
  <2>3. Plus(L, R) \in LongInts
    BY <2>2, <1>3, PlusIs
  <2>4. s.obj[s.to][i] = L[i]
    <3> HIDE DEF L, R, i
    <3> QED BY <2>3, <1>1, <1>3, <1>4, UptoStep
  <2>5. s.call \notin {"~", "is_zero", "countl_zero"}
    BY <1>5 DEF Loops
  <2> HIDE DEF i, L, R
  <2> QED BY <2>1, <2>4, <2>5, <1>1, RightIsRead DEF R, y
<1>7. r \in LongInts
  BY <1>3, <1>6, PlusIs
<1>8. x = L[i]
  <2> HIDE DEF L, R, i
  <2> QED BY <1>1, <1>3, <1>4, <1>7, UptoStep DEF x
<1>9. d = r[i]
  BY <1>1, <1>3, <1>4, <1>6, <1>8, PlusIs
<1>10. c = Carries(L, R)[i] /\ c \in {0, 1}
  <2>1. Carries(L, R)[i] = IF L[i] > BASE - 1 - R[i] \/ (Carries(L, R)[i - 1] = 1 /\ L[i] = BASE - 1 - R[i])
                           THEN 1 ELSE 0
    BY <1>1, <1>3, <1>6, CarriesAre
  <2> HIDE DEF L, R, i, x, y
  <2> QED BY <2>1, <1>4, <1>6, <1>8
<1> HIDE DEF c, d, r, i
<1>11. t \in StepRecords /\ SameCall(s, t) /\ Setting(t) /\ t.at = "add" /\ t.carry = c
      /\ t.i \in 1 .. DIGITS + 1 /\ t.i - 1 = i
      /\ t.obj[t.to] = Upto(r, L, t.i)
  <2> HIDE DEF L
  <2>1. s.i = i /\ h = i + 1
    BY DEF i
  <2> HIDE DEF h
  <2> QED BY <2>1, <1>1, <1>2, <1>3, <1>4, <1>7, <1>9, <1>10, LoopStep
<1>12. Left(t) = L /\ Right(t) = R
  BY <1>11 DEF SameCall, Left, Right
<1>13. Added(t)
  <2> HIDE DEF L, R
  <2> QED BY <1>10, <1>11, <1>12 DEF Added, r
<1>14. Advanced(t)
  BY <1>11, <1>13 DEF Advanced
<1> QED BY <1>11, <1>14 DEF StepsInv, t

\* The calls that come to a loop.
LEMMA LoopCallsAre ==
  ASSUME NEW s \in StepRecords, Setting(s)
  PROVE  /\ s.at = "add" => s.call \in {"+=", "++", "+", "_++", "neg"}
         /\ s.at = "sub" => s.call \in {"-=", "--", "-", "_--"}
         /\ s.at = "bit" => s.call \in {"&=", "|=", "^=", "&", "|"}
         /\ s.at = "not" => s.call \in {"~", "neg"}
         /\ s.at = "shift" => s.call \in {"<<=", ">>=", "<<", ">>"}
         /\ s.at = "mul" => s.call \in {"*=", "*"}
         /\ s.at = "assign" => s.call = "="
         /\ s.at = "less" => s.call \in {"<", "<=", ">", ">="}
         /\ s.at = "zero" => s.call = "is_zero"
         /\ s.at = "count" => s.call = "countl_zero"
         /\ s.at = "uint" => s.call = "uint"
<1>1. s.at \notin {"left", "right", "equal", "done"} => s.at = LoopOf(s.call) \/ (s.at = "add" /\ s.call = "neg")
  BY DEF Setting
<1>2. \A l \in DOMAIN Loops : s.call \in Loops[l] => LoopOf(s.call) = l
  BY LoopIs
<1>3. s.call \in Calls
  BY DEF StepRecords
<1> DEFINE loop == LoopOf(s.call)
<1> HIDE DEF loop
<1>4. /\ loop = "add" => s.call \in {"+=", "++", "+", "_++"}
      /\ loop = "sub" => s.call \in {"-=", "--", "-", "_--"}
      /\ loop = "bit" => s.call \in {"&=", "|=", "^=", "&", "|"}
      /\ loop = "not" => s.call \in {"~", "neg"}
      /\ loop = "shift" => s.call \in {"<<=", ">>=", "<<", ">>"}
      /\ loop = "mul" => s.call \in {"*=", "*"}
      /\ loop = "assign" => s.call = "="
      /\ loop = "less" => s.call \in {"<", "<=", ">", ">="}
      /\ loop = "zero" => s.call = "is_zero"
      /\ loop = "count" => s.call = "countl_zero"
      /\ loop = "uint" => s.call = "uint"
  BY <1>2, <1>3, LoopCalls DEF Calls, loop
<1> QED BY <1>1, <1>4 DEF loop

LEMMA SubStepInv == StepsInv /\ SubStep => StepsInv'
<1> SUFFICES ASSUME StepsInv, SubStep PROVE StepsInv'
  OBVIOUS
<1> DEFINE s == steps
           t == steps'
           L == s.a
           R == Right(s)
           i == s.i
           x == s.obj[s.to][i]
           y == s.obj[s.by][i]
           d == (x - y - s.carry) % BASE
           c == IF y > x \/ (y = x /\ s.carry = 1) THEN 1 ELSE 0
           r == Minus(L, R)
           h == i + 1
<1>1. s \in StepRecords /\ Setting(s) /\ Subtracted(s) /\ s.at = "sub" /\ i \in Places
  BY DEF StepsInv, Advanced, SubStep, InLoop
<1>2. Writes(s, t, d, h, c)
  BY DEF SubStep, Object, Writes
<1> HIDE DEF s, t
<1>3. L \in LongInts
  BY <1>1 DEF StepRecords
<1>4. s.obj[s.to] = Upto(r, L, i) /\ s.carry = Borrows(L, R)[i - 1]
  BY <1>1 DEF Subtracted
<1>5. s.call \in {"-=", "--", "-", "_--"}
  BY <1>1, LoopCallsAre
<1>6. R \in LongInts
  BY <1>1, SmallNumbers DEF Right, StepRecords
<1>7. r \in LongInts
  BY <1>3, <1>6, MinusIs
<1>8. x = L[i]
  <2> HIDE DEF L, R, i, r
  <2> QED BY <1>1, <1>3, <1>4, <1>7, UptoStep DEF x
<1>9. y = R[i]
  <2> HIDE DEF i, R
  <2> QED BY <1>1, <1>5, <1>8, RightIsRead DEF R, y, x, L
<1>10. d = r[i]
  BY <1>1, <1>3, <1>4, <1>6, <1>8, <1>9, MinusIs
<1>11. c = Borrows(L, R)[i] /\ c \in {0, 1}
  <2>1. Borrows(L, R)[i] = IF R[i] > L[i] \/ (R[i] = L[i] /\ Borrows(L, R)[i - 1] = 1) THEN 1 ELSE 0
    BY <1>1, <1>3, <1>6, BorrowsAre
  <2> HIDE DEF L, R, i, x, y
  <2> QED BY <2>1, <1>4, <1>8, <1>9
<1> HIDE DEF c, d, r, i
<1>12. t \in StepRecords /\ SameCall(s, t) /\ Setting(t) /\ t.at = "sub" /\ t.carry = c
      /\ t.i \in 1 .. DIGITS + 1 /\ t.i - 1 = i
      /\ t.obj[t.to] = Upto(r, L, t.i)
  <2> HIDE DEF L
  <2>1. s.i = i /\ h = i + 1
    BY DEF i
  <2> HIDE DEF h
  <2> QED BY <2>1, <1>1, <1>2, <1>3, <1>4, <1>7, <1>10, <1>11, LoopStep
<1>13. t.a = L /\ Right(t) = R
  BY <1>12 DEF SameCall, Right
<1>14. Subtracted(t)
  <2> HIDE DEF L, R
  <2> QED BY <1>11, <1>12, <1>13 DEF Subtracted, r
<1>15. Advanced(t)
  BY <1>12, <1>14 DEF Advanced
<1> QED BY <1>12, <1>15 DEF StepsInv, t

LEMMA BitwiseOfIs ==
  ASSUME NEW s \in StepRecords, s.call \in {"&=", "|=", "^=", "&", "|"}
  PROVE  /\ BitwiseOf(s) \in LongInts
         /\ \A i \in Places : BitwiseOf(s)[i] =
              LET x == Ones(s.a[i])  y == Ones(s.b[i])
              IN  FromOnes(CASE s.call \in {"&=", "&"} -> x \cap y
                             [] s.call \in {"|=", "|"} -> x \cup y
                             [] s.call = "^=" -> (x \ y) \cup (y \ x))
<1>1. s.a \in LongInts /\ s.b \in LongInts
  BY DEF StepRecords
<1>2. BitAnd(s.a, s.b) \in LongInts /\ BitOr(s.a, s.b) \in LongInts /\ BitXor(s.a, s.b) \in LongInts
  BY <1>1, BitwiseType
<1>3. BitwiseOf(s) \in LongInts
  BY <1>2 DEF BitwiseOf
<1>4. ASSUME NEW i \in Places
      PROVE  BitwiseOf(s)[i] =
              LET x == Ones(s.a[i])  y == Ones(s.b[i])
              IN  FromOnes(CASE s.call \in {"&=", "&"} -> x \cap y
                             [] s.call \in {"|=", "|"} -> x \cup y
                             [] s.call = "^=" -> (x \ y) \cup (y \ x))
  <2> DEFINE x == Ones(s.a[i])
             y == Ones(s.b[i])
  <2>1. BitAnd(s.a, s.b)[i] = FromOnes(x \cap y) /\ BitOr(s.a, s.b)[i] = FromOnes(x \cup y)
        /\ BitXor(s.a, s.b)[i] = FromOnes((x \ y) \cup (y \ x))
    BY DEF BitAnd, BitOr, BitXor, SymDiff
  <2> HIDE DEF x, y
  <2>2. CASE s.call \in {"&=", "&"}
    BY <2>1, <2>2 DEF BitwiseOf, x, y
  <2>3. CASE s.call \in {"|=", "|"}
    BY <2>1, <2>3 DEF BitwiseOf, x, y
  <2>4. CASE s.call = "^="
    BY <2>1, <2>4 DEF BitwiseOf, x, y
  <2> QED BY <2>2, <2>3, <2>4
<1> QED BY <1>3, <1>4

LEMMA BitStepInv == StepsInv /\ BitStep => StepsInv'
<1> SUFFICES ASSUME StepsInv, BitStep PROVE StepsInv'
  OBVIOUS
<1> DEFINE s == steps
           t == steps'
           i == s.i
           x == Ones(s.obj[s.to][i])
           y == Ones(s.obj[s.by][i])
           d == FromOnes(CASE s.call \in {"&=", "&"} -> x \cap y
                           [] s.call \in {"|=", "|"} -> x \cup y
                           [] s.call = "^=" -> (x \ y) \cup (y \ x))
           r == BitwiseOf(s)
           h == i + 1
<1>1. s \in StepRecords /\ Setting(s) /\ Combined(s) /\ s.at = "bit" /\ i \in Places /\ s.carry \in {0, 1}
  BY DEF StepsInv, Advanced, BitStep, InLoop, StepRecords
<1>2. Writes(s, t, d, h, s.carry)
  <2>1. t = [s EXCEPT !.i = h, !.obj[s.to][s.i] = d]
    BY DEF BitStep, Object
  <2> HIDE DEF s, t, d, h
  <2>2. t = [s EXCEPT !.obj[s.to][s.i] = d, !.i = h, !.carry = s.carry]
    BY <2>1, <1>1 DEF StepRecords
  <2> QED BY <2>2 DEF Writes
<1> HIDE DEF s, t
<1>3. s.a \in LongInts /\ s.b \in LongInts
  BY <1>1 DEF StepRecords
<1>4. s.obj[s.to] = Upto(r, s.a, i)
  BY <1>1 DEF Combined
<1>5. s.call \in {"&=", "|=", "^=", "&", "|"}
  BY <1>1, LoopCallsAre
<1>6. r \in LongInts
  BY <1>1, <1>5, BitwiseOfIs
<1>7. s.obj[s.to][i] = s.a[i]
  <2> HIDE DEF i, r
  <2> QED BY <1>1, <1>3, <1>4, <1>6, UptoStep
<1>8. s.obj[s.by][i] = s.b[i]
  <2>1. s.obj[s.by][i] = Right(s)[i]
    <3> HIDE DEF i
    <3> QED BY <1>1, <1>5, <1>7, RightIsRead
  <2>2. Right(s) = s.b
    BY <1>1, <1>5 DEF Setting, Right, Binary
  <2> QED BY <2>1, <2>2
<1>9. d = r[i]
  <2>1. r[i] = FromOnes(CASE s.call \in {"&=", "&"} -> Ones(s.a[i]) \cap Ones(s.b[i])
                           [] s.call \in {"|=", "|"} -> Ones(s.a[i]) \cup Ones(s.b[i])
                           [] s.call = "^=" -> (Ones(s.a[i]) \ Ones(s.b[i])) \cup (Ones(s.b[i]) \ Ones(s.a[i])))
    BY <1>1, <1>5, BitwiseOfIs
  <2> QED BY <2>1, <1>7, <1>8
<1> HIDE DEF d, r, i
<1>12. t \in StepRecords /\ SameCall(s, t) /\ Setting(t) /\ t.at = "bit"
      /\ t.i \in 1 .. DIGITS + 1
      /\ t.obj[t.to] = Upto(r, s.a, t.i)
  <2>1. s.i = i /\ h = i + 1
    BY DEF i
  <2> HIDE DEF h
  <2> QED BY <2>1, <1>1, <1>2, <1>3, <1>4, <1>6, <1>9, LoopStep
<1>14. Combined(t)
  BY <1>12 DEF Combined, SameCall, BitwiseOf, r
<1>15. Advanced(t)
  BY <1>12, <1>14 DEF Advanced
<1> QED BY <1>12, <1>15 DEF StepsInv, t

LEMMA NotStepInv == StepsInv /\ NotStep => StepsInv'
<1> SUFFICES ASSUME StepsInv, NotStep PROVE StepsInv'
  OBVIOUS
<1> DEFINE s == steps
           t == steps'
           i == s.i
           d == BASE - 1 - s.obj["this"][i]
           r == Complement(s.a)
           h == i + 1
<1>1. s \in StepRecords /\ Setting(s) /\ Turned(s) /\ s.at = "not" /\ i \in Places /\ s.carry \in {0, 1}
  BY DEF StepsInv, Advanced, NotStep, InLoop, StepRecords
<1>2. t = [s EXCEPT !.obj["new"][s.i] = d, !.i = h]
  BY DEF NotStep, Object
<1> HIDE DEF s, t
<1>3. s.a \in LongInts /\ ZERO \in LongInts
  BY <1>1, SmallNumbers DEF StepRecords
<1>5. s.call \in {"~", "neg"}
  BY <1>1, LoopCallsAre
<1>6. s.to = "new" /\ s.obj["this"] = s.a
  BY <1>1, <1>5 DEF Setting
<1>7. Writes(s, t, d, h, s.carry)
  <2> HIDE DEF d, h
  <2>2. t = [s EXCEPT !.obj[s.to][s.i] = d, !.i = h, !.carry = s.carry]
    BY <1>2, <1>6, <1>1 DEF StepRecords
  <2> QED BY <2>2 DEF Writes
<1>4. s.obj[s.to] = Upto(r, ZERO, i)
  BY <1>1, <1>6 DEF Turned
<1>8. r \in LongInts
  BY <1>3, ComplementIs
<1>9. d = r[i]
  BY <1>1, <1>6 DEF Complement
<1> HIDE DEF d, r, i
<1>12. t \in StepRecords /\ SameCall(s, t) /\ Setting(t) /\ t.at = "not" /\ t.carry = s.carry
      /\ t.i \in 1 .. DIGITS + 1
      /\ t.obj[t.to] = Upto(r, ZERO, t.i)
  <2>1. s.i = i /\ h = i + 1
    BY DEF i
  <2> HIDE DEF h
  <2> QED BY <2>1, <1>1, <1>3, <1>4, <1>7, <1>8, <1>9, LoopStep
<1>14. Turned(t)
  BY <1>1, <1>6, <1>12 DEF Turned, SameCall, r
<1>15. Advanced(t)
  BY <1>12, <1>14 DEF Advanced
<1> QED BY <1>12, <1>15 DEF StepsInv, t

LEMMA AssignedType == ASSUME NEW kind, NEW k \in Others PROVE AssignNextPrev(kind, k) \in LongInts
<1>1. 0 \in 0 .. BASE - 1
  BY BaseIs
<1> QED BY <1>1, AssignIsDigits DEF AssignNextPrev

LEMMA AssignStepInv == StepsInv /\ AssignStep => StepsInv'
<1> SUFFICES ASSUME StepsInv, AssignStep PROVE StepsInv'
  OBVIOUS
<1> DEFINE s == steps
           t == steps'
           i == s.i
           d == IF (i - 1) * BITS < INT_BITS THEN (s.k \div 2 ^ ((i - 1) * BITS)) % BASE ELSE 0
           r == AssignNextPrev(s.kind, s.k)
           h == i + 1
<1>1. s \in StepRecords /\ Setting(s) /\ Assigned(s) /\ s.at = "assign" /\ i \in Places /\ s.carry \in {0, 1}
  BY DEF StepsInv, Advanced, AssignStep, InLoop, StepRecords
<1>2. t = [s EXCEPT !.i = h, !.obj["this"][s.i] = d]
  BY DEF AssignStep
<1> HIDE DEF s, t
<1>3. s.a \in LongInts
  BY <1>1 DEF StepRecords
<1>5. s.call = "="
  BY <1>1, LoopCallsAre
<1>6. s.to = "this" /\ s.k \in Others
  BY <1>1, <1>5 DEF Setting, Copying
<1>7. Writes(s, t, d, h, s.carry)
  <2> HIDE DEF d, h
  <2>2. t = [s EXCEPT !.obj[s.to][s.i] = d, !.i = h, !.carry = s.carry]
    BY <1>2, <1>6, <1>1 DEF StepRecords
  <2> QED BY <2>2 DEF Writes
<1>4. s.obj[s.to] = Upto(r, s.a, i)
  BY <1>1, <1>6 DEF Assigned
<1>8. r \in LongInts
  BY <1>6, AssignedType
<1>9. d = r[i]
  BY <1>1, AssignedDigit
<1> HIDE DEF d, r, i
<1>12. t \in StepRecords /\ SameCall(s, t) /\ Setting(t) /\ t.at = "assign"
      /\ t.i \in 1 .. DIGITS + 1
      /\ t.obj[t.to] = Upto(r, s.a, t.i)
  <2>1. s.i = i /\ h = i + 1
    BY DEF i
  <2> HIDE DEF h
  <2> QED BY <2>1, <1>1, <1>3, <1>4, <1>7, <1>8, <1>9, LoopStep
<1>14. Assigned(t)
  BY <1>6, <1>12 DEF Assigned, SameCall, r
<1>15. Advanced(t)
  BY <1>12, <1>14 DEF Advanced
<1> QED BY <1>12, <1>15 DEF StepsInv, t

----------------------------------------------------------------------------
(* The ends of the loops *)

\* A step that goes to another stage, and may write the number or an answer.
Goes(s, t, at, i, y, answer, kept) ==
    t = [s EXCEPT !.at = at, !.i = i, !.obj[s.to] = y, !.answer = answer, !.kept = kept]

LEMMA GoesIs ==
  ASSUME NEW s \in StepRecords, Setting(s), NEW at \in Stages, NEW i \in Int, NEW y \in LongInts,
         NEW answer \in Int, NEW kept \in BOOLEAN, NEW t, Goes(s, t, at, i, y, answer, kept),
         at \notin {"left", "right", "equal", "done"} => at = LoopOf(s.call) \/ (at = "add" /\ s.call = "neg")
  PROVE  /\ t \in StepRecords /\ SameCall(s, t) /\ Setting(t) /\ t.at = at /\ t.i = i
         /\ t.obj[t.to] = y /\ t.answer = answer /\ t.kept = kept /\ t.carry = s.carry
         /\ Left(t) = Left(s) /\ Right(t) = Right(s) /\ BitwiseOf(t) = BitwiseOf(s)
<1> DEFINE o == [s.obj EXCEPT ![s.to] = y]
<1>1. s.obj \in [Names -> LongInts] /\ s.to \in Names
  BY DEF StepRecords, Names
<1>2. o \in [Names -> LongInts] /\ o[s.to] = y
  BY <1>1
<1>3. t = [s EXCEPT !.at = at, !.i = i, !.obj = o, !.answer = answer, !.kept = kept]
  BY DEF Goes
<1> HIDE DEF o
<1>4. t \in StepRecords /\ SameCall(s, t) /\ t.at = at /\ t.i = i /\ t.obj = o /\ t.answer = answer
      /\ t.kept = kept /\ t.carry = s.carry
  BY <1>2, <1>3 DEF StepRecords, SameCall
<1>5. Puts(s, t, y)
  BY <1>4 DEF Puts, o
<1>6. at \notin {"left", "right", "equal", "done"} => t.at = LoopOf(t.call) \/ (t.at = "add" /\ t.call = "neg")
  BY <1>4 DEF SameCall
<1>7. Setting(t)
  BY <1>4, <1>5, <1>6, SettingStays
<1>8. Left(t) = Left(s) /\ Right(t) = Right(s) /\ BitwiseOf(t) = BitwiseOf(s)
  BY <1>4 DEF SameCall, Left, Right, BitwiseOf
<1> QED BY <1>2, <1>4, <1>7, <1>8 DEF SameCall

LEMMA LoopEndsInv == StepsInv /\ LoopEnds => StepsInv'
<1> SUFFICES ASSUME StepsInv, LoopEnds PROVE StepsInv'
  OBVIOUS
<1> DEFINE s == steps
           t == steps'
           y == s.obj[s.to]
<1>1. s \in StepRecords /\ Setting(s) /\ Advanced(s) /\ s.at \in {"add", "sub", "bit", "assign"} /\ s.i > DIGITS
      /\ s.i \in Int
  BY DEF StepsInv, LoopEnds, StepRecords
<1>2. Goes(s, t, "done", s.i, y, s.answer, s.kept)
  <2>1. t = [s EXCEPT !.at = "done"]
    BY DEF LoopEnds
  <2> HIDE DEF s, t
  <2> QED BY <2>1, <1>1 DEF Goes, StepRecords
<1> HIDE DEF s, t
<1>3. y \in LongInts /\ s.answer \in Int /\ s.kept \in BOOLEAN /\ s.a \in LongInts /\ s.b \in LongInts
  BY <1>1 DEF StepRecords, Names
<1>4. t \in StepRecords /\ SameCall(s, t) /\ Setting(t) /\ t.at = "done"
      /\ t.obj[t.to] = y /\ Left(t) = Left(s) /\ Right(t) = Right(s) /\ BitwiseOf(t) = BitwiseOf(s)
  <2> HIDE DEF y
  <2> QED BY <1>1, <1>2, <1>3, GoesIs DEF Stages
<1>5. \A r, x \in LongInts : Upto(r, x, s.i) = r
  BY <1>1, UptoEnds
<1>6. Left(s) \in LongInts /\ Right(s) \in LongInts
  BY <1>3, ComplementIs, SmallNumbers DEF Left, Right
<1>7. Plus(Left(s), Right(s)) \in LongInts /\ Minus(s.a, Right(s)) \in LongInts
  BY <1>3, <1>6, PlusIs, MinusIs
<1>8. CASE s.at = "add"
  <2>1. s.call \in {"+=", "++", "+", "_++", "neg"}
    BY <1>1, <1>8, LoopCallsAre
  <2>2. y = Plus(Left(s), Right(s))
    BY <1>1, <1>5, <1>6, <1>7, <1>8 DEF Advanced, Added
  <2>3. Finished(t)
    BY <2>1, <2>2, <1>4 DEF Finished, SameCall, Loops, Leftwards
  <2> QED BY <2>3, <1>4 DEF StepsInv, Advanced, t
<1>9. CASE s.at = "sub"
  <2>1. s.call \in {"-=", "--", "-", "_--"}
    BY <1>1, <1>9, LoopCallsAre
  <2>2. y = Minus(s.a, Right(s))
    BY <1>1, <1>3, <1>5, <1>7, <1>9 DEF Advanced, Subtracted
  <2>3. Finished(t)
    BY <2>1, <2>2, <1>4 DEF Finished, SameCall, Loops, Leftwards
  <2> QED BY <2>3, <1>4 DEF StepsInv, Advanced, t
<1>10. CASE s.at = "bit"
  <2>1. s.call \in {"&=", "|=", "^=", "&", "|"}
    BY <1>1, <1>10, LoopCallsAre
  <2>4. BitwiseOf(s) \in LongInts
    BY <2>1, <1>1, BitwiseOfIs
  <2>2. y = BitwiseOf(s)
    BY <2>4, <1>1, <1>3, <1>5, <1>10 DEF Advanced, Combined
  <2>3. Finished(t)
    BY <2>1, <2>2, <1>4 DEF Finished, SameCall, Loops, Leftwards
  <2> QED BY <2>3, <1>4 DEF StepsInv, Advanced, t
<1>11. CASE s.at = "assign"
  <2>1. s.call = "="
    BY <1>1, <1>11, LoopCallsAre
  <2>5. s.to = "this" /\ s.k \in Others
    BY <2>1, <1>1 DEF Setting, Copying
  <2>4. AssignNextPrev(s.kind, s.k) \in LongInts
    BY <2>5, AssignedType
  <2>2. y = AssignNextPrev(s.kind, s.k)
    BY <2>4, <2>5, <1>1, <1>3, <1>5, <1>11 DEF Advanced, Assigned
  <2>3. Finished(t)
    BY <2>1, <2>2, <1>4 DEF Finished, SameCall, Loops, Leftwards
  <2> QED BY <2>3, <1>4 DEF StepsInv, Advanced, t
<1> QED BY <1>1, <1>8, <1>9, <1>10, <1>11

LEMMA NotEndsInv == StepsInv /\ NotEnds => StepsInv'
<1> SUFFICES ASSUME StepsInv, NotEnds PROVE StepsInv'
  OBVIOUS
<1> DEFINE s == steps
           t == steps'
           y == s.obj[s.to]
           at == IF s.call = "neg" THEN "add" ELSE "done"
<1>1. s \in StepRecords /\ Setting(s) /\ Turned(s) /\ s.at = "not" /\ s.i > DIGITS /\ s.i \in Int
  BY DEF StepsInv, NotEnds, StepRecords, Advanced
<1>2. Goes(s, t, at, 1, y, s.answer, s.kept)
  <2>1. t = [s EXCEPT !.at = at, !.i = 1]
    BY DEF NotEnds
  <2> HIDE DEF s, t, at
  <2> QED BY <2>1, <1>1 DEF Goes, StepRecords
<1> HIDE DEF s, t
<1>3. y \in LongInts /\ s.answer \in Int /\ s.kept \in BOOLEAN /\ s.a \in LongInts /\ s.b \in LongInts
      /\ at \in Stages
  BY <1>1 DEF StepRecords, Names, Stages
<1>4. s.call \in {"~", "neg"}
  BY <1>1, LoopCallsAre
<1>5. t \in StepRecords /\ SameCall(s, t) /\ Setting(t) /\ t.at = at /\ t.i = 1
      /\ t.obj[t.to] = y /\ t.carry = s.carry /\ Left(t) = Left(s) /\ Right(t) = Right(s)
  <2>1. at = "done" \/ (at = "add" /\ s.call = "neg")
    BY <1>4
  <2> HIDE DEF y, at
  <2>2. 1 \in Int
    OBVIOUS
  <2> QED BY <2>1, <2>2, <1>1, <1>2, <1>3, GoesIs
<1>6. Complement(s.a) \in LongInts /\ ZERO \in LongInts
  BY <1>3, ComplementIs, SmallNumbers
<1>7. y = Complement(s.a) /\ s.carry = 0
  <2>1. s.to = "new"
    BY <1>1, <1>4 DEF Setting
  <2> QED BY <2>1, <1>1, <1>6, UptoEnds DEF Turned
<1>8. CASE s.call = "neg"
  <2> DEFINE L == Left(s)
             R == Right(s)
  <2>1. L = Complement(s.a) /\ R \in LongInts
    BY <1>3, <1>8, SmallNumbers DEF Left, Right
  <2>2. Plus(L, R) \in LongInts /\ Carries(L, R)[0] = 0
    BY <2>1, <1>6, PlusIs, CarriesAre
  <2>3. Upto(Plus(L, R), L, 1) = L
    BY <2>1, <2>2, <1>6, UptoEnds
  <2>4. DIGITS \in Nat /\ 1 - 1 = 0 /\ 1 \in 1 .. DIGITS + 1
    BY BaseIs
  <2>5. Added(t)
    BY <2>1, <2>2, <2>3, <2>4, <1>5, <1>7 DEF Added
  <2>6. t.at = "add"
    BY <1>5, <1>8
  <2> QED BY <2>5, <2>6, <1>5 DEF StepsInv, Advanced, t
<1>9. CASE s.call = "~"
  <2>1. t.at = "done"
    BY <1>5, <1>9
  <2>2. Finished(t)
    BY <1>5, <1>7, <1>9 DEF Finished, SameCall, Loops, Leftwards
  <2> QED BY <2>1, <2>2, <1>5 DEF StepsInv, Advanced, t
<1> QED BY <1>4, <1>8, <1>9

----------------------------------------------------------------------------
(* The shifts *)

\* A shift by nothing, and one out of all digits.
LEMMA ShiftsAtEnds ==
  ASSUME NEW x \in LongInts, NEW k \in Nat
  PROVE  /\ k = 0 => ShiftLeft(x, k) = x
         /\ k \div BITS >= DIGITS => ShiftLeft(x, k) = ZERO
<1> DEFINE n == k \div BITS
           b == k % BITS
           r == ShiftLeft(x, k)
<1>1. r \in LongInts
  BY ShiftLeftIs
<1>2. \A i \in Places : /\ i <= n => r[i] = 0
                        /\ i > n => r[i] = ((x[i - n] * 2 ^ b) % BASE)
                              + (IF i - n > 1 /\ b # 0 THEN x[i - n - 1] \div 2 ^ (BITS - b) ELSE 0)
  BY ShiftedLeftDigit
<1>3. ASSUME k = 0 PROVE r = x
  <2>1. n = 0 /\ b = 0
    <3> DEFINE o == 0
    <3>1. o \in 0 .. BITS - 1 /\ o \in Int /\ k \in Int /\ k = o * BITS + o /\ BITS \in Nat \ {0}
      BY <1>3, LongIntAssumption
    <3> HIDE DEF o
    <3>2. k \div BITS = o /\ k % BITS = o
      BY ONLY <3>1, IntDivisionUnique
    <3> QED BY <3>2 DEF o
  <2> HIDE DEF n, b
  <2>2. 2 ^ b = 1
    BY <2>1, PowerStep
  <2>3. ASSUME NEW i \in Places PROVE r[i] = x[i]
    <3>1. i > n /\ i - n = i /\ i \in Int
      BY <2>1, BaseIs DEF Places
    <3>2. r[i] = ((x[i] * 1) % BASE) + 0
      BY <1>2, <2>1, <2>2, <3>1
    <3> DEFINE y == x[i]
               o == 0
    <3>3. y \in 0 .. BASE - 1 /\ y * 1 = y /\ BASE \in Nat \ {0} /\ y \in Int /\ o \in Int /\ y = o * BASE + y
      BY BaseIs DEF LongInts
    <3> HIDE DEF y, o
    <3>4. y % BASE = y
      BY ONLY <3>3, IntDivisionUnique
    <3> QED BY <3>2, <3>3, <3>4 DEF y
  <2> HIDE DEF r
  <2> QED BY <2>3, <1>1 DEF LongInts
<1>4. ASSUME n >= DIGITS PROVE r = ZERO
  <2>1. n \in Nat
    BY ShiftParts
  <2> HIDE DEF n
  <2>2. \A i \in Places : i <= n
    BY <2>1, <1>4, BaseIs DEF Places
  <2>3. \A i \in Places : r[i] = 0
    BY <2>2, <1>2
  <2> HIDE DEF r
  <2> QED BY <2>3, <1>1 DEF LongInts, ZERO
<1> QED BY <1>3, <1>4

LEMMA ShiftStartsInv == StepsInv /\ ShiftStarts => StepsInv'
<1> SUFFICES ASSUME StepsInv, ShiftStarts PROVE StepsInv'
  OBVIOUS
<1> DEFINE s == steps
           t == steps'
           n == s.k \div BITS
<1>1. s \in StepRecords /\ Setting(s) /\ s.at = "shift" /\ s.i = 1 /\ s.obj[s.to] = s.a
  BY DEF StepsInv, ShiftStarts, StepRecords, Advanced, ToShift
<1>2. PICK kept \in Overshifts(s.kind) :
          t = IF s.k = 0 THEN [s EXCEPT !.at = "done"]
              ELSE IF n >= DIGITS THEN [s EXCEPT !.at = "done", !.obj[s.to] = ZERO]
              ELSE IF s.call \in Leftwards THEN [s EXCEPT !.at = "left", !.i = DIGITS]
              ELSE [s EXCEPT !.at = "right", !.kept = kept]
  BY DEF ShiftStarts, ShiftDigits
<1> HIDE DEF s, t
<1>3. s.a \in LongInts /\ s.answer \in Int /\ s.kept \in BOOLEAN /\ kept \in BOOLEAN /\ ZERO \in LongInts
      /\ s.i \in Int /\ DIGITS \in Int /\ DIGITS >= 1
  <2>1. kept \in BOOLEAN
    BY DEF Overshifts
  <2> QED BY <2>1, <1>1, SmallNumbers, BaseIs DEF StepRecords
<1>4. s.call \in {"<<=", ">>=", "<<", ">>"}
  BY <1>1, LoopCallsAre
<1>5. s.k \in Nat
  BY <1>1, <1>4 DEF Setting, Loops
<1>6. n \in Nat
  BY <1>5, ShiftParts
<1> HIDE DEF n
<1>7. CASE s.k = 0
  <2>1. Goes(s, t, "done", s.i, s.a, s.answer, s.kept)
    <3> DEFINE y == s.obj[s.to]
    <3>1. t = [s EXCEPT !.at = "done"]
      BY <1>2, <1>7
    <3>2. Goes(s, t, "done", s.i, y, s.answer, s.kept)
      BY <3>1, <1>1 DEF Goes, StepRecords
    <3> QED BY <3>2, <1>1
  <2>2. t \in StepRecords /\ SameCall(s, t) /\ Setting(t) /\ t.at = "done" /\ t.obj[t.to] = s.a
    BY <2>1, <1>1, <1>3, GoesIs DEF Stages
  <2>3. ShiftLeft(s.a, s.k) = s.a
    BY <1>3, <1>5, <1>7, ShiftsAtEnds
  <2>4. \A b \in BOOLEAN : ShiftRight(s.kind, s.a, s.k, b) = s.a
    <3>1. ~ (n >= DIGITS)
      <4>1. 0 \div BITS = 0
        BY LongIntAssumption
      <4> QED BY <4>1, <1>3, <1>7 DEF n
    <3> QED BY <3>1, <1>7 DEF ShiftRight, n
  <2>5. t.kept \in BOOLEAN
    BY <2>2 DEF StepRecords
  <2>6. Finished(t)
    BY <2>2, <2>3, <2>4, <2>5, <1>4 DEF Finished, SameCall, Loops, Leftwards
  <2> QED BY <2>2, <2>6 DEF StepsInv, Advanced, t
<1>8. CASE s.k # 0 /\ n >= DIGITS
  <2>1. Goes(s, t, "done", s.i, ZERO, s.answer, s.kept)
    BY <1>1, <1>2, <1>8 DEF Goes, StepRecords
  <2>2. t \in StepRecords /\ SameCall(s, t) /\ Setting(t) /\ t.at = "done" /\ t.obj[t.to] = ZERO
    BY <2>1, <1>1, <1>3, GoesIs DEF Stages
  <2>3. ShiftLeft(s.a, s.k) = ZERO
    BY <1>3, <1>5, <1>8, ShiftsAtEnds DEF n
  <2>4. \A b \in BOOLEAN : ShiftRight(s.kind, s.a, s.k, b) = ZERO
    BY <1>8 DEF ShiftRight, n
  <2>5. t.kept \in BOOLEAN
    BY <2>2 DEF StepRecords
  <2>6. Finished(t)
    BY <2>2, <2>3, <2>4, <2>5, <1>4 DEF Finished, SameCall, Loops, Leftwards
  <2> QED BY <2>2, <2>6 DEF StepsInv, Advanced, t
<1>9. CASE s.k # 0 /\ ~ (n >= DIGITS) /\ s.call \in Leftwards
  <2>1. Goes(s, t, "left", DIGITS, s.a, s.answer, s.kept)
    <3> DEFINE y == s.obj[s.to]
    <3>1. t = [s EXCEPT !.at = "left", !.i = DIGITS]
      BY <1>2, <1>9
    <3>2. Goes(s, t, "left", DIGITS, y, s.answer, s.kept)
      BY <3>1, <1>1 DEF Goes, StepRecords
    <3> QED BY <3>2, <1>1
  <2>2. t \in StepRecords /\ SameCall(s, t) /\ Setting(t) /\ t.at = "left" /\ t.obj[t.to] = s.a /\ t.i = DIGITS
    <3> DEFINE at == "left"
               i == DIGITS
    <3>1. at \in Stages /\ at \in {"left", "right", "equal", "done"} /\ Goes(s, t, at, i, s.a, s.answer, s.kept)
          /\ i \in Int
      BY <2>1, <1>3 DEF Stages
    <3> HIDE DEF at, i
    <3>2. t \in StepRecords /\ SameCall(s, t) /\ Setting(t) /\ t.at = at /\ t.obj[t.to] = s.a /\ t.i = i
      BY <3>1, <1>1, <1>3, GoesIs
    <3> QED BY <3>2 DEF at, i
  <2>3. ShiftLeft(s.a, s.k) \in LongInts
    BY <1>3, <1>5, ShiftLeftIs
  <2>4. Behind(ShiftLeft(s.a, s.k), s.a, DIGITS) = s.a
    <3>1. \A r \in LongInts : Behind(r, s.a, DIGITS) = s.a
      <4> TAKE r \in LongInts
      <4>1. \A m \in Places : ~ (m > DIGITS)
        BY BaseIs DEF Places
      <4> QED BY <4>1, <1>3 DEF Behind, LongInts
    <3> QED BY <3>1, <2>3
  <2>5. n < DIGITS /\ DIGITS \in n .. DIGITS
    BY <1>3, <1>6, <1>9
  <2>6. WentLeft(t)
    BY <2>2, <2>4, <2>5, <1>9 DEF WentLeft, SameCall, n
  <2> QED BY <2>2, <2>6 DEF StepsInv, Advanced, t
<1>10. CASE s.k # 0 /\ ~ (n >= DIGITS) /\ s.call \notin Leftwards
  <2>1. Goes(s, t, "right", s.i, s.a, s.answer, kept)
    <3> DEFINE y == s.obj[s.to]
    <3>1. t = [s EXCEPT !.at = "right", !.kept = kept]
      BY <1>2, <1>10
    <3>2. Goes(s, t, "right", s.i, y, s.answer, kept)
      BY <3>1, <1>1 DEF Goes, StepRecords
    <3> QED BY <3>2, <1>1
  <2>2. t \in StepRecords /\ SameCall(s, t) /\ Setting(t) /\ t.at = "right" /\ t.obj[t.to] = s.a /\ t.i = s.i
    <3> DEFINE at == "right"
               i == s.i
    <3>1. at \in Stages /\ at \in {"left", "right", "equal", "done"} /\ Goes(s, t, at, i, s.a, s.answer, kept)
          /\ i \in Int
      BY <2>1, <1>3 DEF Stages
    <3> HIDE DEF at, i
    <3>2. t \in StepRecords /\ SameCall(s, t) /\ Setting(t) /\ t.at = at /\ t.obj[t.to] = s.a /\ t.i = i
      BY <3>1, <1>1, <1>3, GoesIs
    <3> QED BY <3>2 DEF at, i
  <2>3. t.kept \in BOOLEAN
    BY <2>2 DEF StepRecords
  <2>4. ShiftRight(s.kind, s.a, s.k, t.kept) \in LongInts
    BY <2>3, <1>3, <1>5, ShiftRightType
  <2>5. Upto(ShiftRight(s.kind, s.a, s.k, t.kept), s.a, s.i) = s.a
    BY <2>4, <1>1, <1>3, UptoEnds
  <2>6. n < DIGITS /\ s.i \in 1 .. DIGITS + 1 - n
    BY <1>1, <1>3, <1>6, <1>10
  <2>7. WentRight(t)
    BY <2>2, <2>5, <2>6, <1>4, <1>10 DEF WentRight, SameCall, n, Leftwards
  <2> QED BY <2>2, <2>7 DEF StepsInv, Advanced, t
<1> QED BY <1>7, <1>8, <1>9, <1>10

LEMMA BehindStep ==
  ASSUME NEW r \in LongInts, NEW x \in LongInts, NEW i \in Places, NEW h, h = i - 1
  PROVE  /\ Behind(r, x, h) = [Behind(r, x, i) EXCEPT ![i] = r[i]]
         /\ \A n \in Places : n <= i => Behind(r, x, i)[n] = x[n]
<1>1. \A n \in Places : (n > h <=> n > i \/ n = i) /\ (n <= i => ~ (n > i)) /\ ~ (i > i)
  BY BaseIs DEF Places
<1> QED BY <1>1 DEF Behind

LEMMA ShiftLeftStepInv == StepsInv /\ ShiftLeftStep => StepsInv'
<1> SUFFICES ASSUME StepsInv, ShiftLeftStep PROVE StepsInv'
  OBVIOUS
<1> DEFINE s == steps
           t == steps'
           i == s.i
           n == s.k \div BITS
           b == s.k % BITS
           x == s.obj[s.to]
           from == i - n
           low == (x[from] * 2 ^ b) % BASE
           high == IF from > 1 /\ b # 0 THEN x[from - 1] \div 2 ^ (BITS - b) ELSE 0
           d == low + high
           h == i - 1
           r == ShiftLeft(s.a, s.k)
<1>1. s \in StepRecords /\ Setting(s) /\ s.at = "left" /\ WentLeft(s) /\ i > n /\ s.carry \in {0, 1}
  BY DEF StepsInv, ShiftLeftStep, StepRecords, Advanced, ShiftDigits
<1>2. Writes(s, t, d, h, s.carry)
  <2>1. t = [s EXCEPT !.obj[s.to][s.i] = d, !.i = h]
    BY DEF ShiftLeftStep, Object, ShiftDigits, ShiftBits
  <2> HIDE DEF s, t, d, h
  <2>2. t = [s EXCEPT !.obj[s.to][s.i] = d, !.i = h, !.carry = s.carry]
    BY <2>1, <1>1 DEF StepRecords
  <2> QED BY <2>2 DEF Writes
<1> HIDE DEF s, t
<1>3. s.a \in LongInts /\ s.k \in Nat /\ s.call \in {"<<=", "<<"}
  <2>1. s.call \in {"<<=", "<<"}
    BY <1>1 DEF WentLeft, Leftwards
  <2> QED BY <2>1, <1>1 DEF StepRecords, Setting, Loops
<1>4. n \in Nat /\ b \in Nat
  BY <1>3, ShiftParts
<1> HIDE DEF n, b
<1>5. i \in Places /\ i \in Int /\ h \in Int /\ h \in n .. DIGITS /\ n < DIGITS /\ i \in Nat
  BY <1>1, <1>4, BaseIs DEF WentLeft, Places, n
<1>6. r \in LongInts
  BY <1>3, ShiftLeftIs
<1>7. x = Behind(r, s.a, i)
  BY <1>1 DEF WentLeft
<1>8. from \in Places /\ (from > 1 => from - 1 \in Places) /\ from <= i /\ from - 1 <= i
  <2>1. i \in 1 .. DIGITS /\ DIGITS \in Nat /\ i > n
    BY <1>1, <1>5, BaseIs DEF Places
  <2> HIDE DEF i
  <2> QED BY <2>1, <1>4 DEF Places
<1>9. \A m \in Places : m <= i => x[m] = s.a[m]
  <2>1. h = i - 1
    OBVIOUS
  <2> HIDE DEF i, r, x, h
  <2> QED BY <2>1, <1>3, <1>5, <1>6, <1>7, BehindStep
<1>10. x[from] = s.a[from] /\ (from > 1 => x[from - 1] = s.a[from - 1])
  <2> HIDE DEF from, x, i
  <2> QED BY <1>8, <1>9
<1>11. d = r[i]
  <2>1. r[i] = ((s.a[from] * 2 ^ b) % BASE)
               + (IF from > 1 /\ b # 0 THEN s.a[from - 1] \div 2 ^ (BITS - b) ELSE 0)
    <3> HIDE DEF i
    <3> QED BY <1>1, <1>3, <1>5, ShiftedLeftDigit DEF n, b
  <2> HIDE DEF from, x
  <2> QED BY <2>1, <1>10
<1>12. d \in 0 .. BASE - 1
  <2> HIDE DEF d, i
  <2> QED BY <1>5, <1>6, <1>11 DEF LongInts
<1> DEFINE y == [s.obj[s.to] EXCEPT ![s.i] = d]
<1>13. y = Behind(r, s.a, h)
  <2>1. h = i - 1
    OBVIOUS
  <2>2. Behind(r, s.a, h) = [Behind(r, s.a, i) EXCEPT ![i] = r[i]]
    <3> HIDE DEF i, r, h
    <3> QED BY <2>1, <1>3, <1>5, <1>6, BehindStep
  <2> HIDE DEF d, r, h
  <2> QED BY <2>2, <1>7, <1>11
<1> HIDE DEF d, r, h
<1>14. t \in StepRecords /\ SameCall(s, t) /\ t.at = s.at /\ t.i = h /\ Puts(s, t, y) /\ t.obj[s.to] = y
  BY <1>1, <1>2, <1>5, <1>12, DigitWritten
<1>15. Setting(t)
  <2> HIDE DEF y
  <2> QED BY <1>1, <1>14, SettingStays
<1>16. WentLeft(t)
  BY <1>1, <1>5, <1>13, <1>14 DEF WentLeft, SameCall, r, n
<1> QED BY <1>1, <1>14, <1>15, <1>16 DEF StepsInv, Advanced, t

LEMMA ShiftLeftFillInv == StepsInv /\ ShiftLeftFill => StepsInv'
<1> SUFFICES ASSUME StepsInv, ShiftLeftFill PROVE StepsInv'
  OBVIOUS
<1> DEFINE s == steps
           t == steps'
           i == s.i
           n == s.k \div BITS
           x == s.obj[s.to]
           r == ShiftLeft(s.a, s.k)
           y == [m \in Places |-> IF m <= n THEN 0 ELSE x[m]]
<1>1. s \in StepRecords /\ Setting(s) /\ s.at = "left" /\ WentLeft(s) /\ i = n /\ s.i \in Int
      /\ s.answer \in Int /\ s.kept \in BOOLEAN
  BY DEF StepsInv, ShiftLeftFill, StepRecords, Advanced, ShiftDigits
<1>2. Goes(s, t, "done", s.i, y, s.answer, s.kept)
  <2>1. t = [s EXCEPT !.at = "done", !.obj[s.to] = y]
    BY DEF ShiftLeftFill, ShiftDigits
  <2> HIDE DEF s, t, y
  <2> QED BY <2>1, <1>1 DEF Goes, StepRecords
<1> HIDE DEF s, t
<1>3. s.a \in LongInts /\ s.k \in Nat /\ s.call \in {"<<=", "<<"}
  <2>1. s.call \in {"<<=", "<<"}
    BY <1>1 DEF WentLeft, Leftwards
  <2> QED BY <2>1, <1>1 DEF StepRecords, Setting, Loops
<1>4. n \in Nat
  BY <1>3, ShiftParts
<1>6. r \in LongInts
  BY <1>3, ShiftLeftIs
<1>7. x = Behind(r, s.a, n)
  BY <1>1 DEF WentLeft
<1>8. \A m \in Places : m <= n => r[m] = 0
  BY <1>3, ShiftedLeftDigit
<1> HIDE DEF n, r
<1>9. y = r
  <2>1. \A m \in Places : ~ (m <= n) => m > n
    BY <1>4, BaseIs DEF Places
  <2>2. \A m \in Places : ~ (m <= n) => x[m] = r[m]
    BY <2>1, <1>7 DEF Behind
  <2> HIDE DEF x
  <2> QED BY <2>2, <1>6, <1>8 DEF LongInts
<1> HIDE DEF y
<1>10. t \in StepRecords /\ SameCall(s, t) /\ Setting(t) /\ t.at = "done" /\ t.obj[t.to] = y
  BY <1>1, <1>2, <1>6, <1>9, GoesIs DEF Stages
<1>11. Finished(t)
  BY <1>3, <1>9, <1>10 DEF Finished, SameCall, Loops, Leftwards, r
<1> QED BY <1>10, <1>11 DEF StepsInv, Advanced, t

LEMMA ShiftRightStepInv == StepsInv /\ ShiftRightStep => StepsInv'
<1> SUFFICES ASSUME StepsInv, ShiftRightStep PROVE StepsInv'
  OBVIOUS
<1> DEFINE s == steps
           t == steps'
           i == s.i
           n == s.k \div BITS
           b == s.k % BITS
           x == s.obj[s.to]
           a == s.a
           from == i + n
           LowOf(z) == IF s.kind.signed /\ from = DIGITS THEN (SignedDigit(z[from]) \div (2 ^ b)) % BASE
                       ELSE z[from] \div 2 ^ b
           HighOf(z) == CASE from = DIGITS -> 0
                          [] from < DIGITS /\ b # 0 -> (z[from + 1] * 2 ^ (BITS - b)) % BASE
                          [] OTHER -> IF s.kept THEN z[from + 1] ELSE 0
           d == FromOnes(Ones(LowOf(x)) \cup Ones(HighOf(x)))
           h == i + 1
           r == ShiftRight(s.kind, a, s.k, s.kept)
<1>1. s \in StepRecords /\ Setting(s) /\ s.at = "right" /\ WentRight(s) /\ from <= DIGITS /\ s.carry \in {0, 1}
  BY DEF StepsInv, ShiftRightStep, StepRecords, Advanced, ShiftDigits
<1>2. Writes(s, t, d, h, s.carry)
  <2>1. t = [s EXCEPT !.i = h, !.obj[s.to][s.i] = d]
    BY DEF ShiftRightStep, Object, ShiftDigits, ShiftBits
  <2> HIDE DEF s, t, d, h
  <2>2. t = [s EXCEPT !.obj[s.to][s.i] = d, !.i = h, !.carry = s.carry]
    BY <2>1, <1>1 DEF StepRecords
  <2> QED BY <2>2 DEF Writes
<1> HIDE DEF s, t
<1>3. a \in LongInts /\ s.k \in Nat \ {0} /\ s.call \in {">>=", ">>"} /\ s.kind \in Kinds /\ s.kept \in BOOLEAN
  <2>1. s.call \in {">>=", ">>"}
    BY <1>1 DEF WentRight
  <2> QED BY <2>1, <1>1 DEF StepRecords, Setting, Loops, WentRight
<1>4. n \in Nat /\ b \in Nat
  BY <1>3, ShiftParts
<1>5. i \in 1 .. DIGITS + 1 - n /\ n < DIGITS /\ DIGITS \in Nat
  BY <1>1, BaseIs DEF WentRight
<1> HIDE DEF n, b
<1>6. r \in LongInts
  BY <1>3, ShiftRightType
<1>7. x = Upto(r, a, i)
  BY <1>1 DEF WentRight
<1>8. i \in Places /\ from \in Places /\ (from # DIGITS => from + 1 \in Places) /\ ~ (from < i) /\ ~ (from + 1 < i)
      /\ h \in 1 .. DIGITS + 1 - n /\ i \in Int
  <2> HIDE DEF i
  <2> QED BY <1>1, <1>4, <1>5 DEF Places
<1>9. \A m \in Places : ~ (m < i) => x[m] = a[m]
  BY <1>7 DEF Upto
<1>10. x[from] = a[from] /\ (from # DIGITS => x[from + 1] = a[from + 1])
  <2> HIDE DEF from, x, i
  <2> QED BY <1>8, <1>9
<1>11. d = r[i]
  <2>1. r[i] = FromOnes(Ones(LowOf(a)) \cup Ones(HighOf(a)))
    <3> HIDE DEF i
    <3> QED BY <1>1, <1>3, <1>5, <1>8, ShiftedRightDigit DEF n, b
  <2>2. LowOf(x) = LowOf(a)
    <3> HIDE DEF from, x
    <3> QED BY <1>10
  <2>3. HighOf(x) = HighOf(a)
    <3>1. CASE from = DIGITS
      <4> HIDE DEF from, x
      <4>1. ~ (from < DIGITS)
        BY <3>1, <1>5
      <4> QED BY <3>1, <4>1
    <3>2. CASE from # DIGITS
      <4>1. x[from + 1] = a[from + 1]
        BY <3>2, <1>10
      <4> HIDE DEF from, x
      <4> QED BY <3>2, <4>1
    <3> QED BY <3>1, <3>2
  <2> HIDE DEF LowOf, HighOf
  <2> QED BY <2>1, <2>2, <2>3
<1> HIDE DEF d
<1>14. t \in StepRecords /\ SameCall(s, t) /\ Setting(t) /\ t.at = s.at /\ t.i = h /\ t.obj[t.to] = Upto(r, a, t.i)
  <2>1. s.i = i /\ h = i + 1
    OBVIOUS
  <2> HIDE DEF h, i, r, x
  <2> QED BY <2>1, <1>1, <1>2, <1>3, <1>6, <1>7, <1>8, <1>11, LoopStep DEF x
<1>15. t.kept = s.kept
  BY <1>2, <1>1 DEF Writes, StepRecords
<1>16. WentRight(t)
  <2> HIDE DEF h
  <2> QED BY <1>1, <1>5, <1>8, <1>14, <1>15 DEF WentRight, SameCall, r, n
<1> QED BY <1>1, <1>14, <1>16 DEF StepsInv, Advanced, t

LEMMA ShiftRightFillInv == StepsInv /\ ShiftRightFill => StepsInv'
<1> SUFFICES ASSUME StepsInv, ShiftRightFill PROVE StepsInv'
  OBVIOUS
<1> DEFINE s == steps
           t == steps'
           i == s.i
           n == s.k \div BITS
           x == s.obj[s.to]
           a == s.a
           r == ShiftRight(s.kind, a, s.k, s.kept)
           fill == IF is_negative(s.kind, x) THEN BASE - 1 ELSE 0
           y == [m \in Places |-> IF m > DIGITS - n THEN fill ELSE x[m]]
<1>1. s \in StepRecords /\ Setting(s) /\ s.at = "right" /\ WentRight(s) /\ i + n > DIGITS /\ s.i \in Int
      /\ s.answer \in Int
  BY DEF StepsInv, ShiftRightFill, StepRecords, Advanced, ShiftDigits
<1>2. Goes(s, t, "done", s.i, y, s.answer, s.kept)
  <2>1. t = [s EXCEPT !.at = "done", !.obj[s.to] = y]
    BY DEF ShiftRightFill, ShiftDigits, Object
  <2> HIDE DEF s, t, y
  <2> QED BY <2>1, <1>1 DEF Goes, StepRecords
<1> HIDE DEF s, t
<1>3. a \in LongInts /\ s.k \in Nat \ {0} /\ s.call \in {">>=", ">>"} /\ s.kind \in Kinds /\ s.kept \in BOOLEAN
  <2>1. s.call \in {">>=", ">>"}
    BY <1>1 DEF WentRight
  <2> QED BY <2>1, <1>1 DEF StepRecords, Setting, Loops, WentRight
<1>4. n \in Nat
  BY <1>3, ShiftParts
<1>5. i \in 1 .. DIGITS + 1 - n /\ n < DIGITS /\ DIGITS \in Nat
  BY <1>1, BaseIs DEF WentRight
<1>6. r \in LongInts
  BY <1>3, ShiftRightType
<1>7. x = Upto(r, a, i)
  BY <1>1 DEF WentRight
<1>8. \A m \in Places : m + n > DIGITS => r[m] = IF is_negative(s.kind, a) THEN BASE - 1 ELSE 0
  BY <1>3, <1>5, ShiftedRightDigit
<1> HIDE DEF n, r
<1>9. y = r
  <2> HIDE DEF i
  <2>1. ASSUME NEW m \in Places, m > DIGITS - n PROVE r[m] = fill
    <3>1. m + n > DIGITS /\ n > 0 /\ DIGITS \in Places /\ ~ (DIGITS < i)
      BY <2>1, <1>1, <1>4, <1>5 DEF Places
    <3>2. x[DIGITS] = a[DIGITS]
      BY <3>1, <1>7 DEF Upto
    <3>3. is_negative(s.kind, x) <=> is_negative(s.kind, a)
      BY <3>2 DEF is_negative
    <3> HIDE DEF x, a
    <3> QED BY <3>1, <3>3, <1>8
  <2>2. ASSUME NEW m \in Places, ~ (m > DIGITS - n) PROVE r[m] = x[m]
    <3>1. m < i
      BY <2>2, <1>1, <1>4, <1>5 DEF Places
    <3> QED BY <3>1, <1>7 DEF Upto
  <2> HIDE DEF x, fill
  <2> QED BY <2>1, <2>2, <1>6 DEF LongInts
<1> HIDE DEF y
<1>10. t \in StepRecords /\ SameCall(s, t) /\ Setting(t) /\ t.at = "done" /\ t.obj[t.to] = y /\ t.kept = s.kept
  BY <1>1, <1>2, <1>3, <1>6, <1>9, GoesIs DEF Stages
<1>11. Finished(t)
  BY <1>3, <1>9, <1>10 DEF Finished, SameCall, Loops, Leftwards, r
<1> QED BY <1>10, <1>11 DEF StepsInv, Advanced, t

----------------------------------------------------------------------------
(* The product *)

LEMMA TimesStepInv == StepsInv /\ TimesStep => StepsInv'
<1> SUFFICES ASSUME StepsInv, TimesStep PROVE StepsInv'
  OBVIOUS
<1> DEFINE s == steps
           t == steps'
           i == s.i
           j == s.j
           x == AbsoluteOf(s.kind, s.a)
           y == AbsoluteOf(s.kind, s.b)
           sum == Plus(s.sum, PairProduct(x, y, i, j))
           ni == IF j = DIGITS THEN i + 1 ELSE i
           nj == IF j = DIGITS THEN 1 ELSE j + 1
           before == Rows(x, y)[i - 1]
           row == Row(x, y, i, before)
<1>1. s \in StepRecords /\ Setting(s) /\ s.at = "mul" /\ SummedUp(s) /\ i \in Places /\ i \in Int /\ j \in Int
  BY DEF StepsInv, TimesStep, StepRecords, Advanced, InLoop
<1>2. s.call \in {"*=", "*"}
  BY <1>1, LoopCallsAre
<1>3. s.obj[s.by] = s.b
  BY <1>1, <1>2 DEF Setting, SummedUp, StepRecords, Binary, Copying
<1>4. s.obj[s.to] = s.a
  BY <1>1 DEF SummedUp
<1>5. t = [s EXCEPT !.sum = sum, !.i = ni, !.j = nj]
  <2>1. t = [s EXCEPT !.sum = Plus(s.sum, PairProduct(Absolute(s.to), Absolute(s.by), s.i, s.j)),
                      !.i = ni, !.j = nj]
    BY DEF TimesStep
  <2>2. Absolute(s.to) = x /\ Absolute(s.by) = y
    BY <1>3, <1>4 DEF Absolute, Object
  <2> HIDE DEF x, y, ni, nj, s, t
  <2> QED BY <2>1, <2>2
<1> HIDE DEF s, t
<1>6. s.a \in LongInts /\ s.b \in LongInts /\ DIGITS \in Nat /\ DIGITS >= 1
  BY <1>1, BaseIs DEF StepRecords
<1>7. x \in LongInts /\ y \in LongInts
  BY <1>6, AbsoluteSame
<1>8. j \in Places /\ s.sum = row[j - 1]
  BY <1>1 DEF SummedUp
<1> HIDE DEF x, y
<1>9. Rows(x, y) \in [0 .. DIGITS -> LongInts] /\ Rows(x, y)[i] = row[DIGITS]
  BY <1>1, <1>7, RowsAre
<1>10. before \in LongInts
  <2>1. i - 1 \in 0 .. DIGITS
    BY <1>1, <1>6 DEF Places
  <2> QED BY <2>1, <1>9
<1>11. row \in [0 .. DIGITS -> LongInts] /\ row[j] = sum
  <2>1. row \in [0 .. DIGITS -> LongInts] /\ row[j] = Plus(row[j - 1], PairProduct(x, y, i, j))
    <3> HIDE DEF i, j, before
    <3> QED BY <1>1, <1>7, <1>8, <1>10, RowIs
  <2> QED BY <2>1, <1>8
<1>12. sum \in LongInts
  <2>1. j \in 0 .. DIGITS
    BY <1>1, <1>6, <1>8 DEF Places
  <2> HIDE DEF sum, row, j
  <2> QED BY <2>1, <1>11
<1>13. ni \in 1 .. DIGITS + 1 /\ nj \in Places /\ ni \in Int /\ nj \in Int
  <2>1. i \in 1 .. DIGITS /\ j \in 1 .. DIGITS
    BY <1>1, <1>8 DEF Places
  <2> HIDE DEF i, j
  <2> QED BY <2>1, <1>6 DEF Places
<1>14. t \in StepRecords /\ SameCall(s, t) /\ t.at = "mul" /\ t.i = ni /\ t.j = nj /\ t.sum = sum /\ t.obj = s.obj
  <2> HIDE DEF ni, nj, sum
  <2> QED BY <1>1, <1>5, <1>12, <1>13 DEF StepRecords, SameCall
<1>15. Setting(t)
  BY <1>1, <1>14 DEF Setting, SameCall
<1>16. sum = IF ni \in Places THEN Row(x, y, ni, Rows(x, y)[ni - 1])[nj - 1] ELSE Rows(x, y)[DIGITS]
  <2>1. CASE j # DIGITS
    <3>1. ni = i /\ nj - 1 = j
      BY <2>1, <1>1
    <3> HIDE DEF ni, nj, sum
    <3> QED BY <3>1, <1>1, <1>11
  <2>2. CASE j = DIGITS
    <3>1. nj - 1 = 0 /\ ni - 1 = i /\ ni = i + 1
      BY <2>2, <1>1
    <3>2. sum = Rows(x, y)[i]
      BY <2>2, <1>9, <1>11
    <3>3. CASE ni \in Places
      <4>1. Rows(x, y)[i] \in LongInts
        BY <3>2, <1>12
      <4> DEFINE z == Rows(x, y)[i]
      <4>2. z \in LongInts /\ z = sum
        BY <4>1, <3>2
      <4> HIDE DEF z, ni, sum, nj
      <4>3. Row(x, y, ni, z)[0] = z
        BY <4>2, <3>3, <1>7, RowIs
      <4> QED BY <4>2, <4>3, <3>1, <3>3 DEF z
    <3>4. CASE ni \notin Places
      <4>1. i = DIGITS
        BY <3>1, <3>4, <1>1, <1>6 DEF Places
      <4> HIDE DEF ni, sum, i
      <4> QED BY <4>1, <3>2, <3>4
    <3> QED BY <3>3, <3>4
  <2> QED BY <2>1, <2>2
<1>17. SummedUp(t)
  <2> HIDE DEF ni, nj, sum
  <2> QED BY <1>4, <1>13, <1>14, <1>16 DEF SummedUp, SameCall, x, y
<1> QED BY <1>14, <1>15, <1>17 DEF StepsInv, Advanced, t

LEMMA TimesEndsInv == StepsInv /\ TimesEnds => StepsInv'
<1> SUFFICES ASSUME StepsInv, TimesEnds PROVE StepsInv'
  OBVIOUS
<1> DEFINE s == steps
           t == steps'
           turned == is_negative(s.kind, s.a) # is_negative(s.kind, s.b)
           y == IF turned THEN Negate(s.sum) ELSE s.sum
<1>1. s \in StepRecords /\ Setting(s) /\ s.at = "mul" /\ SummedUp(s) /\ s.i > DIGITS /\ s.i \in Int
      /\ s.answer \in Int /\ s.kept \in BOOLEAN /\ s.a \in LongInts /\ s.b \in LongInts
  BY DEF StepsInv, TimesEnds, StepRecords, Advanced
<1>2. s.call \in {"*=", "*"}
  BY <1>1, LoopCallsAre
<1>3. s.obj[s.by] = s.b
  BY <1>1, <1>2 DEF Setting, SummedUp, StepRecords, Binary, Copying
<1>4. s.obj[s.to] = s.a
  BY <1>1 DEF SummedUp
<1>5. Goes(s, t, "done", s.i, y, s.answer, s.kept)
  <2>1. t = [s EXCEPT !.at = "done", !.obj[s.to] = y]
    BY <1>3, <1>4 DEF TimesEnds, Object
  <2> HIDE DEF s, t, y
  <2> QED BY <2>1, <1>1 DEF Goes, StepRecords
<1> HIDE DEF s, t
<1>6. s.sum = Rows(AbsoluteOf(s.kind, s.a), AbsoluteOf(s.kind, s.b))[DIGITS]
  <2>1. s.i \notin Places
    BY <1>1, BaseIs DEF Places
  <2> QED BY <2>1, <1>1 DEF SummedUp
<1>7. y = Times(s.kind, s.a, s.b)
  BY <1>6 DEF Times
<1>8. y \in LongInts
  BY <1>7, <1>1, TimesSame
<1> HIDE DEF y
<1>9. t \in StepRecords /\ SameCall(s, t) /\ Setting(t) /\ t.at = "done" /\ t.obj[t.to] = y
  BY <1>1, <1>5, <1>8, GoesIs DEF Stages
<1>10. Finished(t)
  BY <1>2, <1>7, <1>9 DEF Finished, SameCall, Loops, Leftwards
<1> QED BY <1>9, <1>10 DEF StepsInv, Advanced, t

----------------------------------------------------------------------------
(* The comparisons and the conversion *)

Asking == {"<", "<=", ">", ">=", "==", "!=", "is_zero", "countl_zero", "uint"}

GoesOn(s, t, at, i, answer) ==
    /\ t = [s EXCEPT !.at = at, !.i = i, !.answer = answer]
    /\ s.at \in {"less", "equal", "zero", "count", "uint"}
    /\ at \in {"equal", "done"} \/ at = s.at
    /\ at \in Stages /\ i \in Int /\ answer \in Int
Asks(s) == s \in StepRecords /\ Setting(s) /\ s.call \in Asking /\ s.obj["this"] = s.a

LEMMA AskedOf ==
  ASSUME NEW s \in StepRecords, Setting(s), s.call \in Asking, s.obj["this"] = s.a
  PROVE  /\ s.to = "this"
         /\ s.call \in {"<", "<=", ">", ">=", "==", "!="} => s.obj[s.by] = s.b
<1>1. s.by \in {"this", "other", "one"}
  BY DEF StepRecords
<1> QED BY <1>1 DEF Setting, Asking, Copying, Binary

\* A comparison goes on, or answers; the number stays.
LEMMA AskingGoes ==
  ASSUME NEW s, NEW t, NEW at, NEW i, NEW answer, Asks(s), GoesOn(s, t, at, i, answer)
  PROVE  /\ t \in StepRecords /\ SameCall(s, t) /\ Setting(t) /\ t.at = at /\ t.i = i /\ t.answer = answer
         /\ t.obj[t.to] = s.a /\ t.obj["this"] = s.a
<1> DEFINE y == s.a
<1> USE DEF Asks
<1>1. s.to = "this"
  BY AskedOf
<1>2. y \in LongInts /\ s.kept \in BOOLEAN /\ s.obj[s.to] = y
  BY <1>1 DEF StepRecords
<1>4. Goes(s, t, at, i, y, answer, s.kept)
  <2> DEFINE z == s.obj[s.to]
  <2>1. Goes(s, t, at, i, z, answer, s.kept)
    BY DEF Goes, GoesOn, StepRecords
  <2> QED BY <2>1, <1>2
<1>5. at \notin {"left", "right", "equal", "done"} => at = LoopOf(s.call) \/ (at = "add" /\ s.call = "neg")
  BY DEF Setting, GoesOn
<1> HIDE DEF y
<1>6. t \in StepRecords /\ SameCall(s, t) /\ Setting(t) /\ t.at = at /\ t.i = i /\ t.answer = answer /\ t.obj[t.to] = y
  BY <1>2, <1>4, <1>5, GoesIs DEF GoesOn
<1> QED BY <1>1, <1>6 DEF SameCall, y

\* What is left to say of an answer.
LEMMA AnswersFinish ==
  ASSUME NEW s \in StepRecords, s.call \in Asking, s.obj[s.to] = s.a,
         LET yes == s.answer = 1  less == Less(s.kind, s.a, s.b)
         IN  CASE s.call = "<"  -> yes <=> less
               [] s.call = ">=" -> yes <=> ~ less
               [] s.call = "<=" -> yes <=> less \/ s.a = s.b
               [] s.call = ">"  -> yes <=> ~ less /\ s.a # s.b
               [] s.call = "==" -> yes <=> s.a = s.b
               [] s.call = "!=" -> yes <=> s.a # s.b
               [] s.call = "is_zero" -> yes <=> \A n \in Places : s.a[n] = 0
               [] s.call = "countl_zero" -> s.answer = countl_zero(s.a)
               [] s.call = "uint" -> s.answer = ULong(s.kind, s.a, s.k)
  PROVE  Finished(s)
BY DEF Finished, Asking, Loops, Leftwards

LEMMA EqualStepInv == StepsInv /\ EqualStep => StepsInv'
<1> SUFFICES ASSUME StepsInv, EqualStep PROVE StepsInv'
  OBVIOUS
<1> DEFINE s == steps
           t == steps'
           i == s.i
           h == i + 1
           yes == s.call \in {"==", "<="}
           same == i > DIGITS
           answer == IF same THEN Truth(yes) ELSE Truth(~ yes)
<1>1. s \in StepRecords /\ Setting(s) /\ s.at = "equal" /\ SameBelow(s)
  BY DEF StepsInv, EqualStep, StepRecords, Advanced
<1>2. s.call \in {"<=", ">", "==", "!="} /\ s.obj["this"] = s.a
  BY <1>1 DEF SameBelow, Loops
<1>3. s.call \in Asking
  BY <1>2 DEF Asking
<1>4. s.obj[s.by] = s.b
  BY <1>1, <1>2, <1>3, AskedOf
<1>5. t = IF same THEN [s EXCEPT !.at = "done", !.answer = Truth(yes)]
          ELSE IF s.a[i] # s.b[i] THEN [s EXCEPT !.at = "done", !.answer = Truth(~ yes)]
          ELSE [s EXCEPT !.i = h]
  BY <1>2, <1>4 DEF EqualStep, Answer, Object
<1> HIDE DEF s, t
<1>6. i \in Int /\ i \in 1 .. DIGITS + 1 /\ s.answer \in Int /\ s.a \in LongInts /\ s.b \in LongInts /\ DIGITS \in Nat
  BY <1>1, BaseIs DEF StepRecords, SameBelow
<1>7. \A n \in Places : n < i => s.a[n] = s.b[n]
  BY <1>1 DEF SameBelow
<1>8. CASE same \/ s.a[i] # s.b[i]
  <2>1. s.a = s.b <=> same
    <3>1. same => \A n \in Places : s.a[n] = s.b[n]
      BY <1>6, <1>7 DEF Places
    <3>2. ~ same => i \in Places
      BY <1>6 DEF Places
    <3>3. s.a = s.b <=> \A n \in Places : s.a[n] = s.b[n]
      BY <1>6, LessAt
    <3> QED BY <3>1, <3>2, <3>3, <1>8
  <2>2. answer \in Int /\ (answer = 1 <=> (yes <=> same))
    BY DEF Truth
  <2>3. t = [s EXCEPT !.at = "done", !.i = i, !.answer = answer]
    BY <1>1, <1>5, <1>8 DEF StepRecords
  <2> DEFINE at == "done"
  <2>4. at \in Stages
    BY DEF Stages
  <2> HIDE DEF answer, same
  <2>5. t \in StepRecords /\ SameCall(s, t) /\ Setting(t) /\ t.at = "done" /\ t.answer = answer /\ t.obj[t.to] = s.a
    <3>1. GoesOn(s, t, at, i, answer)
      BY <2>2, <2>3, <2>4, <1>1, <1>6 DEF GoesOn
    <3> HIDE DEF at
    <3>2. t \in StepRecords /\ SameCall(s, t) /\ Setting(t) /\ t.at = at /\ t.answer = answer /\ t.obj[t.to] = s.a
      BY <3>1, <2>2, <2>4, <1>1, <1>2, <1>3, <1>6, AskingGoes DEF Asks
    <3> QED BY <3>2 DEF at
  <2>6. s.call \in {"<=", ">"} => ~ Less(s.kind, s.a, s.b)
    BY <1>1 DEF SameBelow
  <2>7. Finished(t)
    BY <1>2, <1>3, <2>1, <2>2, <2>5, <2>6, AnswersFinish DEF SameCall
  <2> QED BY <2>5, <2>7 DEF StepsInv, Advanced, t
<1>9. CASE ~ same /\ s.a[i] = s.b[i]
  <2>1. t = [s EXCEPT !.at = "equal", !.i = h, !.answer = s.answer]
    BY <1>1, <1>5, <1>9 DEF StepRecords
  <2>2. h \in Int /\ h \in 1 .. DIGITS + 1 /\ \A n \in Places : n < h => n < i \/ n = i
    BY <1>6, <1>9 DEF Places
  <2> DEFINE at == "equal"
  <2>4. at \in Stages
    BY DEF Stages
  <2> HIDE DEF h
  <2>5. t \in StepRecords /\ SameCall(s, t) /\ Setting(t) /\ t.at = "equal" /\ t.i = h /\ t.obj["this"] = s.a
    <3>1. GoesOn(s, t, at, h, s.answer)
      BY <2>1, <2>2, <2>4, <1>1, <1>6 DEF GoesOn
    <3> HIDE DEF at
    <3>2. t \in StepRecords /\ SameCall(s, t) /\ Setting(t) /\ t.at = at /\ t.i = h /\ t.obj["this"] = s.a
      BY <3>1, <2>2, <2>4, <1>1, <1>2, <1>3, <1>6, AskingGoes DEF Asks
    <3> QED BY <3>2 DEF at
  <2>6. SameBelow(t)
    BY <2>2, <2>5, <1>1, <1>7, <1>9 DEF SameBelow, SameCall
  <2> QED BY <2>5, <2>6 DEF StepsInv, Advanced, t
<1> QED BY <1>8, <1>9

LEMMA ZeroStepInv == StepsInv /\ ZeroStep => StepsInv'
<1> SUFFICES ASSUME StepsInv, ZeroStep PROVE StepsInv'
  OBVIOUS
<1> DEFINE s == steps
           t == steps'
           i == s.i
           h == i + 1
<1>1. s \in StepRecords /\ Setting(s) /\ s.at = "zero" /\ ZeroBelow(s)
  BY DEF StepsInv, ZeroStep, StepRecords, Advanced
<1>2. s.call = "is_zero" /\ s.obj["this"] = s.a
  BY <1>1, LoopCallsAre DEF ZeroBelow
<1>3. s.call \in Asking /\ s.answer \in Int /\ s.at \in Stages
  BY <1>1, <1>2 DEF Asking, StepRecords
<1>4. t = IF i > DIGITS THEN [s EXCEPT !.at = "done", !.answer = 1]
          ELSE IF s.a[i] # 0 THEN [s EXCEPT !.at = "done", !.answer = 0]
          ELSE [s EXCEPT !.i = h]
  BY <1>2 DEF ZeroStep, Answer, Object
<1> HIDE DEF s, t
<1>10. Asks(s)
  BY <1>1, <1>2, <1>3 DEF Asks
<1>5. i \in Int /\ i \in 1 .. DIGITS + 1 /\ s.a \in LongInts /\ DIGITS \in Nat
  BY <1>1, BaseIs DEF StepRecords, ZeroBelow
<1>6. \A n \in Places : n < i => s.a[n] = 0
  BY <1>1 DEF ZeroBelow
<1>7. CASE i > DIGITS
  <2>1. GoesOn(s, t, "done", i, 1)
    <3>1. t = [s EXCEPT !.at = "done", !.i = i, !.answer = 1]
      BY <1>1, <1>4, <1>7 DEF StepRecords
    <3>2. "done" \in Stages /\ i \in Int /\ 1 \in Int
      BY <1>5 DEF Stages
    <3> HIDE DEF i
    <3> QED BY <3>1, <3>2, <1>1 DEF GoesOn
  <2>2. t \in StepRecords /\ SameCall(s, t) /\ Setting(t) /\ t.at = "done" /\ t.answer = 1 /\ t.obj[t.to] = s.a
    BY <2>1, <1>10, AskingGoes
  <2>3. \A n \in Places : s.a[n] = 0
    BY <1>5, <1>6, <1>7 DEF Places
  <2>4. Finished(t)
    BY <1>2, <1>3, <2>2, <2>3, AnswersFinish DEF SameCall
  <2> QED BY <2>2, <2>4 DEF StepsInv, Advanced, t
<1>8. CASE ~ (i > DIGITS) /\ s.a[i] # 0
  <2>1. GoesOn(s, t, "done", i, 0)
    <3>1. t = [s EXCEPT !.at = "done", !.i = i, !.answer = 0]
      BY <1>1, <1>4, <1>8 DEF StepRecords
    <3>2. "done" \in Stages /\ i \in Int /\ 0 \in Int
      BY <1>5 DEF Stages
    <3> HIDE DEF i
    <3> QED BY <3>1, <3>2, <1>1 DEF GoesOn
  <2>2. t \in StepRecords /\ SameCall(s, t) /\ Setting(t) /\ t.at = "done" /\ t.answer = 0 /\ t.obj[t.to] = s.a
    BY <2>1, <1>10, AskingGoes
  <2>3. ~ \A n \in Places : t.a[n] = 0
    BY <1>5, <1>8, <2>2 DEF Places, SameCall
  <2>5. t.call = "is_zero" /\ t.call \in Asking /\ t.obj[t.to] = t.a /\ t.answer # 1
    BY <1>2, <1>3, <2>2 DEF SameCall
  <2>4. Finished(t)
    BY <2>2, <2>3, <2>5, AnswersFinish
  <2> QED BY <2>2, <2>4 DEF StepsInv, Advanced, t
<1>9. CASE ~ (i > DIGITS) /\ s.a[i] = 0
  <2>1. GoesOn(s, t, s.at, h, s.answer)
    <3>1. h \in Int
      BY <1>5
    <3> HIDE DEF h
    <3> QED BY <3>1, <1>1, <1>3, <1>4, <1>5, <1>9 DEF GoesOn, StepRecords
  <2>2. h \in Int /\ h \in 1 .. DIGITS + 1 /\ \A n \in Places : n < h => n < i \/ n = i
    BY <1>5, <1>9 DEF Places
  <2> HIDE DEF h
  <2>3. t \in StepRecords /\ SameCall(s, t) /\ Setting(t) /\ t.at = s.at /\ t.i = h /\ t.obj["this"] = s.a
    BY <2>1, <2>2, <1>10, AskingGoes
  <2>4. ZeroBelow(t)
    BY <2>2, <2>3, <1>6, <1>9 DEF ZeroBelow, SameCall
  <2> QED BY <2>3, <2>4, <1>1 DEF StepsInv, Advanced, t
<1> QED BY <1>7, <1>8, <1>9

LEMMA CountStepInv == StepsInv /\ CountStep => StepsInv'
<1> SUFFICES ASSUME StepsInv, CountStep PROVE StepsInv'
  OBVIOUS
<1> DEFINE s == steps
           t == steps'
           i == s.i
           h == i - 1
           all == DIGITS * BITS
           some == (DIGITS - i) * BITS + BITS - 1 - Max(Ones(s.a[i]))
<1>1. s \in StepRecords /\ Setting(s) /\ s.at = "count" /\ ZeroAbove(s)
  BY DEF StepsInv, CountStep, StepRecords, Advanced
<1>2. s.call = "countl_zero" /\ s.obj["this"] = s.a
  BY <1>1, LoopCallsAre DEF ZeroAbove
<1>3. s.call \in Asking /\ s.answer \in Int /\ s.at \in Stages
  BY <1>1, <1>2 DEF Asking, StepRecords
<1>4. t = IF i = 0 THEN [s EXCEPT !.at = "done", !.answer = all]
          ELSE IF s.a[i] # 0 THEN [s EXCEPT !.at = "done", !.answer = some]
          ELSE [s EXCEPT !.i = h]
  BY <1>2 DEF CountStep, Answer, Object
<1> HIDE DEF s, t, all, some
<1>10. Asks(s)
  BY <1>1, <1>2, <1>3 DEF Asks
<1>5. i \in Int /\ i \in 0 .. DIGITS /\ s.a \in LongInts /\ DIGITS \in Nat /\ BITS \in Nat
  BY <1>1, BaseIs DEF StepRecords, ZeroAbove
<1>6. \A n \in Places : n > i => s.a[n] = 0
  BY <1>1 DEF ZeroAbove
<1>7. CASE i = 0
  <2>2. \A n \in Places : s.a[n] = 0
    BY <1>5, <1>6, <1>7 DEF Places
  <2>3. all = countl_zero(s.a) /\ all \in Int
    BY <2>2, <1>5, CountAt DEF all
  <2>1. GoesOn(s, t, "done", i, all)
    BY <2>3, <1>1, <1>4, <1>5, <1>7 DEF GoesOn, StepRecords, Stages
  <2>4. t \in StepRecords /\ SameCall(s, t) /\ Setting(t) /\ t.at = "done" /\ t.answer = all /\ t.obj[t.to] = s.a
    BY <2>1, <2>3, <1>10, AskingGoes
  <2>5. Finished(t)
    BY <1>2, <1>3, <2>3, <2>4, AnswersFinish DEF SameCall
  <2> QED BY <2>4, <2>5 DEF StepsInv, Advanced, t
<1>8. CASE i # 0 /\ s.a[i] # 0
  <2>2. i \in Places /\ s.a[i] \in 1 .. BASE - 1
    <3>1. i \in Places
      BY <1>5, <1>8 DEF Places
    <3>2. s.a[i] \in 0 .. BASE - 1 /\ BASE \in Nat
      BY <3>1, <1>5, BaseIs DEF LongInts
    <3> QED BY <3>1, <3>2, <1>8
  <2>3. some = countl_zero(s.a)
    BY <2>2, <1>5, <1>6, <1>8, CountAt DEF some
  <2>4. some \in Int
    <3> DEFINE m == Max(Ones(s.a[i]))
    <3>1. m \in 0 .. BITS - 1
      BY <2>2, HighestBit
    <3> HIDE DEF m
    <3>2. some = (DIGITS - i) * BITS + BITS - 1 - m
      BY DEF some, m
    <3> QED BY <3>1, <3>2, <1>5
  <2>1. GoesOn(s, t, "done", i, some)
    BY <2>4, <1>1, <1>4, <1>5, <1>8 DEF GoesOn, StepRecords, Stages
  <2>5. t \in StepRecords /\ SameCall(s, t) /\ Setting(t) /\ t.at = "done" /\ t.answer = some /\ t.obj[t.to] = s.a
    BY <2>1, <2>4, <1>10, AskingGoes
  <2>6. Finished(t)
    BY <1>2, <1>3, <2>3, <2>5, AnswersFinish DEF SameCall
  <2> QED BY <2>5, <2>6 DEF StepsInv, Advanced, t
<1>9. CASE i # 0 /\ s.a[i] = 0
  <2>1. GoesOn(s, t, s.at, h, s.answer)
    <3>1. h \in Int
      BY <1>5
    <3> HIDE DEF h
    <3> QED BY <3>1, <1>1, <1>3, <1>4, <1>5, <1>9 DEF GoesOn, StepRecords
  <2>2. h \in Int /\ h \in 0 .. DIGITS /\ \A n \in Places : n > h => n > i \/ n = i
    BY <1>5, <1>9 DEF Places
  <2> HIDE DEF h
  <2>3. t \in StepRecords /\ SameCall(s, t) /\ Setting(t) /\ t.at = s.at /\ t.i = h /\ t.obj["this"] = s.a
    BY <2>1, <2>2, <1>10, AskingGoes
  <2>4. ZeroAbove(t)
    BY <2>2, <2>3, <1>6, <1>9 DEF ZeroAbove, SameCall
  <2> QED BY <2>3, <2>4, <1>1 DEF StepsInv, Advanced, t
<1> QED BY <1>7, <1>8, <1>9

LEMMA ToUnsignedInv == StepsInv /\ ToUnsigned => StepsInv'
<1> SUFFICES ASSUME StepsInv, ToUnsigned PROVE StepsInv'
  OBVIOUS
<1> DEFINE s == steps
           t == steps'
           answer == ULong(s.kind, s.a, s.k)
<1>1. s \in StepRecords /\ Setting(s) /\ s.at = "uint" /\ s.obj["this"] = s.a
  BY DEF StepsInv, ToUnsigned, StepRecords, Advanced
<1>2. s.call = "uint"
  BY <1>1, LoopCallsAre
<1>3. s.call \in Asking /\ s.answer \in Int /\ s.at \in Stages
  BY <1>1, <1>2 DEF Asking, StepRecords
<1>4. t = [s EXCEPT !.at = "done", !.answer = answer]
  BY <1>1 DEF ToUnsigned, Answer, Object
<1> HIDE DEF s, t
<1>10. Asks(s)
  BY <1>1, <1>3 DEF Asks
<1>5. s.a \in LongInts /\ s.k \in Nat
  BY <1>1, <1>2 DEF StepRecords, Setting, Loops
<1>6. answer \in Int
  BY <1>5, ULongIs, ExtendedIs
<1>7. GoesOn(s, t, "done", s.i, answer)
  <2> HIDE DEF answer
  <2> QED BY <1>1, <1>4, <1>6 DEF GoesOn, StepRecords, Stages
<1> HIDE DEF answer
<1>8. t \in StepRecords /\ SameCall(s, t) /\ Setting(t) /\ t.at = "done" /\ t.answer = answer /\ t.obj[t.to] = s.a
  BY <1>6, <1>7, <1>10, AskingGoes
<1>9. Finished(t)
  BY <1>2, <1>3, <1>8, AnswersFinish DEF SameCall, answer
<1> QED BY <1>8, <1>9 DEF StepsInv, Advanced, t

LEMMA LessStepInv == StepsInv /\ LessStep => StepsInv'
<1> SUFFICES ASSUME StepsInv, LessStep PROVE StepsInv'
  OBVIOUS
<1> DEFINE s == steps
           t == steps'
           i == s.i
           h == i - 1
           negative == is_negative(s.kind, s.a)
           other == is_negative(s.kind, s.b)
           less == Less(s.kind, s.a, s.b)
           Result(l) == CASE s.call = "<"  -> [s EXCEPT !.at = "done", !.answer = Truth(l)]
                          [] s.call = ">=" -> [s EXCEPT !.at = "done", !.answer = Truth(~ l)]
                          [] s.call \in {"<=", ">"} ->
                                IF l THEN [s EXCEPT !.at = "done", !.answer = Truth(s.call = "<=")]
                                ELSE [s EXCEPT !.at = "equal", !.i = 1]
<1>1. s \in StepRecords /\ Setting(s) /\ s.at = "less" /\ SameAbove(s)
  BY DEF StepsInv, LessStep, StepRecords, Advanced
<1>2. s.call \in {"<", "<=", ">", ">="} /\ s.obj["this"] = s.a
  BY <1>1, LoopCallsAre DEF SameAbove
<1>3. s.call \in Asking /\ s.answer \in Int /\ s.at \in Stages
  BY <1>1, <1>2 DEF Asking, StepRecords
<1>4. s.obj[s.by] = s.b
  BY <1>1, <1>2, <1>3, AskedOf
<1>5. t = IF negative # other THEN Result(negative)
          ELSE IF i = 0 THEN Result(FALSE)
          ELSE IF s.a[i] # s.b[i] THEN Result(s.a[i] < s.b[i])
          ELSE [s EXCEPT !.i = h]
  BY <1>2, <1>4 DEF LessStep, LessIs, Answer, Object
<1> HIDE DEF s, t
<1>15. Asks(s)
  BY <1>1, <1>2, <1>3 DEF Asks
<1>6. i \in Int /\ i \in 0 .. DIGITS /\ s.answer \in Int /\ s.a \in LongInts /\ s.b \in LongInts /\ DIGITS \in Nat
  BY <1>1, BaseIs DEF StepRecords, SameAbove
<1>7. \A n \in Places : n > i => s.a[n] = s.b[n]
  BY <1>1 DEF SameAbove
<1>8. s.a = s.b <=> \A n \in Places : s.a[n] = s.b[n]
  BY <1>6, LessAt
<1>9. less => s.a # s.b
  <2>1. negative = other /\ (\A n \in Places : s.a[n] = s.b[n]) => ~ less
    BY <1>6, LessAt
  <2> QED BY <2>1, <1>8
<1>10. ASSUME NEW l \in BOOLEAN, l <=> less, t = Result(l) PROVE StepsInv'
  <2>1. CASE s.call \in {"<", ">="} \/ (s.call \in {"<=", ">"} /\ l)
    <3> DEFINE answer == CASE s.call = "<" -> Truth(l) [] s.call = ">=" -> Truth(~ l)
                           [] OTHER -> Truth(s.call = "<=")
    <3>1. t = [s EXCEPT !.at = "done", !.answer = answer]
      BY <2>1, <1>10
    <3>2. answer \in Int
      BY DEF Truth
    <3>3. /\ s.call = "<"  => (answer = 1 <=> less)
          /\ s.call = ">=" => (answer = 1 <=> ~ less)
          /\ s.call = "<=" => (answer = 1 <=> less \/ s.a = s.b)
          /\ s.call = ">"  => (answer = 1 <=> ~ less /\ s.a # s.b)
      <4>1. CASE s.call = "<"
        BY <4>1, <1>10 DEF Truth
      <4>2. CASE s.call = ">="
        BY <4>2, <1>10 DEF Truth
      <4>3. CASE s.call = "<="
        BY <4>3, <2>1, <1>10 DEF Truth
      <4>4. CASE s.call = ">"
        BY <4>4, <2>1, <1>10 DEF Truth
      <4> QED BY <4>1, <4>2, <4>3, <4>4, <1>2
    <3> HIDE DEF answer, less
    <3>4. GoesOn(s, t, "done", s.i, answer)
      BY <3>1, <3>2, <1>1 DEF GoesOn, StepRecords, Stages
    <3>5. t \in StepRecords /\ SameCall(s, t) /\ Setting(t) /\ t.at = "done" /\ t.answer = answer /\ t.obj[t.to] = s.a
      BY <3>4, <1>15, AskingGoes
    <3>6. Finished(t)
      BY <1>2, <1>3, <3>3, <3>5, AnswersFinish DEF SameCall, less
    <3> QED BY <3>5, <3>6 DEF StepsInv, Advanced, t
  <2>2. CASE s.call \in {"<=", ">"} /\ ~ l
    <3> DEFINE at == "equal"
               one == 1
    <3>1. t = [s EXCEPT !.at = at, !.i = one]
      BY <2>2, <1>10
    <3>2. at \in Stages /\ at \in {"equal", "done"} /\ one \in Int
      BY DEF Stages
    <3>3. GoesOn(s, t, at, one, s.answer)
      BY <3>1, <3>2, <1>1 DEF GoesOn, StepRecords
    <3> HIDE DEF at, one
    <3>4. t \in StepRecords /\ SameCall(s, t) /\ Setting(t) /\ t.at = at /\ t.i = one /\ t.obj["this"] = s.a
      BY <3>3, <1>15, AskingGoes
    <3>5. SameBelow(t)
      <4>1. one \in 1 .. DIGITS + 1 /\ \A n \in Places : ~ (n < one)
        BY <1>6 DEF Places, one
      <4> QED BY <4>1, <3>4, <2>2, <1>10 DEF SameBelow, SameCall
    <3> QED BY <3>4, <3>5 DEF StepsInv, Advanced, t, at
  <2> QED BY <2>1, <2>2, <1>2
<1>11. CASE negative # other
  <2>1. less <=> negative
    BY <1>6, <1>11, LessAt
  <2>2. negative \in BOOLEAN
    BY <1>1 DEF is_negative, StepRecords, Kinds
  <2>3. t = Result(negative)
    BY <1>5, <1>11
  <2> HIDE DEF negative, less, Result
  <2> QED BY <2>1, <2>2, <2>3, <1>10
<1>12. CASE negative = other /\ i = 0
  <2>1. \A n \in Places : s.a[n] = s.b[n]
    BY <1>6, <1>7, <1>12 DEF Places
  <2>2. ~ less
    BY <2>1, <1>6, <1>12, LessAt
  <2>3. t = Result(FALSE)
    BY <1>5, <1>12
  <2> HIDE DEF less, Result
  <2> QED BY <2>2, <2>3, <1>10
<1>13. CASE negative = other /\ i # 0 /\ s.a[i] # s.b[i]
  <2>1. i \in Places
    BY <1>6, <1>13 DEF Places
  <2> DEFINE l == s.a[i] < s.b[i]
  <2>2. less <=> l
    BY <2>1, <1>6, <1>7, <1>13, LessAt
  <2>3. t = Result(l)
    BY <1>5, <1>13
  <2>4. l \in BOOLEAN
    OBVIOUS
  <2> HIDE DEF less, Result, l
  <2> QED BY <2>2, <2>3, <2>4, <1>10
<1>14. CASE negative = other /\ i # 0 /\ s.a[i] = s.b[i]
  <2>1. GoesOn(s, t, s.at, h, s.answer)
    <3>1. h \in Int
      BY <1>6
    <3> HIDE DEF h
    <3> QED BY <3>1, <1>1, <1>3, <1>5, <1>6, <1>14 DEF GoesOn, StepRecords
  <2>2. h \in Int /\ h \in 0 .. DIGITS /\ \A n \in Places : n > h => n > i \/ n = i
    BY <1>6, <1>14 DEF Places
  <2> HIDE DEF h
  <2>3. t \in StepRecords /\ SameCall(s, t) /\ Setting(t) /\ t.at = s.at /\ t.i = h /\ t.obj["this"] = s.a
    BY <2>1, <1>15, AskingGoes
  <2>4. SameAbove(t)
    BY <2>2, <2>3, <1>7, <1>14 DEF SameAbove, SameCall
  <2> QED BY <2>3, <2>4, <1>1 DEF StepsInv, Advanced, t
<1> QED BY <1>11, <1>12, <1>13, <1>14

----------------------------------------------------------------------------
(* The call *)

StepsSpec == StepsInit /\ [][StepsNext]_steps

\* A call that has been made, with its operands.
LEMMA CallIsMade ==
  ASSUME NEW call \in Calls, NEW kind \in Kinds, NEW a \in LongInts, NEW b \in LongInts,
         NEW by \in {"this", "other", "one"}, NEW k \in Int, StepCall(call, kind, a, b, by, k),
         by = "this" => b = a, call \in {"++", "--", "_++", "_--", "neg"} => by = "one",
         call \in Binary => by # "one", call \in Loops.shift \cup Loops.uint => k \in Nat,
         call = "=" => k \in Others
  PROVE  StepsInv
<1> DEFINE s == steps
           to == IF call \in Copying \cup {"~", "neg"} THEN "new" ELSE "this"
           new == IF call \in Copying \cup Postfix THEN a ELSE ZERO
           obj == [this |-> a, other |-> b, one |-> ONE, new |-> new]
           at == LoopOf(call)
           i == IF call \in Downwards THEN DIGITS ELSE 1
           m == -1
<1>1. s = [call |-> call, kind |-> kind, a |-> a, b |-> b, k |-> k, by |-> by, to |-> to, obj |-> obj,
           sum |-> ZERO, kept |-> FALSE, at |-> at, i |-> i, j |-> 1, carry |-> 0, answer |-> m]
  BY DEF StepCall
<1> HIDE DEF s
<1>2. ZERO \in LongInts /\ ONE \in LongInts /\ DIGITS \in Nat /\ DIGITS >= 1
  BY SmallNumbers, BaseIs
<1>3. new \in LongInts
  BY <1>2
<1> HIDE DEF new
<1>4. obj \in [Names -> LongInts] /\ obj["this"] = a /\ obj["other"] = b /\ obj["one"] = ONE /\ obj["new"] = new
  BY <1>2, <1>3, ObjectsAre
<1> HIDE DEF obj
<1>5. to \in {"this", "new"} /\ i \in Int /\ m \in Int
  BY <1>2
<1>6. /\ call \in {"+=", "++", "+", "_++"} => at = "add"
      /\ call \in {"-=", "--", "-", "_--"} => at = "sub"
      /\ call \in {"&=", "|=", "^=", "&", "|"} => at = "bit"
      /\ call \in {"~", "neg"} => at = "not"
      /\ call \in {"<<=", ">>=", "<<", ">>"} => at = "shift"
      /\ call \in {"*=", "*"} => at = "mul"
      /\ call = "=" => at = "assign"
      /\ call \in {"<", "<=", ">", ">="} => at = "less"
      /\ call \in {"==", "!="} => at = "equal"
      /\ call = "is_zero" => at = "zero"
      /\ call = "countl_zero" => at = "count"
      /\ call = "uint" => at = "uint"
  <2>1. \A l \in DOMAIN Loops : call \in Loops[l] => LoopOf(call) = l
    BY LoopIs
  <2> HIDE DEF at
  <2>2. \A l \in DOMAIN Loops : call \in Loops[l] => at = l
    BY <2>1 DEF at
  <2> QED BY <2>2, LoopCalls
<1>7. at \in Stages
  <2> HIDE DEF at
  <2> QED BY <1>6 DEF Calls, Stages
<1>8. s.call = call /\ s.kind = kind /\ s.a = a /\ s.b = b /\ s.k = k /\ s.by = by /\ s.to = to /\ s.obj = obj
      /\ s.sum = ZERO /\ s.kept = FALSE /\ s.at = at /\ s.i = i /\ s.j = 1 /\ s.carry = 0 /\ s.answer = m
  <2> HIDE DEF to, at, i, m
  <2> QED BY <1>1
<1>9. s \in StepRecords
  <2> HIDE DEF to, at, i, m
  <2> QED BY <1>1, <1>2, <1>4, <1>5, <1>7 DEF StepRecords
<1>10. Setting(s)
  <2>1. to = "new" => obj["this"] = a
    BY <1>4
  <2>2. call \in Postfix => obj["new"] = a
    BY <1>4 DEF new
  <2>3. at \notin {"left", "right", "equal", "done"} => at = LoopOf(call)
    OBVIOUS
  <2> HIDE DEF at
  <2> QED BY <2>1, <2>2, <2>3, <1>4, <1>8 DEF Setting
<1>11. s.obj[s.to] = IF to = "new" /\ call \notin Copying THEN ZERO ELSE a
  BY <1>4, <1>8 DEF new, Postfix, Copying
<1>12. Left(s) \in LongInts /\ Right(s) \in LongInts
  BY <1>2, <1>8, ComplementIs DEF Left, Right
<1> DEFINE L == Left(s)
           R == Right(s)
<1>13. Plus(L, R) \in LongInts /\ Minus(a, R) \in LongInts /\ Carries(L, R)[0] = 0 /\ Borrows(a, R)[0] = 0
  BY <1>12, PlusIs, MinusIs, CarriesAre, BorrowsAre
<1>14. \A r, x \in LongInts : \A n \in Int : n = 1 => Upto(r, x, n) = x
  BY UptoEnds
<1> HIDE DEF L, R, at, m
<1>15. ASSUME at \in {"add", "sub", "bit", "not", "shift", "assign", "mul", "equal", "zero"}
       PROVE  i = 1 /\ i - 1 = 0 /\ i \in 1 .. DIGITS + 1 /\ i \in Places
  <2>1. call \notin Downwards
    BY <1>6, <1>15 DEF Downwards
  <2> QED BY <2>1, <1>2 DEF Places
<1>16. CASE at = "add"
  <2>1. call \in {"+=", "++", "+", "_++"}
    BY <1>6, <1>16 DEF Calls
  <2>2. L = a /\ s.obj[s.to] = a
    BY <2>1, <1>8, <1>11 DEF L, Left, Copying
  <2>3. Upto(Plus(L, R), L, i) = L
    BY <1>5, <1>12, <1>13, <1>14, <1>15, <1>16 DEF L, R
  <2>4. Added(s)
    BY <2>2, <2>3, <1>8, <1>13, <1>15, <1>16 DEF Added, L, R
  <2> QED BY <2>4, <1>8, <1>9, <1>10, <1>16 DEF StepsInv, Advanced, s
<1>17. CASE at = "sub"
  <2>1. call \in {"-=", "--", "-", "_--"}
    BY <1>6, <1>17 DEF Calls
  <2>2. s.obj[s.to] = a
    BY <2>1, <1>8, <1>11 DEF Copying
  <2>3. Upto(Minus(a, R), a, i) = a
    BY <1>5, <1>13, <1>14, <1>15, <1>17
  <2>4. Subtracted(s)
    BY <2>2, <2>3, <1>8, <1>13, <1>15, <1>17 DEF Subtracted, R
  <2> QED BY <2>4, <1>8, <1>9, <1>10, <1>17 DEF StepsInv, Advanced, s
<1>18. CASE at = "bit"
  <2>1. call \in {"&=", "|=", "^=", "&", "|"}
    BY <1>6, <1>18 DEF Calls
  <2>2. s.obj[s.to] = a
    BY <2>1, <1>8, <1>11 DEF Copying
  <2>3. BitwiseOf(s) \in LongInts
    BY <2>1, <1>8, <1>9, BitwiseOfIs
  <2>4. Upto(BitwiseOf(s), a, i) = a
    BY <2>3, <1>5, <1>14, <1>15, <1>18
  <2>5. Combined(s)
    BY <2>2, <2>4, <1>8, <1>15, <1>18 DEF Combined
  <2> QED BY <2>5, <1>8, <1>9, <1>10, <1>18 DEF StepsInv, Advanced, s
<1>19. CASE at = "not"
  <2>1. call \in {"~", "neg"}
    BY <1>6, <1>19 DEF Calls
  <2>2. obj["new"] = ZERO
    BY <2>1, <1>4 DEF new, Copying, Postfix
  <2>3. Complement(a) \in LongInts
    BY ComplementIs
  <2>4. Upto(Complement(a), ZERO, i) = ZERO
    BY <2>3, <1>2, <1>5, <1>14, <1>15, <1>19
  <2>5. Turned(s)
    BY <2>2, <2>4, <1>8, <1>15, <1>19 DEF Turned
  <2> QED BY <2>5, <1>8, <1>9, <1>10, <1>19 DEF StepsInv, Advanced, s
<1>20. CASE at = "shift"
  <2>1. call \in {"<<=", ">>=", "<<", ">>"}
    BY <1>6, <1>20 DEF Calls
  <2>2. s.obj[s.to] = a
    BY <2>1, <1>8, <1>11 DEF Copying
  <2>3. ToShift(s)
    BY <2>2, <1>8, <1>15, <1>20 DEF ToShift
  <2> QED BY <2>3, <1>8, <1>9, <1>10, <1>20 DEF StepsInv, Advanced, s
<1>21. CASE at = "assign"
  <2>1. call = "="
    BY <1>6, <1>21 DEF Calls
  <2>2. AssignNextPrev(kind, k) \in LongInts
    BY <2>1, AssignedType
  <2>3. Upto(AssignNextPrev(kind, k), a, i) = a
    BY <2>2, <1>5, <1>14, <1>15, <1>21
  <2>4. Assigned(s)
    BY <2>3, <1>4, <1>8, <1>15, <1>21 DEF Assigned
  <2> QED BY <2>4, <1>8, <1>9, <1>10, <1>21 DEF StepsInv, Advanced, s
<1>22. CASE at = "mul"
  <2>1. call \in {"*=", "*"}
    BY <1>6, <1>22 DEF Calls
  <2>2. s.obj[s.to] = a
    BY <2>1, <1>8, <1>11 DEF Copying
  <2> DEFINE x == AbsoluteOf(kind, a)
             y == AbsoluteOf(kind, b)
  <2>3. x \in LongInts /\ y \in LongInts
    BY AbsoluteSame
  <2> HIDE DEF x, y
  <2>4. Rows(x, y)[0] = ZERO
    BY <2>3, RowsAre
  <2>5. Row(x, y, i, ZERO)[0] = ZERO
    <3> HIDE DEF i
    <3> QED BY <2>3, <1>2, <1>15, <1>22, RowIs
  <2>6. 1 \in Places /\ 1 - 1 = 0
    BY <1>2 DEF Places
  <2>7. SummedUp(s)
    BY <2>2, <2>4, <2>5, <2>6, <1>8, <1>15, <1>22 DEF SummedUp, x, y
  <2> QED BY <2>7, <1>8, <1>9, <1>10, <1>22 DEF StepsInv, Advanced, s
<1>23. CASE at = "less"
  <2>1. call \in {"<", "<=", ">", ">="}
    BY <1>6, <1>23 DEF Calls
  <2>2. i = DIGITS
    BY <2>1 DEF Downwards
  <2>3. SameAbove(s)
    BY <2>2, <1>2, <1>4, <1>8 DEF SameAbove, Places
  <2> QED BY <2>3, <1>8, <1>9, <1>10, <1>23 DEF StepsInv, Advanced, s
<1>24. CASE at = "equal"
  <2>1. call \in {"==", "!="}
    BY <1>6, <1>24 DEF Calls
  <2>2. \A n \in Places : ~ (n < i)
    BY <1>2, <1>15, <1>24 DEF Places
  <2>3. SameBelow(s)
    BY <2>1, <2>2, <1>4, <1>8, <1>15, <1>24 DEF SameBelow, Loops
  <2> QED BY <2>3, <1>8, <1>9, <1>10, <1>24 DEF StepsInv, Advanced, s
<1>25. CASE at = "zero"
  <2>2. \A n \in Places : ~ (n < i)
    BY <1>2, <1>15, <1>25 DEF Places
  <2>3. ZeroBelow(s)
    BY <2>2, <1>4, <1>8, <1>15, <1>25 DEF ZeroBelow
  <2> QED BY <2>3, <1>8, <1>9, <1>10, <1>25 DEF StepsInv, Advanced, s
<1>26. CASE at = "count"
  <2>1. call = "countl_zero"
    BY <1>6, <1>26 DEF Calls
  <2>2. i = DIGITS
    BY <2>1 DEF Downwards
  <2>3. ZeroAbove(s)
    BY <2>2, <1>2, <1>4, <1>8 DEF ZeroAbove, Places
  <2> QED BY <2>3, <1>8, <1>9, <1>10, <1>26 DEF StepsInv, Advanced, s
<1>27. CASE at = "uint"
  BY <1>4, <1>8, <1>9, <1>10, <1>27 DEF StepsInv, Advanced, s
<1>28. at \in {"add", "sub", "bit", "not", "shift", "assign", "mul", "less", "equal", "zero", "count", "uint"}
  BY <1>6 DEF Calls
<1> QED BY <1>16, <1>17, <1>18, <1>19, <1>20, <1>21, <1>22, <1>23, <1>24, <1>25, <1>26, <1>27, <1>28

----------------------------------------------------------------------------
(* All steps *)

LEMMA StepsInitInv == StepsInit => StepsInv
<1> SUFFICES ASSUME StepsInit PROVE StepsInv
  OBVIOUS
<1>1. PICK a \in Operands, kind \in Kinds :
    \/ \E call \in Binary, b \in Operands : StepCall(call, kind, a, b, "other", 0)
    \/ \E call \in Binary : StepCall(call, kind, a, a, "this", 0)
    \/ \E call \in {"++", "--", "_++", "_--", "~", "neg", "is_zero", "countl_zero"} :
          StepCall(call, kind, a, ZERO, "one", 0)
    \/ \E call \in Loops.shift, k \in Shifts : StepCall(call, kind, a, ZERO, "other", k)
    \/ \E k \in Others : StepCall("=", kind, a, ZERO, "other", k)
    \/ \E k \in ULongs : StepCall("uint", kind, a, ZERO, "other", k)
  BY DEF StepsInit
<1>2. Operands \subseteq LongInts /\ ULongs \subseteq Nat /\ ZERO \in LongInts /\ Shifts \subseteq Nat
      /\ Others \subseteq Int
  BY LongIntStepsAssumption, SmallNumbers, ShiftsAre
<1>3. ASSUME NEW call \in Binary, NEW b \in Operands, StepCall(call, kind, a, b, "other", 0) PROVE StepsInv
  <2>1. call \in Calls /\ call \notin Loops.shift \cup Loops.uint /\ call # "="
        /\ call \notin {"++", "--", "_++", "_--", "neg"}
    BY DEF Binary, Calls, Loops
  <2> QED BY <2>1, <1>2, <1>3, CallIsMade
<1>4. ASSUME NEW call \in Binary, StepCall(call, kind, a, a, "this", 0) PROVE StepsInv
  <2>1. call \in Calls /\ call \notin Loops.shift \cup Loops.uint /\ call # "="
        /\ call \notin {"++", "--", "_++", "_--", "neg"}
    BY DEF Binary, Calls, Loops
  <2> QED BY <2>1, <1>2, <1>4, CallIsMade
<1>5. ASSUME NEW call \in {"++", "--", "_++", "_--", "~", "neg", "is_zero", "countl_zero"},
             StepCall(call, kind, a, ZERO, "one", 0)
      PROVE  StepsInv
  <2>1. call \in Calls /\ call \notin Loops.shift \cup Loops.uint /\ call # "=" /\ call \notin Binary
    BY DEF Binary, Calls, Loops
  <2> QED BY <2>1, <1>2, <1>5, CallIsMade
<1>6. ASSUME NEW call \in Loops.shift, NEW k \in Shifts, StepCall(call, kind, a, ZERO, "other", k)
      PROVE  StepsInv
  <2>1. call \in Calls /\ call # "=" /\ call \notin Binary /\ call \notin {"++", "--", "_++", "_--", "neg"}
    BY DEF Binary, Calls, Loops
  <2> QED BY <2>1, <1>2, <1>6, CallIsMade
<1>7. ASSUME NEW k \in Others, StepCall("=", kind, a, ZERO, "other", k) PROVE StepsInv
  <2> DEFINE call == "="
  <2>1. call \in Calls /\ call \notin Loops.shift \cup Loops.uint /\ call \notin Binary
        /\ call \notin {"++", "--", "_++", "_--", "neg"} /\ StepCall(call, kind, a, ZERO, "other", k)
    BY <1>7 DEF Binary, Calls, Loops
  <2> HIDE DEF call
  <2> QED BY <2>1, <1>2, CallIsMade
<1>8. ASSUME NEW k \in ULongs, StepCall("uint", kind, a, ZERO, "other", k) PROVE StepsInv
  <2> DEFINE call == "uint"
  <2>1. call \in Calls /\ call # "=" /\ call \notin Binary
        /\ call \notin {"++", "--", "_++", "_--", "neg"} /\ StepCall(call, kind, a, ZERO, "other", k)
    BY <1>8 DEF Binary, Calls, Loops
  <2>2. k \in Nat /\ k \in Int /\ a \in LongInts
    BY <1>2
  <2> DEFINE by == "other"
  <2>3. by \in {"this", "other", "one"} /\ by # "this" /\ by # "one" /\ StepCall(call, kind, a, ZERO, by, k)
    BY <2>1
  <2> HIDE DEF call, by
  <2> QED BY <2>1, <2>2, <2>3, <1>2, CallIsMade
<1> QED BY <1>1, <1>3, <1>4, <1>5, <1>6, <1>7, <1>8

LEMMA StepsNextInv == StepsInv /\ [StepsNext]_steps => StepsInv'
<1>1. StepsInv /\ UNCHANGED steps => StepsInv'
  BY DEF StepsInv
<1> QED BY <1>1, AddStepInv, SubStepInv, BitStepInv, NotStepInv, NotEndsInv, LoopEndsInv, ShiftStartsInv,
           ShiftLeftStepInv, ShiftLeftFillInv, ShiftRightStepInv, ShiftRightFillInv, TimesStepInv, TimesEndsInv,
           AssignStepInv, LessStepInv, EqualStepInv, ZeroStepInv, CountStepInv, ToUnsignedInv DEF StepsNext

LEMMA StepsInvInPlace == StepsInv => InPlace
<1>1. StepsInv /\ steps.at = "done" => Placed(steps)
  BY FinishedIsPlaced DEF StepsInv, Advanced
<1> QED BY <1>1 DEF InPlace, Placed, StepsInv, Object

\* Each loop has written, up to its place, the digits of what the operator
\* computes of the operands as they were, and has what it still reads: so far as
\* it has come, no step has changed a digit, a carry or a sign that is read.
THEOREM StepsInvariant == StepsSpec => []StepsInv
BY StepsInitInv, StepsNextInv, PTL DEF StepsSpec

\* For any number of digits of any width, for all operands and also when both
\* are one object: what an operator has written over its left operand, or over
\* a copy, is what LongInt says of the operands as they were at the call; the
\* right operand stays, _++ and _-- return the old number, and the comparisons,
\* the count of zeros and the conversion answer of the values.
THEOREM StepsAreInPlace == StepsSpec => []InPlace
BY StepsInvariant, StepsInvInPlace, PTL
=============================================================================
