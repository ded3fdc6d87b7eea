------------------------------- MODULE LongInt ------------------------------
(***************************************************************************)
(* LongInt.hpp of 01-data-representation-bonus/tasks/float-add/solution:   *)
(* an integer of a fixed number of digits, two's complement if it is       *)
(* signed, the lowest digit first.  float-next-prev has a copy whose       *)
(* assignment differs.                                                     *)
(*                                                                         *)
(* A digit has BITS bits.  In C++ a shift by all of them is undefined for  *)
(* digits as wide as int or wider, of which `wide' tells; the processor    *)
(* then shifts by none.  Each behaviour is one operation on numbers of     *)
(* every value.                                                            *)
(***************************************************************************)
EXTENDS Integers, Sequences, SequencesExt, FiniteSetsExt

CONSTANTS DIGITS,     \* get_digit_count()
          BITS,       \* get_digit_bitlength()
          INT_BITS    \* bits of the integer type that is assigned

ASSUME LongIntAssumption == /\ DIGITS \in Nat \ {0} /\ BITS \in Nat \ {0}
                            /\ INT_BITS \in Nat \ {0}

BASE   == 2 ^ BITS
Places == 1 .. DIGITS
LongInts == [Places -> 0 .. BASE - 1]

VARIABLE long   \* kind: the template arguments and the copy of the file;
                \* op, its operands a, b and k, and its result

Kinds == [signed : BOOLEAN, wide : BOOLEAN, copy : {"float-add", "float-next-prev"}]

ZERO == [i \in Places |-> 0]
ONE  == [i \in Places |-> IF i = 1 THEN 1 ELSE 0]

\* The sums of the first numbers of a sequence of n.
Running(n, f) == LET v[i \in 0 .. n] == IF i = 0 THEN 0 ELSE v[i - 1] + f[i] IN v

\* The bits of a digit that are set.
Ones(x) == {n \in 0 .. BITS - 1 : (x \div 2 ^ n) % 2 = 1}
FromOnes(bits) == Running(BITS, [n \in 1 .. BITS |-> IF n - 1 \in bits THEN 2 ^ (n - 1) ELSE 0])[BITS]

is_negative(kind, x) == kind.signed /\ x[DIGITS] >= BASE \div 2

\* The carry behind each digit of a sum; in front of the first there is none.
Carries(x, y) ==
    LET c[i \in 0 .. DIGITS] ==
          IF i = 0 THEN 0
          ELSE IF x[i] > BASE - 1 - y[i] \/ (c[i - 1] = 1 /\ x[i] = BASE - 1 - y[i]) THEN 1
          ELSE 0
    IN  c
SumDigits(x, y, c) == [i \in Places |-> (x[i] + y[i] + c[i - 1]) % BASE]

\* Mutant: a carry into two digits that sum to the largest value is lost.
PlusForgetsCarry(x, y) ==
    SumDigits(x, y, [i \in 0 .. DIGITS |-> IF i > 0 /\ x[i] > BASE - 1 - y[i] THEN 1 ELSE 0])

Plus(x, y) == SumDigits(x, y, Carries(x, y))

Borrows(x, y) ==
    LET c[i \in 0 .. DIGITS] ==
          IF i = 0 THEN 0 ELSE IF y[i] > x[i] \/ (y[i] = x[i] /\ c[i - 1] = 1) THEN 1 ELSE 0
    IN  c
Minus(x, y) == LET c == Borrows(x, y) IN [i \in Places |-> (x[i] - y[i] - c[i - 1]) % BASE]

\* operator= for an integer t, whose digits are those of its two's complement
\* as far as they go; the rest is its sign, in float-add.
Covered == (INT_BITS + BITS - 1) \div BITS
AssignInt(t, fill) ==
    [i \in Places |-> IF i <= Covered THEN (t \div 2 ^ ((i - 1) * BITS)) % BASE
                      ELSE fill]
AssignFloatAdd(kind, t) == AssignInt(t, IF kind.signed /\ t < 0 THEN BASE - 1 ELSE 0)
AssignNextPrev(kind, t) == AssignInt(t, 0)
Assign(kind, t) == IF kind.copy = "float-add" THEN AssignFloatAdd(kind, t)
                   ELSE AssignNextPrev(kind, t)

\* operator~, and what is made of it.
Complement(x) == [i \in Places |-> BASE - 1 - x[i]]
Negate(x) == Plus(Complement(x), ONE)

\* operator&=, |= and ^=.
BitAnd(x, y) == [i \in Places |-> FromOnes(Ones(x[i]) \cap Ones(y[i]))]
BitOr(x, y)  == [i \in Places |-> FromOnes(Ones(x[i]) \cup Ones(y[i]))]
BitXor(x, y) == [i \in Places |-> FromOnes(SymDiff(Ones(x[i]), Ones(y[i])))]

\* operator<<=; a shift past the last digit gives 0.
ShiftLeft(x, k) ==
    LET n == k \div BITS  b == k % BITS
        Low(i)  == IF i > n THEN (x[i - n] * 2 ^ b) % BASE ELSE 0
        High(i) == IF i > n + 1 /\ b # 0 THEN x[i - n - 1] \div 2 ^ (BITS - b) ELSE 0
    IN  [i \in Places |-> Low(i) + High(i)]

\* What x << BITS leaves in a digit: nothing of a promoted narrow digit.
Overshifts(kind) == IF kind.wide THEN {TRUE, FALSE} ELSE {FALSE}

OrSame(x, y) == FromOnes(Ones(x) \cup Ones(y))

\* operator>>=.  `kept' says that a digit shifted by all of its bits stays.
\* A shift past the last digit gives 0, also for a negative number.
ShiftRight(kind, x, k, kept) ==
    LET n == k \div BITS  b == k % BITS
        sign == IF is_negative(kind, x) THEN BASE - 1 ELSE 0
        Low(i)  == IF i + n = DIGITS /\ is_negative(kind, x)
                   THEN (x[DIGITS] - BASE) \div 2 ^ b + BASE
                   ELSE x[i + n] \div 2 ^ b
        High(i) == CASE i + n >= DIGITS -> 0
                     [] i + n < DIGITS /\ b # 0 -> (x[i + n + 1] * 2 ^ (BITS - b)) % BASE
                     [] OTHER -> IF kept THEN x[i + n + 1] ELSE 0
    IN  CASE k = 0 -> x
          [] n >= DIGITS -> ZERO
          [] OTHER ->
             [i \in Places |-> IF i + n > DIGITS THEN sign ELSE OrSame(Low(i), High(i))]

\* operator*=: the products of all pairs of digits, shifted to their place,
\* of the absolute values.
PairProduct(x, y, i, j) ==
    LET p == x[i] * y[j]
    IN  ShiftLeft([n \in Places |-> CASE n = 1 -> p % BASE [] n = 2 -> p \div BASE [] OTHER -> 0],
                  (i + j - 2) * BITS)
Row(x, y, i, before) ==
    LET s[j \in 0 .. DIGITS] == IF j = 0 THEN before ELSE Plus(s[j - 1], PairProduct(x, y, i, j))
    IN  s
Rows(x, y) ==
    LET s[i \in 0 .. DIGITS] == IF i = 0 THEN ZERO ELSE Row(x, y, i, s[i - 1])[DIGITS]
    IN  s

AbsoluteOf(kind, x) == IF is_negative(kind, x) THEN Negate(x) ELSE x
Times(kind, x, y) ==
    LET all == Rows(AbsoluteOf(kind, x), AbsoluteOf(kind, y))[DIGITS]
    IN  IF is_negative(kind, x) # is_negative(kind, y) THEN Negate(all) ELSE all

\* operator<, which the other comparisons but == come from.
Less(kind, x, y) ==
    IF is_negative(kind, x) # is_negative(kind, y) THEN is_negative(kind, x)
    ELSE \E i \in Places : x[i] < y[i] /\ \A j \in i + 1 .. DIGITS : x[j] = y[j]

is_even(x) == x[1] % 2 = 0
long_is_zero(x) == \A i \in Places : x[i] = 0

\* Leading zero bits, counted from the highest digit that is not 0.
countl_zero(x) ==
    LET i == Max({0} \cup {j \in Places : x[j] # 0})
    IN  IF i = 0 THEN DIGITS * BITS
        ELSE (DIGITS - i) * BITS + Min({z \in 0 .. BITS - 1 : x[i] >= 2 ^ (BITS - 1 - z)})

----------------------------------------------------------------------------

LongInit == \E kind \in Kinds, a \in LongInts :
              long = [kind |-> kind, op |-> "none", a |-> a, b |-> ZERO, k |-> 0,
                      kept |-> FALSE, result |-> ZERO]

Shifts == 0 .. (DIGITS + 1) * BITS
Others == -(2 ^ (INT_BITS - 1)) .. 2 ^ (INT_BITS - 1) - 1

Arithmetic == \E b \in LongInts :
    \/ long' = [long EXCEPT !.op = "+", !.b = b, !.result = Plus(long.a, b)]
    \/ long' = [long EXCEPT !.op = "-", !.b = b, !.result = Minus(long.a, b)]
    \/ long' = [long EXCEPT !.op = "*", !.b = b, !.result = Times(long.kind, long.a, b)]

Bitwise == \E b \in LongInts :
    \/ long' = [long EXCEPT !.op = "&", !.b = b, !.result = BitAnd(long.a, b)]
    \/ long' = [long EXCEPT !.op = "|", !.b = b, !.result = BitOr(long.a, b)]
    \/ long' = [long EXCEPT !.op = "^", !.b = b, !.result = BitXor(long.a, b)]

Unary ==
    \/ long' = [long EXCEPT !.op = "neg", !.result = Negate(long.a)]
    \/ long' = [long EXCEPT !.op = "~", !.result = Complement(long.a)]

\* ++ and --, before or behind the number.
Increment == long' = [long EXCEPT !.op = "++", !.result = Plus(long.a, ONE)]
Decrement == long' = [long EXCEPT !.op = "--", !.result = Minus(long.a, ONE)]

Shift == \E k \in Shifts :
    \/ long' = [long EXCEPT !.op = "<<", !.k = k, !.result = ShiftLeft(long.a, k)]
    \/ \E kept \in Overshifts(long.kind) :
          long' = [long EXCEPT !.op = ">>", !.k = k, !.kept = kept,
                               !.result = ShiftRight(long.kind, long.a, k, kept)]

AssignOther == \E t \in Others :
    long' = [long EXCEPT !.op = "=", !.k = t, !.result = Assign(long.kind, t)]

\* Arithmetic takes no notice of the width of a digit, nor of the copy.
LongNext == /\ long.op = "none"
            /\ \/ /\ ~ long.kind.wide /\ long.kind.copy = "float-add"
                  /\ Arithmetic \/ Bitwise \/ Increment \/ Decrement
               \/ Unary \/ Shift \/ AssignOther

----------------------------------------------------------------------------
(* Properties *)

\* The number that the digits up to each place are.
MODULUS == 2 ^ (BITS * DIGITS)
Values(x) == Running(DIGITS, [i \in Places |-> x[i] * 2 ^ (BITS * (i - 1))])
Unsigned(x) == Values(x)[DIGITS]
ValueOf(x) == IF is_negative(long.kind, x) THEN Unsigned(x) - MODULUS ELSE Unsigned(x)
BitsOf(x) == {n \in 0 .. DIGITS * BITS - 1 : (Unsigned(x) \div 2 ^ n) % 2 = 1}

\* A LongInt behaves as an integer type of its width does (README.md:299):
\* sums, differences, products, negations and shifts are those of the
\* integers, modulo 2 to the width, and the bitwise operators take the bits
\* one by one, whatever digit they are in.
Works ==
    LET a == ValueOf(long.a)  b == ValueOf(long.b)  r == ValueOf(long.result)
        Congruent(v) == (r - v) % MODULUS = 0
    IN  CASE long.op = "+"   -> Congruent(a + b)
          [] long.op = "-"   -> Congruent(a - b)
          [] long.op = "*"   -> Congruent(a * b)
          [] long.op = "neg" -> Congruent(-a)
          [] long.op = "~"   -> Congruent(-a - 1)
          [] long.op = "++"  -> Congruent(a + 1)
          [] long.op = "--"  -> Congruent(a - 1)
          [] long.op = "&"   -> BitsOf(long.result) = BitsOf(long.a) \cap BitsOf(long.b)
          [] long.op = "|"   -> BitsOf(long.result) = BitsOf(long.a) \cup BitsOf(long.b)
          [] long.op = "^"   -> BitsOf(long.result) = SymDiff(BitsOf(long.a), BitsOf(long.b))
          [] long.op = "<<"  -> Congruent(a * 2 ^ long.k)
          [] long.op = ">>"  -> r = a \div 2 ^ long.k
          [] long.op = "="   -> Congruent(long.k)
          [] OTHER -> TRUE

\* What works always: everything but the shift right of wide digits by a whole
\* number of them, a shift right of a negative number out of all its digits,
\* and the assignment of a negative number to an unsigned LongInt that is
\* wider, or in float-next-prev to any.
Excepted ==
    \/ long.op = ">>" /\ long.k > 0 /\ long.k % BITS = 0 /\ long.kind.wide
    \/ long.op = ">>" /\ long.k >= DIGITS * BITS
    \/ long.op = "=" /\ long.k < 0 /\ (long.kind.copy = "float-next-prev" \/ ~ long.kind.signed)

LongIntWorks ==
    /\ Excepted \/ Works
    /\ Less(long.kind, long.a, long.b) <=> ValueOf(long.a) < ValueOf(long.b)
    /\ is_even(long.a) <=> Unsigned(long.a) % 2 = 0
    /\ long_is_zero(long.a) <=> Unsigned(long.a) = 0
    /\ LET width == DIGITS * BITS - countl_zero(long.a) IN
       /\ Unsigned(long.a) < 2 ^ width
       /\ width > 0 => Unsigned(long.a) >= 2 ^ (width - 1)

\* README.md:299-301 has it shift to the right as integer types do.
ShiftsRight == long.op = ">>" /\ long.k < DIGITS * BITS => Works
=============================================================================
