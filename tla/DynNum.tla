------------------------------- MODULE DynNum -------------------------------
(***************************************************************************)
(* DynNum.hpp and Conversion.hpp of                                        *)
(* 01-data-representation-bonus/tasks/float-add/solution: numbers of any   *)
(* length, sign and magnitude, the highest digit first; dot_index digits   *)
(* stand before the point, which may lie outside of them.                  *)
(*                                                                         *)
(* A text is its lexemes: the digits before and after the point and the    *)
(* exponent.  Each behaviour reads a number and does one operation.        *)
(***************************************************************************)
EXTENDS Integers, Sequences, SequencesExt, FiniteSetsExt

CONSTANTS RADIX,       \* Digit::radix
          Limits,      \* products of lengths up to which numbers are multiplied
                       \* digit by digit (500)
          Texts,       \* texts that numbers are read from
          MaxPower     \* bound on the argument of binpow

ASSUME DynNumAssumption ==
    /\ RADIX \in Nat \ {0, 1} /\ Limits \subseteq Nat /\ MaxPower \in Nat
    /\ \A t \in Texts : /\ t.whole \in Seq(0 .. RADIX - 1)
                        /\ t.fraction \in Seq(0 .. RADIX - 1)
                        /\ t.minus \in BOOLEAN /\ t.point \in BOOLEAN
                        /\ t.exponent \in Int

VARIABLE dyn   \* the limit, an operation with its operands, its result

ZeroNum == [sign |-> FALSE, dot_index |-> 0, digits |-> <<>>]
One  == [sign |-> FALSE, dot_index |-> 1, digits |-> <<1>>]

is_zero(n) == n.digits = <<>>

\* Zeros at both ends are dropped; zero has one form.
normalize(n) ==
    LET other == {i \in DOMAIN n.digits : n.digits[i] # 0}
    IN  IF other = {} THEN ZeroNum
        ELSE [sign |-> n.sign, dot_index |-> n.dot_index - Min(other) + 1,
              digits |-> SubSeq(n.digits, Min(other), Max(other))]

DigitOr0(n, i) == IF i \in DOMAIN n.digits THEN n.digits[i] ELSE 0

\* operator>.
Greater(a, b) ==
    LET differ == {i \in 1 .. Max({Len(a.digits), Len(b.digits)}) :
                      DigitOr0(a, i) # DigitOr0(b, i)}
    IN  CASE is_zero(b) -> ~ is_zero(a) /\ ~ a.sign
          [] is_zero(a) /\ ~ is_zero(b) -> b.sign
          [] ~ is_zero(a) /\ ~ is_zero(b) ->
                IF a.sign # b.sign THEN ~ a.sign
                ELSE IF a.dot_index # b.dot_index
                     THEN (a.dot_index > b.dot_index) # a.sign
                ELSE /\ differ # {}
                     /\ (DigitOr0(a, Min(differ)) > DigitOr0(b, Min(differ))) # a.sign

\* operator<, <= and >=.
Lesser(a, b)     == Greater(b, a)
NotGreater(a, b) == ~ Greater(a, b)
NotLesser(a, b)  == ~ Greater(b, a)

get_leading_zeroes(n) == Max({0, -n.dot_index})

\* add and sub of a digit: what is left in it, and the carry.
AddDigit(x, y, carry) == [digit |-> (x + y + carry) % RADIX,
                          carry |-> IF x + y + carry >= RADIX THEN 1 ELSE 0]
\* Mutant: the borrow is not counted when there is one already.
SubDigitForgets(x, y, carry) == [digit |-> (x - y - carry) % RADIX,
                                 carry |-> IF y > x THEN 1 ELSE 0]
SubDigit(x, y, carry) == [digit |-> (x - y - carry) % RADIX,
                          carry |-> IF y + carry > x THEN 1 ELSE 0]

\* The part of operator+= after the swap: b is added to or subtracted from a,
\* from the lowest digit of the two to the highest.
Accumulate(a, b) ==
    LET top == Max({a.dot_index, b.dot_index})
        low == Min({a.dot_index - Len(a.digits), b.dot_index - Len(b.digits)})
        Step(r, p) ==
            LET x == DigitOr0(a, a.dot_index - p)  y == DigitOr0(b, b.dot_index - p)
                d == IF a.sign = b.sign THEN AddDigit(x, y, r.carry)
                     ELSE SubDigit(x, y, r.carry)
            IN  [digits |-> <<d.digit>> \o r.digits, carry |-> d.carry]
        sum == FoldLeft(Step, [digits |-> <<>>, carry |-> 0],
                        [j \in 1 .. top - low |-> low + j - 1])
    IN  normalize([sign |-> a.sign, dot_index |-> top + sum.carry,
                   digits |-> IF sum.carry = 1 THEN <<1>> \o sum.digits ELSE sum.digits])

\* operator+=: for different signs the larger magnitude comes first.
RECURSIVE Sum(_, _)
Sum(a, b) ==
    LET turned == [a EXCEPT !.sign = ~ @]
        swap == Greater(b, turned) # turned.sign
    IN  CASE is_zero(a) -> b
          [] is_zero(b) /\ ~ is_zero(a) -> a
          [] ~ is_zero(a) /\ ~ is_zero(b) ->
                IF a.sign # b.sign /\ swap THEN Sum(b, a) ELSE Accumulate(a, b)

Opposite(n) == [n EXCEPT !.sign = ~ @]
Difference(a, b) == Sum(a, Opposite(b))

\* The product of two digits at some place.
DigitProduct(x, y, place) ==
    normalize([sign |-> FALSE, dot_index |-> place,
               digits |-> <<(x * y) \div RADIX, (x * y) % RADIX>>])

square_mul(a, b) ==
    LET Row(r, i) == FoldLeft(LAMBDA s, j :
                         Sum(s, DigitProduct(b.digits[i], a.digits[j],
                                             b.dot_index - i + a.dot_index - j + 2)),
                         r, [j \in DOMAIN a.digits |-> j])
        product == FoldLeft(Row, ZeroNum, [i \in DOMAIN b.digits |-> i])
    IN  IF is_zero(a) \/ is_zero(b) THEN ZeroNum
        ELSE normalize([product EXCEPT !.sign = a.sign # b.sign])

\* The digits from begin + 1 to end, as an integer.
partition(n, begin, end) ==
    LET digits == SubSeq(n.digits, Max({0, begin}) + 1, Min({end, Len(n.digits)}))
    IN  normalize([sign |-> FALSE, dot_index |-> Len(digits), digits |-> digits])

Moved(n, places) == [n EXCEPT !.dot_index = @ + places]

RECURSIVE Product(_, _, _)
karatsuba_mul(limit, a, b) ==
    LET size == Max({Len(a.digits), Len(b.digits)})
        left == size \div 2  right == (size + 1) \div 2
        atA == Len(a.digits) - right  atB == Len(b.digits) - right
        al == partition(a, atA - left, atA)   ar == partition(a, atA, atA + right)
        bl == partition(b, atB - left, atB)   br == partition(b, atB, atB + right)
        P1 == Product(limit, al, bl)
        P2 == Product(limit, ar, br)
        P3 == Difference(Difference(Product(limit, Sum(al, ar), Sum(bl, br)), P1), P2)
        all == Sum(Sum(Moved(P1, 2 * right), P2), Moved(P3, right))
    IN  CASE is_zero(a) \/ is_zero(b) -> ZeroNum
          [] a = One /\ ~ is_zero(b) -> b
          [] b = One /\ ~ is_zero(a) /\ a # One -> a
          [] ~ is_zero(a) /\ ~ is_zero(b) /\ a # One /\ b # One ->
                IF size = 1
                THEN [DigitProduct(a.digits[1], b.digits[1], a.dot_index + b.dot_index)
                        EXCEPT !.sign = a.sign # b.sign]
                ELSE normalize([all EXCEPT
                        !.dot_index = @ + a.dot_index + b.dot_index
                                        - Len(a.digits) - Len(b.digits),
                        !.sign = a.sign # b.sign])

\* operator*: short numbers digit by digit, long ones by halves.
Product(limit, a, b) ==
    IF Len(a.digits) * Len(b.digits) > limit THEN karatsuba_mul(limit, a, b)
    ELSE square_mul(a, b)

RECURSIVE Power(_, _, _, _)
Power(limit, res, x, power) ==
    IF power = 0 THEN res
    ELSE IF power % 2 = 1 THEN Power(limit, Product(limit, res, x), x, power - 1)
    ELSE Power(limit, res, Product(limit, x, x), power \div 2)
binpow(limit, x, power) == Power(limit, One, x, power)

\* parse_number.  A text without digits before and after its point, or with a
\* point and none after it, is read as zero.
parse_number(t) ==
    IF \/ t.whole = <<>> /\ ~ t.point
       \/ t.point /\ t.fraction = <<>> THEN ZeroNum
    ELSE normalize([sign |-> t.minus, dot_index |-> Len(t.whole) + t.exponent,
                    digits |-> t.whole \o IF t.point THEN t.fraction ELSE <<>>])

\* Conversion::string: at most `precision' digits, unless that is -1; zeros
\* beside the digits go into the exponent.
to_string(n, precision) ==
    LET digits == IF precision > 0 /\ Len(n.digits) > precision THEN precision
                  ELSE Len(n.digits)
        trailing == Max({0, n.dot_index - digits})
        leading  == get_leading_zeroes(n)
        move == IF leading > 0 THEN leading ELSE -trailing
        dot  == n.dot_index + move
    IN  [minus |-> n.sign,
         whole |-> IF dot > 0 THEN SubSeq(n.digits, 1, dot) ELSE <<0>>,
         point |-> dot < digits,
         fraction |-> SubSeq(n.digits, dot + 1, digits),
         exponent |-> -move]

----------------------------------------------------------------------------

Numbers == {parse_number(t) : t \in Texts}

DynInit == \E limit \in Limits :
             dyn = [limit |-> limit, op |-> "none", a |-> ZeroNum, b |-> ZeroNum, k |-> 0,
                    result |-> ZeroNum]

Parse == \E t \in Texts :
    dyn' = [dyn EXCEPT !.op = "parse", !.b = t, !.a = parse_number(t),
                       !.result = parse_number(t)]

BinaryOp == \E b \in Numbers :
    \/ dyn' = [dyn EXCEPT !.op = "+", !.b = b, !.result = Sum(dyn.a, b)]
    \/ dyn' = [dyn EXCEPT !.op = "-", !.b = b, !.result = Difference(dyn.a, b)]
    \/ dyn' = [dyn EXCEPT !.op = "*", !.b = b, !.result = Product(dyn.limit, dyn.a, b)]

PowerOp == \E k \in 0 .. MaxPower :
    dyn' = [dyn EXCEPT !.op = "pow", !.k = k, !.result = binpow(dyn.limit, dyn.a, k)]

DynNext == \/ dyn.op = "none" /\ Parse
           \/ dyn.op = "parse" /\ (BinaryOp \/ PowerOp)

----------------------------------------------------------------------------
(* Properties *)

\* A number times RADIX to the scale, which must make it an integer.
IsWhole(n, scale) == n.dot_index - Len(n.digits) + scale >= 0
Scaled(n, scale) ==
    LET size == FoldLeft(LAMBDA v, d : v * RADIX + d, 0, n.digits)
                  * RADIX ^ (n.dot_index - Len(n.digits) + scale)
    IN  IF n.sign THEN -size ELSE size

Places2 == 2   \* no text has more digits after the point
Read(n) == Scaled(n, Places2)
Is(n, value, scale) == IsWhole(n, scale) /\ Scaled(n, scale) = value

Normal(n) == /\ n = normalize(n)
             /\ \A i \in {1, Len(n.digits)} \cap DOMAIN n.digits : n.digits[i] # 0

\* Arithmetic is exact (README.md:312) for numbers of any sign, length and
\* place of the point, and both ways of multiplying agree; the order is that of
\* the numbers; a result is in its normal form, so that == is equality; and
\* what to_string writes reads back as the same number, or as its
\* first digits.  The exception is 0 - 0, which is a zero with a sign.
DynNumExact ==
    LET a == dyn.a  b == dyn.b  r == dyn.result IN
    /\ CASE dyn.op = "+"   -> Is(r, Read(a) + Read(b), Places2)
         [] dyn.op = "-"   -> Is(r, Read(a) - Read(b), Places2)
         [] dyn.op = "*"   -> Is(r, Read(a) * Read(b), 2 * Places2)
         [] dyn.op = "pow" -> Is(r, IF dyn.k = 0 THEN 1 ELSE Read(a) ^ dyn.k, dyn.k * Places2)
         [] dyn.op = "parse" /\ (b.whole # <<>> \/ b.point) /\ (b.point => b.fraction # <<>>) ->
               Is(r, Scaled([sign |-> b.minus, dot_index |-> Len(b.whole) + b.exponent,
                             digits |-> IF b.point THEN b.whole \o b.fraction ELSE b.whole],
                            Places2), Places2)
         [] OTHER -> TRUE
    /\ dyn.op = "+" => /\ Greater(a, b) <=> Read(a) > Read(b)
                       /\ Lesser(a, b) <=> Read(a) < Read(b)
                       /\ NotGreater(a, b) <=> Read(a) <= Read(b)
                       /\ NotLesser(a, b) <=> Read(a) >= Read(b)
    /\ (dyn.op = "-" /\ is_zero(a) /\ is_zero(b)) \/ Normal(r)
    /\ Normal(r) =>
          /\ parse_number(to_string(r, -1)) = r
          /\ parse_number(to_string(r, 2)) = normalize([r EXCEPT !.digits = SubSeq(@, 1, Min({2, Len(@)}))])
=============================================================================
