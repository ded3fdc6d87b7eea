----------------------------- MODULE DynNumSteps ----------------------------
(***************************************************************************)
(* The operators of DynNum.hpp as the loops they are, in the copy of       *)
(* float-mul: operator+= pads the number, adds or subtracts digit by digit *)
(* and carries on; the right operand may be the same object; and the       *)
(* product by halves, which works on the halves in place.  DynNum has the  *)
(* helpers on digits and numbers, DynNumText the texts.                    *)
(***************************************************************************)
EXTENDS DynNumText

CONSTANT StepTexts   \* texts of the numbers that are operated on

ASSUME DynNumStepsAssumption == StepTexts \subseteq Texts

VARIABLE num   \* call, with its operands a, b and k as they were; the objects
               \* left and right of the running call, which are one object if
               \* same; the loop (at), i, j and carry; res and power; the
               \* halves of a product; the answer of a comparison

Begin(call, a, b, same, k) ==
    num = [call |-> call, a |-> a, b |-> b, k |-> k, same |-> same, left |-> a, right |-> b,
           at |-> call, i |-> 1, j |-> 1, carry |-> 0, answer |-> FALSE,
           res |-> IF call = "binpow" THEN One ELSE ZeroNum, power |-> k, half |-> <<>>]

Comparisons == {">", "<", ">=", "<="}
StepNumbers == {parse_number(t) : t \in StepTexts}

NumInit == \E a \in StepNumbers :
    \/ \E b \in StepNumbers, call \in {"+=", "-=", "*="} \cup Comparisons : Begin(call, a, b, FALSE, 0)
    \/ \E call \in {"+=", "-=", "*=", "+", "-"} \cup Comparisons : Begin(call, a, a, TRUE, 0)
    \/ \E b \in StepNumbers, limit \in Limits : Begin("karatsuba", a, b, FALSE, limit)
    \/ \E k \in 0 .. MaxPower : Begin("binpow", a, One, FALSE, k)

LeftNum  == num.left
RightNum == IF num.same THEN num.left ELSE num.right
Low(n) == n.dot_index - Len(n.digits)

----------------------------------------------------------------------------
(* operator>, and those that swap it, turn its answer round, or both *)

Bigger  == IF num.call \in {"<", ">="} THEN RightNum ELSE LeftNum
Smaller == IF num.call \in {"<", ">="} THEN LeftNum ELSE RightNum

Compared(answer) ==
    num' = [num EXCEPT !.at = "done", !.answer = answer # (num.call \in {"<=", ">="})]

CompareStarts ==
    LET a == Bigger  b == Smaller IN
    /\ num.at \in Comparisons
    /\ CASE is_zero(b)                     -> Compared(~ is_zero(a) /\ ~ a.sign)
         [] is_zero(a) /\ ~ is_zero(b)     -> Compared(b.sign)
         [] ~ is_zero(a) /\ ~ is_zero(b)   ->
               IF a.sign # b.sign THEN Compared(~ a.sign)
               ELSE IF a.dot_index # b.dot_index
                    THEN Compared((a.dot_index > b.dot_index) # a.sign)
               ELSE num' = [num EXCEPT !.at = "compare"]

\* A digit that one of the numbers does not have is 0.
CompareDigit ==
    LET x == DigitOr0(Bigger, num.i)  y == DigitOr0(Smaller, num.i) IN
    /\ num.at = "compare"
    /\ num.i <= Len(Bigger.digits) \/ num.i <= Len(Smaller.digits)
    /\ IF x = y THEN num' = [num EXCEPT !.i = @ + 1]
       ELSE Compared((x > y) # Bigger.sign)

CompareEnds == /\ num.at = "compare"
               /\ num.i > Len(Bigger.digits) /\ num.i > Len(Smaller.digits)
               /\ Compared(FALSE)

----------------------------------------------------------------------------
(* operator+=, and -= with a copy that has the other sign; + and - of a copy *)

CopyStarts == /\ num.at \in {"+", "-"}
              /\ num' = [num EXCEPT !.at = IF num.call = "+" THEN "+=" ELSE "-=",
                                    !.right = RightNum, !.same = FALSE]

SubStarts == /\ num.at = "-="
             /\ num' = [num EXCEPT !.at = "+=", !.right = Opposite(RightNum), !.same = FALSE]

AddZero ==
    /\ num.at = "+="
    /\ is_zero(LeftNum) \/ is_zero(RightNum)
    /\ num' = [num EXCEPT !.at = "done", !.left = IF is_zero(LeftNum) THEN RightNum ELSE LeftNum]

\* Of two numbers with different signs the smaller magnitude is on the left.
\* Mutant: the sign is not taken back from the order of negative numbers.
SwapsSmaller == /\ LeftNum.sign # RightNum.sign
                /\ Greater(RightNum, Opposite(LeftNum))
Swaps == /\ LeftNum.sign # RightNum.sign
         /\ Greater(RightNum, Opposite(LeftNum)) # Opposite(LeftNum).sign

AddStarts ==
    /\ num.at = "+="
    /\ ~ is_zero(LeftNum) /\ ~ is_zero(RightNum)
    /\ num' = IF Swaps THEN [num EXCEPT !.left = RightNum, !.right = LeftNum]
              ELSE [num EXCEPT !.at = "pad"]

PadFront ==
    /\ num.at = "pad"
    /\ LeftNum.dot_index < RightNum.dot_index
    /\ num' = [num EXCEPT !.left.digits = <<0>> \o @, !.left.dot_index = @ + 1]

PadBack ==
    /\ num.at = "pad"
    /\ LeftNum.dot_index >= RightNum.dot_index
    /\ Low(RightNum) < Low(LeftNum)
    /\ num' = [num EXCEPT !.left.digits = Append(@, 0)]

PadEnds ==
    /\ num.at = "pad"
    /\ LeftNum.dot_index >= RightNum.dot_index /\ Low(RightNum) >= Low(LeftNum)
    /\ num' = [num EXCEPT !.at = "digits", !.i = Len(RightNum.digits)]

Combine(x, y, carry) == IF LeftNum.sign = RightNum.sign THEN AddDigit(x, y, carry)
                        ELSE SubDigit(x, y, carry)

DigitStep ==
    LET at == num.i + LeftNum.dot_index - RightNum.dot_index
        d  == Combine(LeftNum.digits[at], RightNum.digits[num.i], num.carry)
    IN  /\ num.at = "digits" /\ num.i > 0
        /\ num' = [num EXCEPT !.left.digits[at] = d.digit, !.carry = d.carry, !.i = @ - 1]

DigitsEnd ==
    /\ num.at = "digits" /\ num.i = 0
    /\ num' = [num EXCEPT !.at = "carry", !.i = LeftNum.dot_index - RightNum.dot_index]

CarryStep ==
    LET d == Combine(LeftNum.digits[num.i], 0, num.carry)
    IN  /\ num.at = "carry" /\ num.i > 0 /\ num.carry = 1
        /\ num' = [num EXCEPT !.left.digits[num.i] = d.digit, !.carry = d.carry, !.i = @ - 1]

CarryEnds ==
    /\ num.at = "carry" /\ (num.i = 0 \/ num.carry = 0)
    /\ num' = [num EXCEPT !.at = "front",
                  !.left = IF num.carry = 0 THEN @
                           ELSE [@ EXCEPT !.digits = <<1>> \o @, !.dot_index = @ + 1]]

\* normalize: a number may be left without digits.
FrontZero == LeftNum.digits # <<>> /\ LeftNum.digits[1] = 0
NormalizeFront ==
    /\ num.at = "front"
    /\ num' = IF FrontZero
              THEN [num EXCEPT !.left.digits = Tail(@), !.left.dot_index = @ - 1]
              ELSE [num EXCEPT !.at = "back"]

NormalizeBack ==
    /\ num.at = "back"
    /\ LeftNum.digits # <<>> /\ Last(LeftNum.digits) = 0
    /\ num' = [num EXCEPT !.left.digits = Front(@)]

NormalizeEnds ==
    /\ num.at = "back"
    /\ LeftNum.digits # <<>> => Last(LeftNum.digits) # 0
    /\ num' = [num EXCEPT !.at = "done", !.left = IF is_zero(@) THEN ZeroNum ELSE @]

----------------------------------------------------------------------------
(* operator*= of short numbers, and binpow: the left operand is read until  *)
(* all is done *)

MulZero ==
    /\ num.at = "*="
    /\ is_zero(LeftNum) \/ is_zero(RightNum)
    /\ num' = [num EXCEPT !.at = "done", !.left = ZeroNum]

MulStep ==
    LET power == RightNum.dot_index - num.i + LeftNum.dot_index - num.j + 2
        tmp   == DigitProduct(RightNum.digits[num.i], LeftNum.digits[num.j], power)
    IN  /\ num.at = "*="
        /\ ~ is_zero(LeftNum) /\ num.i <= Len(RightNum.digits)
        /\ num' = [num EXCEPT !.res = Sum(@, tmp),
                      !.i = IF num.j = Len(LeftNum.digits) THEN @ + 1 ELSE @,
                      !.j = IF @ = Len(LeftNum.digits) THEN 1 ELSE @ + 1]

MulEnds ==
    /\ num.at = "*="
    /\ ~ is_zero(LeftNum) /\ ~ is_zero(RightNum) /\ num.i > Len(RightNum.digits)
    /\ num' = [num EXCEPT !.at = "front",
                  !.left = [num.res EXCEPT !.sign = LeftNum.sign # RightNum.sign]]

\* karatsuba_mul, of limit k: what needs no product, ...
Trivial(a, b) == is_zero(a) \/ is_zero(b) \/ a = One \/ b = One

KaratsubaTrivial ==
    LET a == num.left  b == num.right IN
    /\ num.at = "karatsuba" /\ Trivial(a, b)
    /\ num' = [num EXCEPT !.at = "done",
                  !.left = CASE is_zero(a) \/ is_zero(b) -> ZeroNum
                             [] a = One /\ ~ is_zero(b)  -> b
                             [] OTHER                    -> a]

\* ... a product of two digits, ...
KaratsubaDigits ==
    LET a == num.left  b == num.right IN
    /\ num.at = "karatsuba" /\ ~ Trivial(a, b)
    /\ Len(a.digits) = 1 /\ Len(b.digits) = 1
    /\ num' = [num EXCEPT !.at = "done",
                  !.left = [DigitProduct(a.digits[1], b.digits[1], a.dot_index + b.dot_index)
                              EXCEPT !.sign = a.sign # b.sign]]

\* ... the halves, of which the right ones are the longer, as integers, ...
KaratsubaSplit ==
    LET a == num.left  b == num.right
        size  == Max({Len(a.digits), Len(b.digits)})
        left  == size \div 2
        right == (size + 1) \div 2
        atA == Len(a.digits) - right
        atB == Len(b.digits) - right
    IN  /\ num.at = "karatsuba" /\ size > 1 /\ ~ Trivial(a, b)
        /\ num' = [num EXCEPT !.at = "halves",
                      !.half = [right |-> right,
                                al |-> partition(a, atA - left, atA),
                                ar |-> partition(a, atA, atA + right),
                                bl |-> partition(b, atB - left, atB),
                                br |-> partition(b, atB, atB + right)]]

\* ... their products; the sums of the halves overwrite the left ones, ...
KaratsubaProducts ==
    LET h == num.half IN
    /\ num.at = "halves"
    /\ num' = [num EXCEPT !.at = "middle",
                  !.half = [right |-> h.right, P1 |-> Product(num.k, h.al, h.bl),
                            P2 |-> Product(num.k, h.ar, h.br),
                            P3 |-> Product(num.k, Sum(h.al, h.ar), Sum(h.bl, h.br))]]

\* ... and the product of the sums, the two others, ...
KaratsubaMiddle ==
    /\ num.at = "middle"
    /\ num' = [num EXCEPT !.at = "join",
                  !.half.P3 = Difference(Difference(@, num.half.P1), num.half.P2)]

\* ... and all, each at its place, moved to that of the operands.
KaratsubaJoins ==
    LET a == num.left  b == num.right  h == num.half
        all == Sum(Sum(Moved(h.P1, 2 * h.right), h.P2), Moved(h.P3, h.right))
    IN  /\ num.at = "join"
        /\ num' = [num EXCEPT !.at = "done", !.half = <<>>,
                      !.left = normalize([all EXCEPT
                          !.dot_index = @ + a.dot_index + b.dot_index
                                          - Len(a.digits) - Len(b.digits),
                          !.sign = a.sign # b.sign])]

PowOdd ==
    /\ num.at = "binpow" /\ num.power % 2 = 1
    /\ num' = [num EXCEPT !.res = square_mul(@, LeftNum), !.power = @ - 1]

PowEven ==
    /\ num.at = "binpow" /\ num.power % 2 = 0 /\ num.power > 0
    /\ num' = [num EXCEPT !.left = square_mul(@, @), !.power = @ \div 2]

PowEnds ==
    /\ num.at = "binpow" /\ num.power = 0
    /\ num' = [num EXCEPT !.at = "done", !.left = num.res]

NumNext == \/ CompareStarts \/ CompareDigit \/ CompareEnds \/ CopyStarts \/ SubStarts
           \/ KaratsubaTrivial \/ KaratsubaDigits \/ KaratsubaSplit
           \/ KaratsubaProducts \/ KaratsubaMiddle \/ KaratsubaJoins
           \/ NormalizeFront \/ NormalizeBack \/ NormalizeEnds
           \/ AddZero \/ AddStarts \/ PadFront \/ PadBack \/ PadEnds
           \/ DigitStep \/ DigitsEnd \/ CarryStep \/ CarryEnds
           \/ MulZero \/ MulStep \/ MulEnds \/ PowOdd \/ PowEven \/ PowEnds

----------------------------------------------------------------------------
(* Properties *)

Magnitude(n) == Scaled([n EXCEPT !.sign = FALSE], Places2)

\* DynNum.hpp:173-177: before the digits are added, the left number is the
\* larger if their signs differ, begins no lower and ends no higher than the
\* right one.
Covers == /\ LeftNum.sign = RightNum.sign \/ Magnitude(LeftNum) >= Magnitude(RightNum)
          /\ LeftNum.dot_index >= RightNum.dot_index
          /\ Len(LeftNum.digits) >= Len(RightNum.digits)
          /\ Low(LeftNum) <= Low(RightNum)

\* The operators that overwrite their left operand are exact and leave it in
\* its normal form, for numbers that overlap, touch or lie apart, of any signs,
\* and for a number and itself, and so is a product of halves, whose middle part
\* is never below 0; operator> is their order; what operator+= notes of its
\* operands is so, and a carry out of the highest digit only comes of an addition
\* (its assert, DynNum.hpp:200).
SumInPlace ==
    /\ num.at = "digits" /\ num.i = Len(RightNum.digits) => Covers
    /\ num.at = "carry" /\ num.i = 0 /\ num.carry = 1 => LeftNum.sign = RightNum.sign
    /\ num.at = "join" => ~ num.half.P3.sign \/ is_zero(num.half.P3)
    /\ num.at = "done" =>
          LET a == Read(num.a)  b == Read(num.b) IN
          /\ Normal(LeftNum) \/ (num.call \in {"-=", "-"} /\ is_zero(num.a) /\ is_zero(num.b))
          /\ CASE num.call \in {"+=", "+"} -> Is(LeftNum, a + b, Places2)
               [] num.call \in {"-=", "-"} -> Is(LeftNum, a - b, Places2)
               [] num.call = ">"  -> num.answer <=> a > b
               [] num.call = "<"  -> num.answer <=> a < b
               [] num.call = ">=" -> num.answer <=> a >= b
               [] num.call = "<=" -> num.answer <=> a <= b
               [] num.call \in {"*=", "karatsuba"} -> Is(LeftNum, a * b, 2 * Places2)
               [] num.call = "binpow" ->
                     Is(LeftNum, IF num.k = 0 THEN 1 ELSE a ^ num.k, num.k * Places2)
=============================================================================
