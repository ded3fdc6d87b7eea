---------------------------- MODULE LongIntSteps ----------------------------
(***************************************************************************)
(* The operators of LongInt.hpp as the loops they are, in the copy of      *)
(* float-next-prev: they overwrite their left operand, or a copy of it,    *)
(* digit by digit, and the right operand may be the same object.  LongInt  *)
(* says what they compute of whole numbers.                                *)
(***************************************************************************)
EXTENDS LongInt

CONSTANTS Operands,   \* long integers that are operated on
          ULongs      \* numbers of digits of an unsigned long long

ASSUME LongIntStepsAssumption == Operands \subseteq LongInts /\ ULongs \subseteq Nat

VARIABLE steps   \* call, with its operands a, b and k as they were;
                 \* the objects: this, other, the number one, and a new one, of
                 \* which the loop writes `to' and reads `by'; the sum of the
                 \* products; the loop (at), its index i, j and carry; an answer

\* Unary operators begin with their complement; -- and ++ make a one to add.
\* _++ and _-- are those that return the old number.
Loops == [add |-> {"+=", "++", "+", "_++"}, sub |-> {"-=", "--", "-", "_--"},
          bit |-> {"&=", "|=", "^=", "&", "|"}, not |-> {"~", "neg"},
          shift |-> {"<<=", ">>=", "<<", ">>"}, mul |-> {"*=", "*"}, assign |-> {"="},
          less |-> {"<", "<=", ">", ">="}, equal |-> {"==", "!="}, zero |-> {"is_zero"},
          count |-> {"countl_zero"}, uint |-> {"uint"}]
LoopOf(call) == CHOOSE l \in DOMAIN Loops : call \in Loops[l]
Downwards == {"<", "<=", ">", ">=", "countl_zero"}
Leftwards == {"<<=", "<<"}

\* These write a copy of the number, or keep one.
Copying == {"+", "-", "*", "&", "|", "<<", ">>"}
Postfix == {"_++", "_--"}

StepCall(call, kind, a, b, by, k) ==
    steps = [call |-> call, kind |-> kind, a |-> a, b |-> b, k |-> k, by |-> by,
             to |-> IF call \in Copying \cup {"~", "neg"} THEN "new" ELSE "this",
             obj |-> [this |-> a, other |-> b, one |-> ONE,
                      new |-> IF call \in Copying \cup Postfix THEN a ELSE ZERO],
             sum |-> ZERO, kept |-> FALSE,
             at |-> LoopOf(call), i |-> IF call \in Downwards THEN DIGITS ELSE 1,
             j |-> 1, carry |-> 0, answer |-> -1]

Binary == {"+=", "-=", "*=", "&=", "|=", "^=", "<", "==", "<=", ">", ">=", "!=",
           "+", "-", "*", "&", "|"}

StepsInit == \E a \in Operands, kind \in {k \in Kinds : k.copy = "float-next-prev"} :
    \/ \E call \in Binary, b \in Operands : ~ kind.wide /\ StepCall(call, kind, a, b, "other", 0)
    \/ \E call \in Binary : ~ kind.wide /\ StepCall(call, kind, a, a, "this", 0)
    \/ \E call \in {"++", "--", "_++", "_--", "~", "neg", "is_zero", "countl_zero"} :
          ~ kind.wide /\ StepCall(call, kind, a, ZERO, "one", 0)
    \/ \E call \in Loops.shift, k \in Shifts : StepCall(call, kind, a, ZERO, "other", k)
    \/ \E k \in Others : ~ kind.wide /\ a = ZERO /\ StepCall("=", kind, a, ZERO, "other", k)
    \/ \E k \in ULongs : ~ kind.wide /\ StepCall("uint", kind, a, ZERO, "other", k)

Object(name) == steps.obj[name]
InLoop(loop) == steps.at = loop /\ steps.i \in Places

\* The loop ends behind the last digit, or before the first.
LoopEnds ==
    /\ steps.at \in {"add", "sub", "bit", "assign"} /\ steps.i > DIGITS
    /\ steps' = [steps EXCEPT !.at = "done"]

\* operator+=.  The digit is stored after the carry of both is known.
\* Mutant: it is stored before.
AddStoresFirst ==
    LET x == Object(steps.to)[steps.i]  y == Object(steps.by)[steps.i]
        sum == (x + y + steps.carry) % BASE
        y1 == IF steps.by = steps.to THEN sum ELSE y
    IN  /\ InLoop("add")
        /\ steps' = [steps EXCEPT !.obj[steps.to][steps.i] = sum, !.i = @ + 1,
                        !.carry = IF sum > BASE - 1 - y1 \/ (@ = 1 /\ sum = BASE - 1 - y1)
                                  THEN 1 ELSE 0]

AddStep ==
    LET x == Object(steps.to)[steps.i]  y == Object(steps.by)[steps.i]
    IN  /\ InLoop("add")
        /\ steps' = [steps EXCEPT !.obj[steps.to][steps.i] = (x + y + steps.carry) % BASE,
                        !.i = @ + 1,
                        !.carry = IF x > BASE - 1 - y \/ (@ = 1 /\ x = BASE - 1 - y)
                                  THEN 1 ELSE 0]

SubStep ==
    LET x == Object(steps.to)[steps.i]  y == Object(steps.by)[steps.i]
    IN  /\ InLoop("sub")
        /\ steps' = [steps EXCEPT !.obj[steps.to][steps.i] = (x - y - steps.carry) % BASE,
                        !.i = @ + 1,
                        !.carry = IF y > x \/ (y = x /\ @ = 1) THEN 1 ELSE 0]

\* operator&=, |= and ^=, of the bits that are set.
BitStep ==
    LET x == Ones(Object(steps.to)[steps.i])  y == Ones(Object(steps.by)[steps.i])
    IN  /\ InLoop("bit")
        /\ steps' = [steps EXCEPT !.i = @ + 1,
                        !.obj[steps.to][steps.i] =
                            FromOnes(CASE steps.call \in {"&=", "&"} -> x \cap y
                                       [] steps.call \in {"|=", "|"} -> x \cup y
                                       [] steps.call = "^=" -> (x \ y) \cup (y \ x))]

\* operator~, and unary - up to its ++.
NotStep ==
    /\ InLoop("not")
    /\ steps' = [steps EXCEPT !.obj.new[steps.i] = BASE - 1 - Object("this")[steps.i],
                              !.i = @ + 1]
NotEnds ==
    /\ steps.at = "not" /\ steps.i > DIGITS
    /\ steps' = [steps EXCEPT !.at = IF steps.call = "neg" THEN "add" ELSE "done", !.i = 1]

\* <<= goes down from the highest digit, >>= up from the lowest, so that
\* neither reads a digit it has written.
ShiftDigits == steps.k \div BITS
ShiftBits   == steps.k % BITS
ShiftStarts ==
    /\ steps.at = "shift"
    /\ \E kept \in Overshifts(steps.kind) :
          steps' = IF steps.k = 0 THEN [steps EXCEPT !.at = "done"]
                   ELSE IF ShiftDigits >= DIGITS
                   THEN [steps EXCEPT !.at = "done", !.obj[steps.to] = ZERO]
                   ELSE IF steps.call \in Leftwards
                   THEN [steps EXCEPT !.at = "left", !.i = DIGITS]
                   ELSE [steps EXCEPT !.at = "right", !.kept = kept]

ShiftLeftStep ==
    LET x == Object(steps.to)  from == steps.i - ShiftDigits
        low  == (x[from] * 2 ^ ShiftBits) % BASE
        high == IF from > 1 /\ ShiftBits # 0 THEN x[from - 1] \div 2 ^ (BITS - ShiftBits) ELSE 0
    IN  /\ steps.at = "left" /\ steps.i > ShiftDigits
        /\ steps' = [steps EXCEPT !.obj[steps.to][steps.i] = low + high, !.i = @ - 1]

ShiftLeftFill ==
    /\ steps.at = "left" /\ steps.i = ShiftDigits
    /\ steps' = [steps EXCEPT !.at = "done",
                    !.obj[steps.to] = [n \in Places |-> IF n <= ShiftDigits THEN 0 ELSE @[n]]]

\* high << BITS is nothing of a narrow digit, and of a wide one what the
\* processor makes of it.
SignedDigit(d) == IF d >= BASE \div 2 THEN d - BASE ELSE d
ShiftRightStep ==
    LET x == Object(steps.to)  from == steps.i + ShiftDigits
        low == IF steps.kind.signed /\ from = DIGITS
               THEN (SignedDigit(x[from]) \div (2 ^ ShiftBits)) % BASE
               ELSE x[from] \div 2 ^ ShiftBits
        high == CASE from = DIGITS -> 0
                  [] from < DIGITS /\ ShiftBits # 0 ->
                        (x[from + 1] * 2 ^ (BITS - ShiftBits)) % BASE
                  [] OTHER -> IF steps.kept THEN x[from + 1] ELSE 0
    IN  /\ steps.at = "right" /\ from <= DIGITS
        /\ steps' = [steps EXCEPT !.i = @ + 1,
                        !.obj[steps.to][steps.i] = FromOnes(Ones(low) \cup Ones(high))]

\* The sign is that of the number as far as it is shifted.
ShiftRightFill ==
    LET fill == IF is_negative(steps.kind, Object(steps.to)) THEN BASE - 1 ELSE 0
    IN  /\ steps.at = "right" /\ steps.i + ShiftDigits > DIGITS
        /\ steps' = [steps EXCEPT !.at = "done",
                        !.obj[steps.to] = [n \in Places |-> IF n > DIGITS - ShiftDigits
                                                            THEN fill ELSE @[n]]]

\* operator*=: a pair of digits of the absolute values in a step; the left
\* operand is written when all are done.
Absolute(name) == AbsoluteOf(steps.kind, Object(name))
TimesStep ==
    /\ InLoop("mul")
    /\ steps' = [steps EXCEPT
                    !.sum = Plus(@, PairProduct(Absolute(steps.to), Absolute(steps.by), steps.i, steps.j)),
                    !.i = IF steps.j = DIGITS THEN @ + 1 ELSE @,
                    !.j = IF @ = DIGITS THEN 1 ELSE @ + 1]

TimesEnds ==
    LET turned == is_negative(steps.kind, Object(steps.to)) # is_negative(steps.kind, Object(steps.by))
    IN  /\ steps.at = "mul" /\ steps.i > DIGITS
        /\ steps' = [steps EXCEPT !.at = "done",
                        !.obj[steps.to] = IF turned THEN Negate(steps.sum) ELSE steps.sum]

\* operator= of the number k.
AssignStep ==
    /\ InLoop("assign")
    /\ steps' = [steps EXCEPT !.i = @ + 1,
                    !.obj.this[steps.i] = IF (steps.i - 1) * BITS < INT_BITS
                                          THEN (steps.k \div 2 ^ ((steps.i - 1) * BITS)) % BASE
                                          ELSE 0]

Answer(value) == [steps EXCEPT !.at = "done", !.answer = value]
Truth(b) == IF b THEN 1 ELSE 0

\* >= is not <, and > not <=, which is < or ==.
LessIs(less) ==
    CASE steps.call = "<"  -> Answer(Truth(less))
      [] steps.call = ">=" -> Answer(Truth(~ less))
      [] steps.call \in {"<=", ">"} ->
            IF less THEN Answer(Truth(steps.call = "<="))
            ELSE [steps EXCEPT !.at = "equal", !.i = 1]

LessStep ==
    LET x == Object("this")  y == Object(steps.by)  i == steps.i
        negative == is_negative(steps.kind, x)
    IN  /\ steps.at = "less"
        /\ steps' = IF negative # is_negative(steps.kind, y) THEN LessIs(negative)
                    ELSE IF i = 0 THEN LessIs(FALSE)
                    ELSE IF x[i] # y[i] THEN LessIs(x[i] < y[i])
                    ELSE [steps EXCEPT !.i = @ - 1]

EqualStep ==
    LET i == steps.i  yes == steps.call \in {"==", "<="} IN
    /\ steps.at = "equal"
    /\ steps' = IF i > DIGITS THEN Answer(Truth(yes))
                ELSE IF Object("this")[i] # Object(steps.by)[i] THEN Answer(Truth(~ yes))
                ELSE [steps EXCEPT !.i = @ + 1]

ZeroStep ==
    LET i == steps.i IN
    /\ steps.at = "zero"
    /\ steps' = IF i > DIGITS THEN Answer(1)
                ELSE IF Object("this")[i] # 0 THEN Answer(0)
                ELSE [steps EXCEPT !.i = @ + 1]

CountStep ==
    LET i == steps.i IN
    /\ steps.at = "count"
    /\ steps' = IF i = 0 THEN Answer(DIGITS * BITS)
                ELSE IF Object("this")[i] # 0
                THEN Answer((DIGITS - i) * BITS + BITS - 1 - Max(Ones(Object("this")[i])))
                ELSE [steps EXCEPT !.i = @ - 1]

\* operator unsigned long long, of k digits: the digits there are, and the
\* sign for the rest.
Digit(kind, x, n) == IF n <= DIGITS THEN x[n] ELSE IF is_negative(kind, x) THEN BASE - 1 ELSE 0
ULong(kind, x, k) == Running(k, [n \in 1 .. k |-> Digit(kind, x, n) * 2 ^ (BITS * (n - 1))])[k]
ToUnsigned == /\ steps.at = "uint"
              /\ steps' = Answer(ULong(steps.kind, Object("this"), steps.k))

StepsNext == \/ AddStep \/ SubStep \/ BitStep \/ NotStep \/ NotEnds \/ LoopEnds
             \/ ShiftStarts \/ ShiftLeftStep \/ ShiftLeftFill
             \/ ShiftRightStep \/ ShiftRightFill \/ TimesStep \/ TimesEnds
             \/ AssignStep \/ LessStep \/ EqualStep \/ ZeroStep \/ CountStep \/ ToUnsigned

----------------------------------------------------------------------------
(* Properties *)

ValueIn(kind, x) == IF is_negative(kind, x) THEN Unsigned(x) - MODULUS ELSE Unsigned(x)

\* An operator that overwrites its left operand digit by digit computes what
\* LongInt says of the operands as they were at the call, also when both are
\* the same object (LongInt.hpp:132-293): no step reads a digit, a carry or a
\* sign that an earlier step has changed.  The right operand stays as it is, a
\* new number leaves both alone, what is returned before ++ and -- is the old
\* number, and the comparisons agree.
InPlace == steps.at = "done" =>
    LET a == steps.a  b == steps.b  kind == steps.kind
        this == Object("this")  new == Object("new")  to == Object(steps.to)
        yes == steps.answer = 1  less == ValueIn(kind, a) < ValueIn(kind, b)
        Expected ==
            CASE steps.call \in {"+=", "+"}  -> to = Plus(a, b)
              [] steps.call \in {"-=", "-"}  -> to = Minus(a, b)
              [] steps.call \in {"++", "_++"} -> to = Plus(a, ONE)
              [] steps.call \in {"--", "_--"} -> to = Minus(a, ONE)
              [] steps.call \in {"*=", "*"}  -> to = Times(kind, a, b)
              [] steps.call \in {"&=", "&"}  -> BitsOf(to) = BitsOf(a) \cap BitsOf(b)
              [] steps.call \in {"|=", "|"}  -> BitsOf(to) = BitsOf(a) \cup BitsOf(b)
              [] steps.call = "^="  -> BitsOf(to) = (BitsOf(a) \cup BitsOf(b))
                                                     \ (BitsOf(a) \cap BitsOf(b))
              [] steps.call \in {"<<=", "<<"} -> to = ShiftLeft(a, steps.k)
              [] steps.call \in {">>=", ">>"} -> to = ShiftRight(kind, a, steps.k, steps.kept)
              [] steps.call = "="   -> this = AssignNextPrev(kind, steps.k)
              [] steps.call = "~"   -> ValueIn(kind, new) = IF kind.signed THEN -1 - ValueIn(kind, a)
                                                            ELSE MODULUS - 1 - ValueIn(kind, a)
              [] steps.call = "neg" -> new = Negate(a)
              [] steps.call = "<"   -> yes <=> less
              [] steps.call = ">="  -> yes <=> ~ less
              [] steps.call = "<="  -> yes <=> less \/ a = b
              [] steps.call = ">"   -> yes <=> ~ less /\ a # b
              [] steps.call = "=="  -> yes <=> a = b
              [] steps.call = "!="  -> yes <=> a # b
              [] steps.call = "is_zero" -> yes <=> ValueIn(kind, a) = 0
              [] steps.call = "countl_zero" -> steps.answer = countl_zero(a)
              [] steps.call = "uint" -> (steps.answer - ValueIn(kind, a)) % (2 ^ (BITS * steps.k)) = 0
    IN  /\ Expected
        /\ Object("other") = b
        /\ steps.to = "new" \/ LoopOf(steps.call) \in {"less", "equal", "zero", "count", "uint"} => this = a
        /\ steps.call \in Postfix => new = a
=============================================================================
