----------------------------- MODULE DynNumText -----------------------------
(***************************************************************************)
(* How DynNum.hpp reads a number from characters and Conversion.hpp writes *)
(* one, in the copies of float-string: a text is read, the number written, *)
(* and what was written read again.                                        *)
(*                                                                         *)
(* A character is a number: a digit is its value, and the letters a to f,  *)
(* small or large, are 10 to 15, so that 14 is also the mark of an         *)
(* exponent.                                                               *)
(***************************************************************************)
EXTENDS DynNum

CONSTANTS Lexemes,    \* what the texts are made of: see Written
          Precisions  \* arguments of to_string

SPACE == 20
MINUS == 21
PLUS  == 22
POINT == 23
END   == 24   \* the end mark of a C string
EXPONENT == 14

Written(t) == t.spaces \o (IF t.minus THEN <<MINUS>> ELSE <<>>) \o t.whole
              \o (IF t.point THEN <<POINT>> \o t.fraction ELSE <<>>)
              \o t.mark \o t.power \o t.rest \o <<END>>

VARIABLE scan   \* the lexemes and the radix; the text, the place p in it and
                \* what is scanned (at); how many digits this lexeme has, the
                \* number and its exponent so far; the number that was
                \* written, the precision and dot_index and dot_move

TextInit == \E t \in Lexemes :
    scan = [lex |-> t, radix |-> t.radix, text |-> Written(t), p |-> 1, at |-> "space",
            count |-> 0, number |-> ZeroNum, exponent |-> <<>>, down |-> FALSE,
            again |-> FALSE, first |-> ZeroNum, precision |-> -1,
            cut |-> 0, dot |-> 0, move |-> 0]

Char == scan.text[scan.p]
ToLexeme(at) == scan' = [scan EXCEPT !.at = at, !.count = 0]
After(at)    == scan' = [scan EXCEPT !.at = at, !.count = 0, !.p = @ + 1]

----------------------------------------------------------------------------
(* parse_number *)

\* char_to_digit_radix, without the numbers below 0.
char_to_digit_radix(c) == IF c < scan.radix THEN {c} ELSE {}

SkipSpace == /\ scan.at = "space" /\ Char = SPACE
             /\ scan' = [scan EXCEPT !.p = @ + 1]

ReadSign ==
    /\ scan.at = "space" /\ Char # SPACE
    /\ scan' = IF Char = MINUS THEN [scan EXCEPT !.at = "whole", !.number.sign = TRUE, !.p = @ + 1]
               ELSE [scan EXCEPT !.at = "whole"]

\* parse_digits_lexeme, a digit in a step.
ReadDigit ==
    /\ scan.at \in {"whole", "fraction", "exponent"}
    /\ \E d \in char_to_digit_radix(Char) :
          scan' = IF scan.at = "exponent"
                  THEN [scan EXCEPT !.p = @ + 1, !.count = @ + 1, !.exponent = Append(@, d)]
                  ELSE [scan EXCEPT !.p = @ + 1, !.count = @ + 1, !.number.digits = Append(@, d)]

LexemeEnds(at) == scan.at = at /\ char_to_digit_radix(Char) = {}

WholeEnds ==
    /\ LexemeEnds("whole")
    /\ scan' = IF scan.count = 0 /\ Char # POINT THEN [scan EXCEPT !.at = "fails"]
               ELSE [scan EXCEPT !.number.dot_index = scan.count, !.count = 0,
                                 !.p = IF Char = POINT THEN @ + 1 ELSE @,
                                 !.at = IF Char = POINT THEN "fraction" ELSE "mark"]

FractionEnds == /\ LexemeEnds("fraction")
                /\ ToLexeme(IF scan.count = 0 THEN "fails" ELSE "mark")

ReadMark == /\ scan.at = "mark"
            /\ IF Char = EXPONENT THEN After("sign of exponent") ELSE ToLexeme("normalize")

ReadExponentSign ==
    /\ scan.at = "sign of exponent"
    /\ scan' = [scan EXCEPT !.at = "exponent", !.down = Char = MINUS,
                            !.p = IF Char \in {PLUS, MINUS} THEN @ + 1 ELSE @]

\* The lowest digit of the exponent is the last.
ExponentEnds ==
    /\ LexemeEnds("exponent")
    /\ LET size == FoldLeft(LAMBDA v, d : v * scan.radix + d, 0, scan.exponent)
       IN  scan' = IF scan.count = 0 THEN [scan EXCEPT !.at = "fails"]
                   ELSE [scan EXCEPT !.at = "normalize",
                                     !.number.dot_index = @ + IF scan.down THEN -size ELSE size]

ParseEnds == /\ scan.at = "normalize"
             /\ scan' = [scan EXCEPT !.at = IF scan.again THEN "done" ELSE "parsed",
                                     !.number = normalize(@)]

\* The constructor makes a zero of what it cannot read.
ParseFails == /\ scan.at = "fails"
              /\ scan' = [scan EXCEPT !.at = IF scan.again THEN "done" ELSE "parsed",
                                      !.number = ZeroNum]

----------------------------------------------------------------------------
(* Conversion::string, of numbers whose digits are no letters *)

\* Mutant: the zeros behind the digits are counted before these are cut.
PrintStartsUncut ==
    /\ scan.at = "parsed" /\ scan.radix <= 10
    /\ \E precision \in Precisions :
         LET n == scan.number
             cut == IF precision > 0 /\ Len(n.digits) > precision THEN precision
                    ELSE Len(n.digits)
             trailing == Max({0, n.dot_index - Len(n.digits)})
             leading  == Max({0, -n.dot_index})
             move     == IF leading > 0 THEN leading ELSE -trailing
         IN  scan' = [scan EXCEPT !.at = "print whole", !.first = n, !.precision = precision,
                         !.text = IF n.sign THEN <<MINUS>> ELSE <<>>,
                         !.cut = cut, !.move = move, !.dot = n.dot_index + move]

PrintStarts ==
    /\ scan.at = "parsed" /\ scan.radix <= 10
    /\ \E precision \in Precisions :
         LET n == scan.number
             cut == IF precision > 0 /\ Len(n.digits) > precision THEN precision
                    ELSE Len(n.digits)
             trailing == Max({0, n.dot_index - cut})
             leading  == Max({0, -n.dot_index})
             move     == IF leading > 0 THEN leading ELSE -trailing
         IN  scan' = [scan EXCEPT !.at = "print whole", !.first = n, !.precision = precision,
                         !.text = IF n.sign THEN <<MINUS>> ELSE <<>>,
                         !.cut = cut, !.move = move, !.dot = n.dot_index + move]

PrintWhole ==
    /\ scan.at = "print whole"
    /\ scan' = [scan EXCEPT !.at = "print fraction",
                    !.text = @ \o IF scan.dot > 0 THEN SubSeq(scan.number.digits, 1, scan.dot)
                                  ELSE <<0>>]

PrintFraction ==
    /\ scan.at = "print fraction"
    /\ scan' = [scan EXCEPT !.at = "print exponent",
                    !.text = IF scan.dot < scan.cut
                             THEN @ \o <<POINT>>
                                    \o SubSeq(scan.number.digits, scan.dot + 1, scan.cut)
                             ELSE @]

DigitsOf(k) ==
    LET n == CHOOSE n \in 1 .. k + 1 : scan.radix ^ n > k /\ (n = 1 \/ scan.radix ^ (n - 1) <= k)
    IN  [i \in 1 .. n |-> (k \div scan.radix ^ (n - i)) % scan.radix]

\* A number is shown in the radix it is read in.  Then the text is read.
PrintExponent ==
    LET k == -scan.move IN
    /\ scan.at = "print exponent"
    /\ scan' = [scan EXCEPT !.at = "space", !.again = TRUE, !.p = 1, !.count = 0,
                    !.number = ZeroNum, !.exponent = <<>>, !.down = FALSE,
                    !.text = @ \o (CASE k = 0 -> <<>>
                                     [] k > 0 -> <<EXPONENT>> \o DigitsOf(k)
                                     [] k < 0 -> <<EXPONENT, MINUS>> \o DigitsOf(-k))
                               \o <<END>>]

TextNext == \/ SkipSpace \/ ReadSign \/ ReadDigit \/ WholeEnds \/ FractionEnds
            \/ ReadMark \/ ReadExponentSign \/ ExponentEnds \/ ParseEnds \/ ParseFails
            \/ PrintStarts \/ PrintWhole \/ PrintFraction \/ PrintExponent

----------------------------------------------------------------------------
(* Properties *)

\* What the lexemes say; an exponent is none in a radix that has the letter as a digit.
Meaning(t) ==
    LET size == FoldLeft(LAMBDA v, d : v * t.radix + d, 0, t.power) IN
    IF t.mark # <<>> /\ t.power = <<>> THEN ZeroNum
    ELSE parse_number(t @@ [exponent |-> IF MINUS \in ToSet(t.mark) THEN -size ELSE size])

First(n, precision) ==
    IF precision <= 0 THEN n ELSE normalize([n EXCEPT !.digits = SubSeq(@, 1, Min({precision, Len(@)}))])

\* Reading characters finds the number the lexemes mean, whatever stands before
\* and behind it, and zero where a lexeme lacks its digits; in a radix of letters
\* e is a digit.  What is written of a number is read back as the same number,
\* or as its first digits, however far its point lies from them, and every
\* digit that is written is one of the number's (DynNum.hpp:388-485,
\* Conversion.hpp:8-51).
TextRight ==
    /\ scan.at = "parsed" => scan.number = Meaning(scan.lex)
    /\ scan.at = "print whole" => 0 <= scan.dot /\ scan.dot <= scan.cut
    /\ scan.at = "done" => scan.number = First(scan.first, scan.precision)
=============================================================================
