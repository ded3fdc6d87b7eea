------------------------------ MODULE Utf8File ------------------------------
(***************************************************************************)
(* 01-data-representation/tasks/utf8-file: main.c copies a file symbol by  *)
(* symbol with utf8_read and utf8_write of utf8_file.c, which turns        *)
(* overlong sequences into the shortest ones.                              *)
(*                                                                         *)
(* A file is a sequence of bytes.  The buffer of utf8_read keeps what it   *)
(* had from one symbol to the next and starts with what was on the stack.  *)
(***************************************************************************)
EXTENDS Integers, Sequences, SequencesExt, FiniteSetsExt

CONSTANTS Symbols,   \* symbols the input is made of
          Invalid,   \* bytes that start no sequence
          Cut,       \* beginnings of sequences
          Rooms,     \* bytes the file system has space for
          MaxText,   \* bound on the symbols of the input
          BUF        \* symbols main reads at once

ASSUME Utf8Assumption == /\ Symbols \subseteq Nat
                         /\ Invalid \subseteq (128 .. 191) \cup {254, 255}
                         /\ Cut \subseteq Seq(0 .. 255)
                         /\ Rooms \subseteq Nat /\ MaxText \in Nat /\ BUF \in Nat \ {0}

VARIABLES infile, outfile,
          utf   \* where main is, its variables, and what its input is made of

\* UTF-8 as it is defined: n bytes hold Capacity(n) numbers, the first byte
\* says how many there are.
Lead     == <<0, 192, 224, 240, 248, 252>>
Capacity == <<128, 2048, 65536, 2097152, 67108864>>   \* six bytes: 2^31
Bytes(s, n) ==
    [i \in 1 .. n |-> IF i = 1 THEN Lead[n] + s \div 64 ^ (n - 1)
                      ELSE 128 + ((s \div 64 ^ (n - i)) % 64)]
Shortest(s) == Min({n \in 1 .. 5 : s < Capacity[n]} \cup {6})

Low6(s, shift) == (s \div 2 ^ shift) % 64

\* The limits of the code.  Its five-byte form goes up to 2^31 - 1: there the
\* first byte is 0xF8 | symbol >> 24, whose upper bits fall together.
encode_utf8(symbol) ==
    CASE symbol <= 127 -> <<symbol>>
      [] symbol > 127 /\ symbol <= 2047 -> <<192 + symbol \div 64, 128 + Low6(symbol, 0)>>
      [] symbol > 2047 /\ symbol <= 65535 ->
            <<224 + symbol \div 2 ^ 12, 128 + Low6(symbol, 6), 128 + Low6(symbol, 0)>>
      [] symbol > 65535 /\ symbol <= 1114111 ->
            <<240 + symbol \div 2 ^ 18, 128 + Low6(symbol, 12), 128 + Low6(symbol, 6),
              128 + Low6(symbol, 0)>>
      [] symbol > 1114111 ->
            <<248 + ((symbol \div 2 ^ 24) % 8), 128 + Low6(symbol, 18),
              128 + Low6(symbol, 12), 128 + Low6(symbol, 6), 128 + Low6(symbol, 0)>>

\* How many bytes the first one announces, as the tests of decode_utf8 find it.
Announced(b) == CASE b <= 127 -> 1
                  [] b \in 192 .. 223 -> 2
                  [] b \in 224 .. 239 -> 3
                  [] b \in 240 .. 247 -> 4
                  [] b \in 248 .. 251 -> 5
                  [] b \in 252 .. 253 -> 6
                  [] OTHER -> -1

\* Continuation bytes are not looked at, only their lower six bits taken.
decode_utf8(buffer) ==
    LET n == Announced(buffer[1])
        first == CASE n = 1 -> buffer[1] [] n = 2 -> buffer[1] % 32
                   [] n = 3 -> buffer[1] % 16 [] n = 4 -> buffer[1] % 8
                   [] n = 5 -> buffer[1] % 4 [] n = 6 -> buffer[1] % 2
        s[i \in 0 .. n - 1] == IF i = 0 THEN first ELSE s[i - 1] * 64 + (buffer[i + 1] % 64)
    IN  s[n - 1]

\* The bytes the loop of utf8_read takes: one more for each 1 bit behind the
\* first bit, at most six.  The first bit is not looked at: bytes from 64 to 127
\* take others with them as if they began a sequence.
Taken(b) ==
    LET low == b % 128
    IN  CASE low < 64 -> 1 [] low \in 64 .. 95 -> 2 [] low \in 96 .. 111 -> 3
          [] low \in 112 .. 119 -> 4 [] low \in 120 .. 123 -> 5 [] low > 123 -> 6

Utf8Init ==
        /\ infile = <<>> /\ outfile = <<>>
        /\ utf = [pc |-> "start", text |-> <<>>, width |-> <<>>, tail |-> <<>>,
                  room |-> 0, buffer |-> <<0, 0, 0, 0, 0, 0>>, symbols |-> <<>>, next |-> 1]

\* The program starts on a file of some symbols, each in any number of bytes
\* that can hold it, with perhaps an invalid byte or the beginning of another
\* symbol at the end.
Widths(s) == Shortest(s) .. 6
Start ==
    /\ utf.pc = "start"
    /\ \E n \in 0 .. MaxText : \E text \in [1 .. n -> Symbols] :
       \E width \in [1 .. n -> 1 .. 6], room \in Rooms,
          tail \in {<<>>} \cup {<<b>> : b \in Invalid} \cup Cut :
          /\ \A i \in 1 .. n : width[i] \in Widths(text[i])
          /\ infile' = FlattenSeq([i \in 1 .. n |-> Bytes(text[i], width[i])]) \o tail
          /\ utf' = [utf EXCEPT !.pc = "read", !.text = text, !.width = width,
                                !.tail = tail, !.room = room]
    /\ UNCHANGED outfile

\* One symbol of utf8_read.  The end of the file inside a sequence is not
\* noticed: the buffer keeps the bytes of an earlier symbol.
ReadSymbol ==
    /\ utf.pc = "read" /\ infile # <<>> /\ Len(utf.symbols) < BUF
    /\ LET k == Min({Taken(infile[1]), Len(infile)})
           buffer == [i \in 1 .. 6 |-> IF i <= k THEN infile[i] ELSE utf.buffer[i]]
       IN  /\ infile' = SubSeq(infile, k + 1, Len(infile))
           /\ utf' = IF Announced(buffer[1]) = -1
                     THEN [utf EXCEPT !.pc = "failed", !.buffer = buffer]
                     ELSE [utf EXCEPT !.buffer = buffer,
                                      !.symbols = Append(@, decode_utf8(buffer))]
    /\ UNCHANGED outfile

\* utf8_read returns: nothing at the end of the file, and main ends.
ReadReturns ==
    /\ utf.pc = "read" /\ (infile = <<>> \/ Len(utf.symbols) = BUF)
    /\ utf' = [utf EXCEPT !.pc = IF utf.symbols = <<>> THEN "done" ELSE "write",
                          !.next = 1]
    /\ UNCHANGED <<infile, outfile>>

\* Mutant: the result of write is not looked at.
WriteIgnoresErrors ==
    /\ utf.pc = "write" /\ utf.next <= Len(utf.symbols)
    /\ LET bytes == encode_utf8(utf.symbols[utf.next])
           fit == Min({Len(bytes), utf.room - Len(outfile)})
       IN  /\ outfile' = IF fit < Len(bytes) THEN outfile ELSE outfile \o bytes
           /\ utf' = [utf EXCEPT !.next = @ + 1]
    /\ UNCHANGED infile

\* One symbol of utf8_write: a write that stores a part counts as one that
\* stored all, a write that stores nothing fails and ends main.
WriteSymbol ==
    /\ utf.pc = "write" /\ utf.next <= Len(utf.symbols)
    /\ LET bytes == encode_utf8(utf.symbols[utf.next])
           fit == Min({Len(bytes), utf.room - Len(outfile)})
       IN  /\ outfile' = outfile \o SubSeq(bytes, 1, fit)
           /\ utf' = IF fit = 0 THEN [utf EXCEPT !.pc = "failed"]
                     ELSE [utf EXCEPT !.next = @ + 1]
    /\ UNCHANGED infile

WriteReturns ==
    /\ utf.pc = "write" /\ utf.next > Len(utf.symbols)
    /\ utf' = [utf EXCEPT !.pc = "read", !.symbols = <<>>]
    /\ UNCHANGED <<infile, outfile>>

Utf8Next ==
    Start \/ ReadSymbol \/ ReadReturns \/ WriteSymbol \/ WriteReturns

----------------------------------------------------------------------------
(* Properties *)

Right(text) == FlattenSeq([i \in DOMAIN text |-> Bytes(text[i], Shortest(text[i]))])

\* Symbols of Unicode, none of them a single byte that utf8_read takes for the
\* beginning of a sequence.
Separate(text, width) ==
    \A i \in DOMAIN text : text[i] <= 1114111 /\ (width[i] > 1 \/ text[i] < 64)

\* Every symbol of Unicode comes out in its shortest form whatever form it
\* had (test.py:36-40, the overlong sequences of README.md:13); on a full disk
\* the output is cut, but what is there is right.  Only what comes of a symbol
\* cut at the end of the file is left open, and texts with single bytes from 64
\* to 127, which utf8_read mistakes: see LettersKept.
Transcoded ==
    Separate(utf.text, utf.width) =>
        /\ \/ IsPrefix(outfile, Right(utf.text))
           \/ utf.tail \in Cut /\ IsPrefix(Right(utf.text), outfile)
        /\ utf.pc = "done" /\ Len(outfile) < utf.room =>
              IsPrefix(Right(utf.text), outfile)

\* A text of whole symbols comes out with all of them, the ones of a single
\* byte too: utf8_read "reads Unicode symbols" (README.md:9), and the tests
\* expect a text in its shortest form back as it was (test.py:29-31).  The code
\* breaks it, see Taken.
LettersKept ==
    /\ utf.pc = "done" /\ utf.tail = <<>> /\ Len(outfile) < utf.room
    /\ \A i \in DOMAIN utf.text : utf.text[i] <= 1114111
    => outfile = Right(utf.text)
=============================================================================
