------------------------------- MODULE Tailf --------------------------------
(***************************************************************************)
(* tailf.c of 02-files/tasks/tailf: a file that others append to is read   *)
(* into a buffer and printed as a string.                                  *)
(*                                                                         *)
(* The buffer is on the stack, with whatever was there before; the byte    *)
(* behind it belongs to somebody else, and a store to it may do harm.      *)
(***************************************************************************)
EXTENDS Integers, Sequences, SequencesExt

CONSTANTS kMaxFileSize,  \* bytes of the buffer
          Letters, NUL,  \* bytes
          MaxLog         \* bound on the length of the file

ASSUME TailfAssumption == kMaxFileSize \in Nat \ {0} /\ MaxLog \in Nat

Characters  == Letters \cup {NUL}
Buffer == [1 .. kMaxFileSize -> Characters]

VARIABLES log,       \* the file
          data,      \* the buffer
          tailf      \* pc, offset, bytes_read, what was printed

tailfVars == <<log, data, tailf>>

TailfInit == /\ log \in UNION {[1 .. n -> Characters] : n \in 0 .. MaxLog}
             /\ data \in Buffer
             /\ tailf = [pc |-> "open", offset |-> 0, bytes_read |-> 0, out |-> <<>>]

tail_f ==
    /\ tailf.pc = "open"
    /\ tailf' \in {[tailf EXCEPT !.pc = "read"], [tailf EXCEPT !.pc = "exit"]}
    /\ UNCHANGED <<log, data>>

\* The new bytes replace the first of the buffer.
ReadLog ==
    /\ tailf.pc = "read" /\ tailf.offset < Len(log)
    /\ LET left == Len(log) - tailf.offset
           n    == IF left < kMaxFileSize THEN left ELSE kMaxFileSize
       IN /\ data' = [i \in 1 .. kMaxFileSize |->
                        IF i <= n THEN log[tailf.offset + i] ELSE data[i]]
          /\ tailf' = [tailf EXCEPT !.pc = "end", !.bytes_read = n, !.offset = @ + n]
    /\ UNCHANGED log

\* The first bytes of the buffer, up to one that is NUL.
StringLength(b) == CHOOSE n \in 0 .. kMaxFileSize :
                     /\ \A i \in 1 .. n : b[i] # NUL
                     /\ n < kMaxFileSize => b[n + 1] = NUL

\* Mutant: the end of the string is not marked.
PrintUnterminated ==
    /\ tailf.pc = "end"
    /\ tailf' = [tailf EXCEPT !.pc = "read",
                   !.out = @ \o SubSeq([i \in 1 .. kMaxFileSize |-> data[i]], 1,
                                       StringLength(data))]
    /\ UNCHANGED <<log, data>>

\* data[bytes_read] = '\0'; a full buffer has its mark behind it.
PrintData ==
    /\ tailf.pc = "end"
    /\ LET marked == [i \in 1 .. kMaxFileSize |->
                        IF i = tailf.bytes_read + 1 THEN NUL ELSE data[i]]
       IN  /\ data' = marked
           /\ tailf' = [tailf EXCEPT !.pc = "read",
                          !.out = @ \o SubSeq(marked, 1, StringLength(marked))]
    /\ UNCHANGED log

\* The store behind a full buffer ends the program.
Overrun ==
    /\ tailf.pc = "end" /\ tailf.bytes_read = kMaxFileSize
    /\ tailf' = [tailf EXCEPT !.pc = "crashed"]
    /\ UNCHANGED <<log, data>>

AppendToLog ==
    /\ \E b \in Characters : log' = Append(log, b)
    /\ Len(log) < MaxLog
    /\ UNCHANGED <<data, tailf>>

TailfNext == tail_f \/ ReadLog \/ PrintData \/ Overrun \/ AppendToLog

----------------------------------------------------------------------------
(* Properties *)

\* What tailf has printed, when it is about to read again, is what it has read,
\* whole and in order (README.md:5: "without changes"), however the writes and
\* the reads were cut and whatever the buffer held, as long as the file has no
\* NUL: the code prints a string, which ends at one.  In any case it has printed
\* no more than it has read.
TailCopies ==
    LET seen == SubSeq(log, 1, tailf.offset)
    IN  /\ tailf.pc = "read" /\ NUL \notin ToSet(seen) => tailf.out = seen
        /\ Len(tailf.out) <= tailf.offset
=============================================================================
