------------------------------ MODULE SignalFd ------------------------------
(***************************************************************************)
(* signalfd() of 08-interprocess-communication/tasks/userspace-signalfd:   *)
(* a file to which a signal handler appends the number of every signal and *)
(* which the program reads through the same descriptor, so that both move  *)
(* one offset.                                                             *)
(*                                                                         *)
(* Each process has one thread.  A signal is delivered between any two of  *)
(* its steps, also inside the handler if the mask lets it through: the     *)
(* handlers of a process are a stack of frames, the last one running.      *)
(***************************************************************************)
EXTENDS Integers, Sequences, SequencesExt, FiniteSetsExt

CONSTANTS Proc,      \* processes that use it in one directory
          MaxSig,    \* the signals that can be caught are 1 .. MaxSig
          MaxKills,  \* bound on the signals sent to a process
          Room       \* numbers the file system has space for in a file

ASSUME SignalFdAssumption == MaxSig \in Nat /\ MaxKills \in Nat /\ Room \in Nat

Sig    == 1 .. MaxSig
NoFile == 0

VARIABLES sig_pc,    \* where the program of each process is
          file,      \* contents of each file ever created: <<process, signal>>
          name,      \* the file called userspace_signalfd_file, or NoFile
          signal_fd, \* the file each process has open
          offset,    \* and the offset of that descriptor
          handled,   \* signals up to this one have the handler
          pending,   \* signals the kernel has not delivered
          kills,     \* signals sent so far
          frames     \* handlers that run

sigVars == <<sig_pc, file, name, signal_fd, offset, handled, pending, kills, frames>>

SigInit == /\ sig_pc = [p \in Proc |-> "open"]
           /\ file = <<>> /\ name = NoFile
           /\ signal_fd = [p \in Proc |-> NoFile]
           /\ offset = [p \in Proc |-> 0]
           /\ handled = [p \in Proc |-> 0]
           /\ pending = [p \in Proc |-> {}]
           /\ kills = [p \in Proc |-> 0]
           /\ frames = [p \in Proc |-> <<>>]

Contents(p) == file[signal_fd[p]]

----------------------------------------------------------------------------
(* signalfd() and the program that reads *)

Runs(p, at) == sig_pc[p] = at /\ frames[p] = <<>>

\* O_CREAT: a file of that name is opened, whoever made it.
Open(p) ==
    /\ Runs(p, "open")
    /\ IF name = NoFile
       THEN /\ file' = Append(file, <<>>)
            /\ name' = Len(file) + 1
            /\ signal_fd' = [signal_fd EXCEPT ![p] = Len(file) + 1]
       ELSE /\ signal_fd' = [signal_fd EXCEPT ![p] = name]
            /\ UNCHANGED <<file, name>>
    /\ sig_pc' = [sig_pc EXCEPT ![p] = "unlink"]
    /\ UNCHANGED <<offset, handled, pending, kills, frames>>

OpenFails(p) ==
    /\ Runs(p, "open")
    /\ sig_pc' = [sig_pc EXCEPT ![p] = "failed"]
    /\ UNCHANGED <<file, name, signal_fd, offset, handled, pending, kills, frames>>

Unlink(p) ==
    /\ Runs(p, "unlink")
    /\ name' = NoFile
    /\ sig_pc' = [sig_pc EXCEPT ![p] = "install"]
    /\ UNCHANGED <<file, signal_fd, offset, handled, pending, kills, frames>>

Install(p) ==
    /\ Runs(p, "install")
    /\ handled' = [handled EXCEPT ![p] = @ + 1]
    /\ sig_pc' = [sig_pc EXCEPT ![p] = IF handled[p] + 1 = MaxSig THEN "main" ELSE @]
    /\ UNCHANGED <<file, name, signal_fd, offset, pending, kills, frames>>

\* At the end of the file a read returns nothing and changes nothing.
Read(p) ==
    /\ Runs(p, "main") /\ offset[p] < Len(Contents(p))
    /\ offset' = [offset EXCEPT ![p] = @ + 1]
    /\ UNCHANGED <<sig_pc, file, name, signal_fd, handled, pending, kills, frames>>

----------------------------------------------------------------------------
(* Signals.  One that is pending already is not queued again. *)

SendSignal(p, s) ==
    /\ sig_pc[p] \notin {"failed", "dead"} /\ kills[p] < MaxKills
    /\ kills' = [kills EXCEPT ![p] = @ + 1]
    /\ pending' = [pending EXCEPT ![p] = @ \cup {s}]
    /\ UNCHANGED <<sig_pc, file, name, signal_fd, offset, handled, frames>>

\* Mutant: a handler blocks only its own signal (sigemptyset).
BlockedOnlyOwn(p) == {frames[p][i].sig : i \in DOMAIN frames[p]}

\* sigfillset: while a handler runs all signals wait.
Blocked(p) == IF frames[p] = <<>> THEN {} ELSE Sig

\* The kernel delivers the lowest one first.  A signal without the handler
\* ends the process.
Deliver(p) ==
    /\ pending[p] \ Blocked(p) # {}
    /\ LET s == Min(pending[p] \ Blocked(p)) IN
       /\ pending' = [pending EXCEPT ![p] = @ \ {s}]
       /\ IF s <= handled[p]
          THEN /\ frames' = [frames EXCEPT ![p] =
                                Append(@, [sig |-> s, at |-> "get", back |-> 0])]
               /\ UNCHANGED sig_pc
          ELSE /\ sig_pc' = [sig_pc EXCEPT ![p] = "dead"]
               /\ UNCHANGED frames
    /\ UNCHANGED <<file, name, signal_fd, offset, handled, kills>>

----------------------------------------------------------------------------
(* signalfd_action *)

Frame(p) == Last(frames[p])
InHandler(p, at) == frames[p] # <<>> /\ Frame(p).at = at
SetFrame(p, f) == frames' = [frames EXCEPT ![p][Len(frames[p])] = f]

GetOffset(p) ==
    /\ InHandler(p, "get")
    /\ SetFrame(p, [Frame(p) EXCEPT !.at = "end", !.back = offset[p]])
    /\ UNCHANGED <<sig_pc, file, name, signal_fd, offset, handled, pending, kills>>

\* Mutant: the handler writes where the program reads.
SeekNowhere(p) ==
    /\ InHandler(p, "end")
    /\ SetFrame(p, [Frame(p) EXCEPT !.at = "write"])
    /\ UNCHANGED <<sig_pc, file, name, signal_fd, offset, handled, pending, kills>>

SeekEnd(p) ==
    /\ InHandler(p, "end")
    /\ offset' = [offset EXCEPT ![p] = Len(Contents(p))]
    /\ SetFrame(p, [Frame(p) EXCEPT !.at = "write"])
    /\ UNCHANGED <<sig_pc, file, name, signal_fd, handled, pending, kills>>

\* The number goes where the offset is; without space nothing happens.
Write(p) ==
    /\ InHandler(p, "write")
    /\ IF offset[p] < Room
       THEN /\ file' = [file EXCEPT ![signal_fd[p]] =
                    IF offset[p] < Len(@)
                    THEN [@ EXCEPT ![offset[p] + 1] = <<p, Frame(p).sig>>]
                    ELSE Append(@, <<p, Frame(p).sig>>)]
            /\ offset' = [offset EXCEPT ![p] = @ + 1]
       ELSE UNCHANGED <<file, offset>>
    /\ SetFrame(p, [Frame(p) EXCEPT !.at = "set"])
    /\ UNCHANGED <<sig_pc, name, signal_fd, handled, pending, kills>>

SetOffset(p) ==
    /\ InHandler(p, "set")
    /\ offset' = [offset EXCEPT ![p] = Frame(p).back]
    /\ frames' = [frames EXCEPT ![p] = Front(@)]
    /\ UNCHANGED <<sig_pc, file, name, signal_fd, handled, pending, kills>>

----------------------------------------------------------------------------

Program(p) == Open(p) \/ OpenFails(p) \/ Unlink(p) \/ Install(p) \/ Read(p)
Handler(p) == GetOffset(p) \/ SeekEnd(p) \/ Write(p) \/ SetOffset(p)
Signal(p)  == Deliver(p) \/ \E s \in Sig : SendSignal(p, s)

SigNext == \E p \in Proc : sig_pc[p] # "dead" /\ (Program(p) \/ Handler(p) \/ Signal(p))

----------------------------------------------------------------------------
(* Properties *)

\* The signals of a process alone in the directory are read in the order in
\* which they came and each once (README.md:5), although handler and reader
\* move the same offset: what the program reads next is the offset, or the
\* one the running handler will put back.
Log == INSTANCE SignalLog WITH
    log  <- [p \in Proc |->
               IF signal_fd[p] = NoFile THEN <<>>
               ELSE [i \in DOMAIN Contents(p) |-> Contents(p)[i][2]]],
    next <- [p \in Proc |->
               IF frames[p] = <<>> \/ Head(frames[p]).at = "get" THEN offset[p]
               ELSE Head(frames[p]).back]

ReadInOrder == Log!LSpec

\* A signal that is sent to a process that came out of signalfd() does not end
\* it (signalfd.c:46-50) and is read in the end: its number comes after
\* the n that are in the file, before the offset, unless the file system was
\* full and all that fitted has been read.
EverySignalRead ==
    \A p \in Proc, s \in Sig, n \in 0 .. Room :
        (/\ sig_pc[p] = "main" /\ s \in pending[p]
         /\ Len(Contents(p)) = n) ~>
        (/\ frames[p] = <<>>
         /\ \/ \E i \in n + 1 .. offset[p] : Contents(p)[i] = <<p, s>>
            \/ offset[p] = Room)
=============================================================================
