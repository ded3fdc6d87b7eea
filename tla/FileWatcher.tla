---------------------------- MODULE FileWatcher ----------------------------
(***************************************************************************)
(* 08-interprocess-communication/tasks/file-watcher/main.c: a tracer that  *)
(* stops a program at its system calls and counts what it writes to each   *)
(* file.                                                                   *)
(*                                                                         *)
(* The program stops when it enters a call, when it leaves it and when a   *)
(* signal comes; the tracer tells the first two from the third, but not    *)
(* from one another: it relies on their coming in pairs.  A file name is a *)
(* sequence of letters: readlink puts it into a buffer without an end      *)
(* mark, over what was there.                                              *)
(***************************************************************************)
EXTENDS Integers, Sequences, SequencesExt

CONSTANTS Name,        \* names of the files the program writes to
          Stack,       \* what file_path holds before it is used
          MaxSize,     \* bound on the size of a write
          MaxCalls,    \* bound on the calls of the program
          MaxSignals   \* bound on the signals it gets

ASSUME FileWatcherAssumption ==
    /\ <<>> \notin Name
    /\ MaxSize \in Nat /\ MaxCalls \in Nat /\ MaxSignals \in Nat

NotOpen == <<>>   \* what a descriptor that is not open refers to

Call == [kind : {"write"}, name : Name \cup {NotOpen}, size : 0 .. MaxSize]
        \cup [kind : {"other", "exit"}]

VARIABLES pc,        \* where the tracer is
          status,    \* child_status
          counters,  \* the list, newest first
          file_path, \* the buffer
          tracee,    \* what the program is doing
          call,      \* the call it is in, or was in last
          again,     \* a call that was interrupted will be restarted
          calls, signals,   \* how many there were
          written,   \* history: what the kernel wrote to each file
          regular    \* history: no write was short, failed or restarted

tracer  == <<pc, status, counters, file_path>>
program == <<tracee, call, again, calls, signals, written, regular>>
vars    == <<tracer, program>>

Stops == {"at_entry", "at_exit", "at_signal"}
Ended == {"exited", "killed"}

Init == /\ pc = "first" /\ status = "none" /\ counters = <<>>
        /\ file_path = Stack
        /\ tracee = "starting" /\ call = [kind |-> "other"]
        /\ again = "no" /\ calls = 0 /\ signals = 0
        /\ written = [n \in Name |-> 0] /\ regular = TRUE

----------------------------------------------------------------------------
(* The program and the kernel *)

\* execvp ends in a stop, or fails and the child exits.
Start ==
    /\ tracee = "starting"
    /\ tracee' \in {"at_signal", "exited"}
    /\ UNCHANGED <<tracer, call, again, calls, signals, written, regular>>

\* A call, the last one is exit.
Enter ==
    /\ tracee = "user" /\ again = "no"
    /\ call' \in IF calls < MaxCalls THEN Call ELSE {[kind |-> "exit"]}
    /\ calls' = calls + 1
    /\ tracee' = "at_entry"
    /\ UNCHANGED <<tracer, again, signals, written, regular>>

\* An interrupted call is entered again after the signal.
Reenter ==
    /\ tracee = "user" /\ again = "enter"
    /\ again' = "no"
    /\ tracee' = "at_entry"
    /\ UNCHANGED <<tracer, call, calls, signals, written, regular>>

\* The kernel executes the call; a write may be short.
Execute ==
    /\ tracee = "kernel"
    /\ CASE call.kind = "exit" ->
              tracee' = "exited" /\ UNCHANGED <<written, regular>>
         [] call.kind = "other" ->
              tracee' = "at_exit" /\ UNCHANGED <<written, regular>>
         [] call.kind = "write" ->
              /\ tracee' = "at_exit"
              /\ \E n \in 0 .. call.size :
                    /\ written' = [written EXCEPT ![call.name] = @ + n]
                    /\ regular' = (regular /\ n = call.size)
    /\ UNCHANGED <<tracer, call, again, calls, signals>>

\* A signal interrupts a write that waits; the tracer suppresses the signal
\* and the kernel restarts the call.
Interrupt ==
    /\ tracee = "kernel" /\ call.kind = "write" /\ signals < MaxSignals
    /\ signals' = signals + 1
    /\ tracee' = "at_exit" /\ again' = "signal" /\ regular' = FALSE
    /\ UNCHANGED <<tracer, call, calls, written>>

SignalStop ==
    /\ tracee = "user"
    /\ \/ /\ again = "signal" /\ again' = "enter"
          /\ UNCHANGED signals
       \/ /\ again = "no" /\ signals < MaxSignals
          /\ signals' = signals + 1
          /\ UNCHANGED again
    /\ tracee' = "at_signal"
    /\ UNCHANGED <<tracer, call, calls, written, regular>>

\* SIGKILL at any moment
Kill ==
    /\ tracee \notin Ended \cup {"starting", "reaped"} /\ signals < MaxSignals
    /\ signals' = signals + 1
    /\ tracee' = "killed"
    /\ UNCHANGED <<tracer, call, again, calls, written, regular>>

----------------------------------------------------------------------------
(* The tracer *)

\* PTRACE_SYSCALL: the program runs on from its stop; a signal it stopped for
\* is suppressed.  There is nothing to resume in one that has ended.
Resume(next) ==
    /\ tracee' = CASE tracee = "at_entry" -> "kernel"
                   [] tracee \in {"at_exit", "at_signal"} -> "user"
                   [] OTHER -> tracee
    /\ pc' = next
    /\ UNCHANGED <<status, counters, file_path, call, again, calls, signals,
                   written, regular>>

StatusOfTracee == CASE tracee \in {"at_entry", "at_exit"} -> "syscall"
                    [] tracee = "at_signal" -> "signal"
                    [] tracee \in Ended -> tracee
                    [] tracee = "reaped" -> status

Waited == tracee \in Stops \cup Ended \cup {"reaped"}

\* waitpid: the status of a stop, or of the end, which it tells once; after
\* that it fails and leaves the status as it is.
WaitStatus == /\ Waited
              /\ status' = StatusOfTracee
              /\ tracee' = IF tracee \in Ended THEN "reaped" ELSE tracee
              /\ UNCHANGED <<call, again, calls, signals, written, regular>>

FirstWait ==
    /\ pc = "first" /\ WaitStatus
    /\ pc' = "loop"
    /\ UNCHANGED <<counters, file_path>>

Loop == pc = "loop" /\ status # "exited" /\ Resume("wait")

\* Mutant: every stop is taken for a system call.
WaitAnyStop ==
    /\ pc = "wait" /\ WaitStatus
    /\ pc' = IF status' \in {"syscall", "signal"} THEN "inspect" ELSE "loop"
    /\ UNCHANGED <<counters, file_path>>

\* waitpid and the test of the status.  After the program was killed there is
\* nothing to wait for and the loop goes round for ever.
Wait ==
    /\ pc = "wait" /\ WaitStatus
    /\ pc' = IF status' = "syscall" THEN "inspect" ELSE "loop"
    /\ UNCHANGED <<counters, file_path>>

Place(name) == SelectInSeq(counters, LAMBDA c : c.filename = name)

increment(name, value) ==
    counters' = IF Place(name) = 0
                THEN <<[filename |-> name, counter |-> value]>> \o counters
                ELSE [counters EXCEPT ![Place(name)].counter = @ + value]

\* readlink writes no end mark.
OverBuffer(name) == name \o SubSeq(file_path, Len(name) + 1, Len(file_path))

\* Only writes are counted, with the size that was asked for.
InspectWrite ==
    /\ pc = "inspect" /\ tracee # "killed"
    /\ call.kind = "write" /\ call.name # NotOpen
    /\ file_path' = OverBuffer(call.name)
    /\ increment(file_path', call.size)
    /\ pc' = "resume"
    /\ UNCHANGED <<status, program>>

InspectOther ==
    /\ pc = "inspect" /\ call.kind # "write"
    /\ pc' = "resume"
    /\ UNCHANGED <<status, counters, file_path, program>>

\* Without the descriptor in /proc the tracer gives up and prints nothing.
InspectFails ==
    /\ pc = "inspect" /\ call.kind = "write"
    /\ call.name = NotOpen \/ tracee = "killed"
    /\ pc' = "failed"
    /\ UNCHANGED <<status, counters, file_path, program>>

\* The registers of a program killed at its stop cannot be read: they hold
\* what was there before, which may not be a write.
InspectKilled ==
    /\ pc = "inspect" /\ tracee = "killed"
    /\ pc' \in {"resume", "failed"}
    /\ UNCHANGED <<status, counters, file_path, program>>

\* Mutant: the stop at the end of the call is not skipped.
SkipNothing == /\ pc = "resume" /\ pc' = "loop"
               /\ UNCHANGED <<status, counters, file_path, program>>

ResumeCall == pc = "resume" /\ Resume("skip")

\* Mutant: the status of that stop is thrown away.
SkipExitBlind ==
    /\ pc = "skip" /\ Waited
    /\ tracee' = IF tracee \in Ended THEN "reaped" ELSE tracee
    /\ pc' = "loop"
    /\ UNCHANGED <<status, counters, file_path, call, again, calls, signals,
                   written, regular>>

\* The stop at the end of the call is waited for and not looked at.
SkipExit ==
    /\ pc = "skip" /\ WaitStatus
    /\ pc' = "loop"
    /\ UNCHANGED <<counters, file_path>>

\* What print says of a file, which has no line while nothing was written to it.
Counted(name) == IF Place(name) = 0 THEN 0 ELSE counters[Place(name)].counter

PrintCounters ==
    /\ pc = "loop" /\ status = "exited"
    /\ pc' = "printed"
    /\ UNCHANGED <<status, counters, file_path, program>>

----------------------------------------------------------------------------

Tracer == FirstWait \/ Loop \/ Wait \/ InspectWrite \/ InspectOther \/ InspectFails
          \/ InspectKilled \/ ResumeCall \/ SkipExit \/ PrintCounters

Tracee == Start \/ Enter \/ Reenter \/ Execute \/ Interrupt \/ SignalStop \/ Kill

Terminated == pc \in {"printed", "failed"} /\ UNCHANGED vars

Next == Tracer \/ Tracee \/ Terminated

----------------------------------------------------------------------------
(* Properties *)

\* Every variable stays in its type, and no file has two counters.
TypeOK ==
    /\ pc \in {"first", "loop", "wait", "inspect", "resume", "skip", "printed", "failed"}
    /\ status \in {"none", "syscall", "signal", "exited", "killed"}
    /\ \A i \in DOMAIN counters : counters[i].counter \in Nat
    /\ \A i, j \in DOMAIN counters :
          counters[i].filename = counters[j].filename => i = j
    /\ tracee \in {"starting", "user", "kernel", "reaped"} \cup Stops \cup Ended
    /\ call \in Call /\ again \in {"no", "signal", "enter"}
    /\ calls \in 0 .. MaxCalls + 1 /\ signals \in 0 .. MaxSignals
    /\ written \in [Name -> Nat] /\ regular \in BOOLEAN

\* The printed counters are what was written to each file (README.md:5), for
\* a program whose writes are neither short nor failed nor restarted.  However
\* writes are cut short, interrupted and restarted between signals, no counter
\* is less than what was written to its file, and no file has two.
CountsRight ==
    /\ TypeOK
    /\ pc = "printed" => \A n \in Name :
          Counted(n) = written[n] \/ (~ regular /\ Counted(n) > written[n])

\* The tracer looks at a call when it is entered and never when it is left,
\* whatever signals stop the program in between.
LooksAtEntry == pc = "inspect" => tracee \in {"at_entry", "killed"}

\* When the program has exited, the counters are printed, unless the tracer
\* gave up.
PrintsAtExit == tracee = "exited" ~> pc \in {"printed", "failed"}
=============================================================================
