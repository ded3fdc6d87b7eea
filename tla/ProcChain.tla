----------------------------- MODULE ProcChain -----------------------------
(***************************************************************************)
(* chainy.c of 06-processes/tasks/proc-chain: a shell pipeline.  The shell *)
(* cuts its argument into commands and their words (create_chain) and runs *)
(* them (run_chain).                                                       *)
(*                                                                         *)
(* To run them the shell (process 0) makes a pipe for every command, forks *)
(* the command and closes the ends it needs no more; command k reads pipe  *)
(* k - 1 and writes pipe k, and the shell reads the last one until end of  *)
(* file.  A read sees end of file only when NO process has the write end   *)
(* open, and a write kills its process when none has the read end open, so *)
(* what matters is which process closes which descriptor and when.         *)
(*                                                                         *)
(* The commands are programs outside the repository; four kinds stand for  *)
(* them: one that writes, one that copies, one that stops reading early    *)
(* (the `grep -q' of tester.py) and one that does not exist.               *)
(***************************************************************************)
EXTENDS Integers, Sequences, SequencesExt

CONSTANTS MAX_CHAIN_LINKS_COUNT,   \* bound on the commands of a chain
          MAX_ARGS_COUNT,          \* pointers argv has space for
          Texts,                   \* arguments of the program
          Items,                   \* what a writing command writes, in order
          Capacity                 \* how much a pipe holds

ASSUME ProcChainAssumption == /\ MAX_CHAIN_LINKS_COUNT \in Nat
                              /\ Items \in Seq(Nat)
                              /\ Capacity \in Nat \ {0}

\* A text is a sequence of words, " " and "|"; words are apart.  argv is never
\* filled.  A command of MAX_ARGS_COUNT words or more would write its last
\* arguments and the final NULL into the next link, whose command and argc
\* create_chain then sets: the first argv would have no end (chainy.c:63-75).
ASSUME TextsFit ==
    \A t \in Texts : \A i, j \in DOMAIN t :
        (\A k \in i .. j : t[k] # "|") =>
        Cardinality({k \in i .. j : t[k] # " "}) < MAX_ARGS_COUNT

Kind == {"writer", "copier", "taker", "missing"}
Argument == Kind \cup {"arg"}

VARIABLES text,    \* the argument
          tokens,  \* what strtok_r has still to cut: of the text, of a command
          chain,   \* argv of each command
          link,    \* the link run_chain is at
          at,      \* where each process is
          fd,      \* what the descriptors of each process refer to
          pipe,    \* contents of each pipe
          left,    \* what each command has still to write
          out,     \* what the shell wrote to its standard output
          failed   \* history: the links that could not be forked, or 0 for
                   \* a pipe that could not be made

chainVars == <<text, tokens, chain, link, at, fd, pipe, left, out, failed>>

Link  == 1 .. MAX_CHAIN_LINKS_COUNT
Shell == 0
Process == {Shell} \cup Link

\* The descriptors run_chain names.  The standard input and output of the
\* shell are not pipes of the chain.
Slot   == {"in", "out", "prev0", "prev1", "curr0", "curr1"}
Closed == <<0, "closed">>
ReadEnd(k)  == <<k, "read">>
WriteEnd(k) == <<k, "write">>
NoFds  == [s \in Slot |-> Closed]

HasOpen(p, end) == \E s \in Slot : fd[p][s] = end
Readers(k) == {p \in Process : HasOpen(p, ReadEnd(k))}
Writers(k) == {p \in Process : HasOpen(p, WriteEnd(k))}

\* Without words argv and command are not set, and execvp fails on them.
Command(p) == IF chain[p] = <<>> THEN "missing" ELSE chain[p][1]

ChainInit == /\ text \in Texts
             /\ tokens = [text |-> text, command |-> <<>>]
             /\ chain = <<>>
             /\ link = 1
             /\ at = [p \in Process |-> IF p = Shell THEN "command" ELSE "unborn"]
             /\ fd = [p \in Process |-> NoFds]
             /\ pipe = [k \in Link |-> <<>>]
             /\ left = [p \in Link |-> <<>>]
             /\ out = <<>>
             /\ failed = {}

\* Process p ends; the kernel closes what it had open.
End(p) == /\ fd' = [fd EXCEPT ![p] = NoFds]
          /\ at' = [at EXCEPT ![p] = "done"]

----------------------------------------------------------------------------
(* create_chain *)

\* strtok_r: separators before a token are skipped, the one behind it is cut.
Skipped(s, c) == LET i == SelectInSeq(s, LAMBDA w : w # c)
                 IN  IF i = 0 THEN <<>> ELSE SubSeq(s, i, Len(s))
Token(s, c)   == LET i == SelectInSeq(Skipped(s, c), LAMBDA w : w = c)
                 IN  IF i = 0 THEN Skipped(s, c) ELSE SubSeq(Skipped(s, c), 1, i - 1)
Rest(s, c)    == SubSeq(Skipped(s, c), Len(Token(s, c)) + 2, Len(Skipped(s, c)))

NextCommand ==
    /\ at[Shell] = "command"
    /\ IF Token(tokens.text, "|") = <<>>
       THEN /\ at' = [at EXCEPT ![Shell] = "pipe"]
            /\ UNCHANGED <<tokens, chain>>
       ELSE /\ at' = [at EXCEPT ![Shell] = "argument"]
            /\ tokens' = [text    |-> Rest(tokens.text, "|"),
                          command |-> Token(tokens.text, "|")]
            /\ chain' = Append(chain, <<>>)
    /\ UNCHANGED <<text, link, fd, pipe, left, out, failed>>

\* command and argv[0] are the first word, argv ends with NULL (TextsFit).
NextArgument ==
    /\ at[Shell] = "argument"
    /\ IF Token(tokens.command, " ") = <<>>
       THEN /\ at' = [at EXCEPT ![Shell] = "command"]
            /\ UNCHANGED <<tokens, chain>>
       ELSE /\ chain' = [chain EXCEPT ![Len(chain)] = @ \o Token(tokens.command, " ")]
            /\ tokens' = [tokens EXCEPT !.command = Rest(@, " ")]
            /\ UNCHANGED at
    /\ UNCHANGED <<text, link, fd, pipe, left, out, failed>>

----------------------------------------------------------------------------
(* run_chain in the shell *)

\* pipe(curr_pipe), after the last one became prev_pipe (:117).
MakePipe ==
    /\ at[Shell] = "pipe" /\ link <= Len(chain)
    /\ fd' = [fd EXCEPT ![Shell] =
                [@ EXCEPT !["prev0"] = fd[Shell]["curr0"],
                          !["prev1"] = fd[Shell]["curr1"],
                          !["curr0"] = ReadEnd(link),
                          !["curr1"] = WriteEnd(link)]]
    /\ at' = [at EXCEPT ![Shell] = "fork"]
    /\ UNCHANGED <<chain, link, pipe, left, out, failed>>

PipeFails ==
    /\ at[Shell] = "pipe" /\ link <= Len(chain)
    /\ End(Shell)
    /\ failed' = failed \cup {0}
    /\ UNCHANGED <<chain, link, pipe, left, out>>

\* The child has a copy of every descriptor.
Fork ==
    /\ at[Shell] = "fork"
    /\ fd' = [fd EXCEPT ![link] = fd[Shell]]
    /\ at' = [at EXCEPT ![Shell] = "close", ![link] = "stdin"]
    /\ UNCHANGED <<chain, link, pipe, left, out, failed>>

\* A failed fork is not noticed: the shell goes on without the child.
ForkFails ==
    /\ at[Shell] = "fork"
    /\ at' = [at EXCEPT ![Shell] = "close"]
    /\ failed' = failed \cup {link}
    /\ UNCHANGED <<chain, link, fd, pipe, left, out>>

ClosePrev ==
    /\ at[Shell] = "close"
    /\ fd' = [fd EXCEPT ![Shell] = [@ EXCEPT !["prev0"] = Closed,
                                             !["prev1"] = Closed]]
    /\ link' = link + 1
    /\ at' = [at EXCEPT ![Shell] = "pipe"]
    /\ UNCHANGED <<chain, pipe, left, out, failed>>

CloseWriteEnd ==
    /\ at[Shell] = "pipe" /\ link > Len(chain)
    /\ fd' = [fd EXCEPT ![Shell]["curr1"] = Closed]
    /\ at' = [at EXCEPT ![Shell] = "read"]
    /\ UNCHANGED <<chain, link, pipe, left, out, failed>>

\* Mutant: the whole buffer is written, not the bytes that were read.
ShellWritesBuffer ==
    /\ at[Shell] = "read"
    /\ Len(chain) > 0 /\ pipe[Len(chain)] # <<>>
    /\ \E n \in 1 .. Len(pipe[Len(chain)]) :
          /\ out' = out \o SubSeq(pipe[Len(chain)], 1, n) \o out
          /\ pipe' = [pipe EXCEPT ![Len(chain)] = SubSeq(@, n + 1, Len(@))]
    /\ UNCHANGED <<chain, link, at, fd, left, failed>>

\* One turn of the loop: some of what the pipe holds is read and written out.
ShellReads ==
    /\ at[Shell] = "read"
    /\ Len(chain) > 0 /\ pipe[Len(chain)] # <<>>
    /\ \E n \in 1 .. Len(pipe[Len(chain)]) :
          /\ out' = out \o SubSeq(pipe[Len(chain)], 1, n)
          /\ pipe' = [pipe EXCEPT ![Len(chain)] = SubSeq(@, n + 1, Len(@))]
    /\ UNCHANGED <<chain, link, at, fd, left, failed>>

\* End of file, or a chain without commands (read of descriptor -1 fails):
\* the shell closes and returns.
ShellEnds ==
    /\ at[Shell] = "read"
    /\ Len(chain) > 0 => pipe[Len(chain)] = <<>> /\ Writers(Len(chain)) = {}
    /\ End(Shell)
    /\ UNCHANGED <<chain, link, pipe, left, out, failed>>

----------------------------------------------------------------------------
(* A child between fork and exec *)

\* Mutant: the child keeps the write end of the pipe it reads.
ChildKeepsPrevWrite(p) ==
    /\ at[p] = "stdin"
    /\ fd' = [fd EXCEPT ![p]["in"] = fd[p]["prev0"]]
    /\ at' = [at EXCEPT ![p] = "stdout"]
    /\ UNCHANGED <<chain, link, pipe, left, out, failed>>

\* The first link has no previous pipe and keeps the shell's input.
ChildStdin(p) ==
    /\ at[p] = "stdin"
    /\ fd' = [fd EXCEPT ![p] = [@ EXCEPT !["prev1"] = Closed,
                                         !["in"] = fd[p]["prev0"]]]
    /\ at' = [at EXCEPT ![p] = "stdout"]
    /\ UNCHANGED <<chain, link, pipe, left, out, failed>>

\* Mutant: the child keeps the read end of the pipe it writes.
ChildKeepsCurrRead(p) ==
    /\ at[p] = "stdout"
    /\ fd' = [fd EXCEPT ![p]["out"] = fd[p]["curr1"]]
    /\ at' = [at EXCEPT ![p] = "exec"]
    /\ UNCHANGED <<chain, link, pipe, left, out, failed>>

ChildStdout(p) ==
    /\ at[p] = "stdout"
    /\ fd' = [fd EXCEPT ![p] = [@ EXCEPT !["curr0"] = Closed,
                                         !["out"] = fd[p]["curr1"]]]
    /\ at' = [at EXCEPT ![p] = "exec"]
    /\ UNCHANGED <<chain, link, pipe, left, out, failed>>

\* execvp keeps all descriptors open, prev0 and curr1 too.  It fails for a
\* command that does not exist.
Exec(p) ==
    /\ at[p] = "exec"
    /\ IF Command(p) = "missing"
       THEN End(p) /\ UNCHANGED left
       ELSE /\ at' = [at EXCEPT ![p] = "run"]
            /\ left' = [left EXCEPT ![p] =
                          IF Command(p) = "writer" THEN Items ELSE <<>>]
            /\ UNCHANGED fd
    /\ UNCHANGED <<chain, link, pipe, out, failed>>

----------------------------------------------------------------------------
(* The commands.  Pipe p is the output of command p, pipe p - 1 its input. *)

Reads(p) == Command(p) \in {"copier", "taker"} /\ left[p] = <<>>

\* The input of the first command is the shell's, and empty.
AtEof(p) == p > 1 => pipe[p - 1] = <<>> /\ Writers(p - 1) = {}

ReadPipe(p) ==
    /\ at[p] = "run" /\ Reads(p) /\ p > 1 /\ pipe[p - 1] # <<>>
    /\ left' = [left EXCEPT ![p] = <<Head(pipe[p - 1])>>]
    /\ pipe' = [pipe EXCEPT ![p - 1] = Tail(@)]
    /\ at' = [at EXCEPT ![p] = IF Command(p) = "taker" THEN "last" ELSE "run"]
    /\ UNCHANGED <<chain, link, fd, out, failed>>

WritePipe(p) ==
    /\ at[p] \in {"run", "last"} /\ left[p] # <<>>
    /\ Readers(p) # {} /\ Len(pipe[p]) < Capacity
    /\ pipe' = [pipe EXCEPT ![p] = Append(@, Head(left[p]))]
    /\ left' = [left EXCEPT ![p] = Tail(@)]
    /\ UNCHANGED <<chain, link, at, fd, out, failed>>

\* A write to a pipe nobody can read: SIGPIPE.
BrokenPipe(p) ==
    /\ at[p] \in {"run", "last"} /\ left[p] # <<>>
    /\ Readers(p) = {}
    /\ End(p)
    /\ UNCHANGED <<chain, link, pipe, left, out, failed>>

Exit(p) ==
    /\ left[p] = <<>>
    /\ \/ at[p] = "run" /\ Command(p) = "writer"
       \/ at[p] = "run" /\ Reads(p) /\ AtEof(p)
       \/ at[p] = "last"
    /\ End(p)
    /\ UNCHANGED <<chain, link, pipe, left, out, failed>>

----------------------------------------------------------------------------

RunChain == \/ MakePipe \/ PipeFails \/ Fork \/ ForkFails \/ ClosePrev
            \/ CloseWriteEnd \/ ShellReads \/ ShellEnds

ShellStep == \/ NextCommand \/ NextArgument
             \/ RunChain /\ UNCHANGED <<text, tokens>>

ChildStep(p) == /\ \/ ChildStdin(p) \/ ChildStdout(p) \/ Exec(p)
                   \/ ReadPipe(p) \/ WritePipe(p) \/ BrokenPipe(p) \/ Exit(p)
                /\ UNCHANGED <<text, tokens>>

AllDone == \A p \in Process : at[p] \in {"done", "unborn"}

\* The end of everything, so that any other state without a step is a
\* deadlock of the pipeline.
ChainEnded == at[Shell] = "done" /\ AllDone /\ UNCHANGED chainVars

ChainNext == \/ ShellStep
             \/ (\E p \in Link : ChildStep(p))
             \/ ChainEnded

----------------------------------------------------------------------------
(* Properties *)

\* Every variable stays in its type, and a pipe within its capacity.
ChainTypeOK ==
    /\ chain \in Seq(Seq(Argument)) /\ link \in 1 .. Len(chain) + 1
    /\ at \in [Process -> {"unborn", "command", "argument", "pipe", "fork", "close", "read",
                        "stdin", "stdout", "exec", "run", "last", "done"}]
    /\ fd \in [Process -> [Slot -> {Closed} \cup (Link \X {"read", "write"})]]
    /\ \A k \in Link : Len(pipe[k]) \in 0 .. Capacity
    /\ left \in [Link -> Seq(Nat)]
    /\ out \in Seq(Nat)
    /\ failed \in SUBSET Process

\* The commands that a text asks for, and whether the last one goes on, element
\* by element: a "|" ends a command, anything else begins one or goes on with
\* it, and " " is no word of it.
Begun(r) == IF r.open THEN r.chain ELSE Append(r.chain, <<>>)
Asks(r, w) ==
    CASE w = "|" -> [r EXCEPT !.open = FALSE]
      [] w = " " -> [chain |-> Begun(r), open |-> TRUE]
      [] OTHER   -> [chain |-> [Begun(r) EXCEPT ![Len(Begun(r))] = Append(@, w)],
                     open  |-> TRUE]
AskedBy(s) ==
    LET after[i \in 0 .. Len(s)] ==
            IF i = 0 THEN [chain |-> <<>>, open |-> FALSE] ELSE Asks(after[i - 1], s[i])
    IN  after
Asked == AskedBy(text)[Len(text)].chain

\* What they print, one after the other: command k of what the one before it
\* printed.
Prints(command, input) ==
    IF command = <<>> THEN <<>>
    ELSE CASE command[1] = "writer" -> Items
           [] command[1] = "copier" -> input
           [] command[1] = "taker"  -> IF input = <<>> THEN <<>> ELSE <<Head(input)>>
           [] OTHER                 -> <<>>
Output == LET after[k \in 0 .. Len(Asked)] ==
                  IF k = 0 THEN <<>> ELSE Prints(Asked[k], after[k - 1])
          IN  after

\* The shell runs the commands of its argument with their words and prints
\* what they say, in order, nothing lost and nothing added, also when it does
\* not fit in a pipe (README.md:30) and when commands stop early; and only the
\* beginning of it while they run and when a fork or a pipe failed.
OutputRight ==
    /\ at[Shell] \notin {"command", "argument"} => chain = Asked
    /\ IsPrefix(out, Output[Len(Asked)])
    /\ failed = {} /\ at[Shell] = "done" => out = Output[Len(Asked)]

\* Once a command runs, only it and the commands being forked hold the write
\* end of its pipe, and it does not hold the end it reads from: so that its
\* readers see its end and it sees theirs.
EndsOwned ==
    /\ ChainTypeOK
    /\ \A p \in Link : at[p] \in {"run", "last"} =>
           /\ ~ HasOpen(p, ReadEnd(p))
           /\ p > 1 => ~ HasOpen(p, WriteEnd(p - 1))
           /\ \A q \in Link \ {p} : at[q] \in {"run", "last"} => q \notin Writers(p)
           /\ Shell \in Writers(p) => link \in {p, p + 1}

\* Once the shell has begun it returns and every command ends: no read waits
\* for an end of file that cannot come, no write for a reader that is gone.
EveryoneEnds == at[Shell] # "command" ~> (at[Shell] = "done" /\ AllDone)
=============================================================================
