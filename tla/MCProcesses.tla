---------------------------- MODULE MCProcesses -----------------------------
(***************************************************************************)
(* The shell of proc-chain and the tracer of file-watcher share a run:     *)
(* each behaviour is one of them, and the other stays as it is.            *)
(***************************************************************************)
EXTENDS ProcChain, FileWatcher

VARIABLE unit   \* the program that runs

processesVars == <<unit, chainVars, vars>>

ProcessesInit == /\ unit \in {"chain", "filewatcher"}
                 /\ IF unit = "chain" THEN TRUE ELSE text = <<>>
                 /\ ChainInit /\ Init

ProcessesNext == /\ \/ /\ unit = "chain" /\ ChainNext
                       /\ UNCHANGED vars
                    \/ /\ unit = "filewatcher" /\ Next
                       /\ UNCHANGED chainVars
                 /\ UNCHANGED unit

\* The shell and each of its commands run when they can.
ChainFair == /\ WF_chainVars(unit = "chain" /\ ShellStep)
             /\ \A p \in Link : WF_chainVars(unit = "chain" /\ ChildStep(p))

\* The tracer and the program both run when they can.
WatcherFair == /\ WF_vars(unit = "filewatcher" /\ Tracer)
               /\ WF_vars(unit = "filewatcher" /\ Tracee)

ProcessesSpec == /\ ProcessesInit /\ [][ProcessesNext]_processesVars
                 /\ ChainFair /\ WatcherFair

----------------------------------------------------------------------------

TwoItems == <<1, 2>>

\* Every chain of up to three commands, some written with spaces and arguments,
\* and texts with separators that touch, stand first or last, or are alone.
Tight(c) == Tail(FoldLeft(LAMBDA t, k : t \o <<"|", k>>, <<>>, c))
Loose(c) == FoldLeft(LAMBDA t, k : t \o <<"|", " ", k, " ", " ", "arg">>, <<>>, c)
ManyTexts == {Tight(c) : c \in UNION {[1 .. n -> Kind] : n \in 1 .. 3}} \cup
             {Loose(<<k, "copier">>) : k \in Kind} \cup
             {<<>>, <<"|", " ", "|">>, <<"writer", "|", "|", "taker", " ", "|">>}

\* Names of one length, like those of file-watcher's test.py, on a clean stack.
TwoNames == {<<"a">>, <<"b">>}
Clean    == <<>>
=============================================================================
