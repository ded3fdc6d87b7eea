----------------------------- MODULE SignalLog -----------------------------
(***************************************************************************)
(* What the descriptor of userspace-signalfd promises (README.md:5 of      *)
(* 08-interprocess-communication/tasks/userspace-signalfd): signals are    *)
(* recorded one after the other and read in that order, each once.         *)
(***************************************************************************)
EXTENDS Naturals, Sequences

CONSTANTS Proc, Sig

VARIABLES log, next   \* what arrived at each process, and how much was read

LInit == log = [p \in Proc |-> <<>>] /\ next = [p \in Proc |-> 0]

Arrive(p) == \E s \in Sig : log' = [log EXCEPT ![p] = Append(@, s)] /\ UNCHANGED next

Take(p) == /\ next[p] < Len(log[p])
           /\ next' = [next EXCEPT ![p] = @ + 1]
           /\ UNCHANGED log

LSpec == LInit /\ [][\E p \in Proc : Arrive(p) \/ Take(p)]_<<log, next>>
=============================================================================
