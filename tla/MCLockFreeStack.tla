-------------------------- MODULE MCLockFreeStack --------------------------
(* Instances of LockFreeStack for TLC. *)
EXTENDS LockFreeStack, TLC

\* Threads and addresses are interchangeable.
Symmetry == Permutations(Thread) \cup Permutations(Addr)
=============================================================================
