-------------------------- MODULE MCFileAllocator --------------------------
(* Instances of FileAllocator for TLC. *)
EXTENDS FileAllocator, TLC

Symmetry == Permutations(Client)
=============================================================================
