-------------------------------- MODULE Lca ---------------------------------
(***************************************************************************)
(* find_lca of 06-processes/tasks/proc-lca/lca.c: the lowest common        *)
(* ancestor of two processes, from the parents /proc tells one at a time   *)
(* while processes may end.  The orphans of a process become children of   *)
(* process 1.                                                              *)
(***************************************************************************)
EXTENDS Integers, Sequences, SequencesExt, FiniteSetsExt

CONSTANTS MaxPid,    \* processes are 1 .. MaxPid, 1 is the root
          MaxExits   \* bound on the exits and reapings during the search

ASSUME LcaAssumption == MaxPid \in Nat \ {0} /\ MaxExits \in Nat

Pid    == 1 .. MaxPid
Kernel == 0     \* the parent of process 1
Gone   == -1    \* the parent of a process that has been reaped

VARIABLES parent,  \* the process tree
          lca      \* the local variables of find_lca, and a history of the search

\* Any tree, up to renaming: a parent has the smaller number.
Trees == {t \in [Pid -> 0 .. MaxPid] : \A p \in Pid : IF p = 1 THEN t[p] = Kernel
                                                       ELSE t[p] \in 1 .. p - 1}

AncestorsIn(t, p) ==
    LET up[n \in 0 .. MaxPid] == IF n = 0 THEN {p}
                                 ELSE up[n - 1] \cup {t[q] : q \in up[n - 1] \cap Pid}
    IN  up[MaxPid] \cap Pid

LcaInit ==
        /\ parent = [p \in Pid |-> IF p = 1 THEN Kernel ELSE 1]
        /\ lca = [pc |-> "start", x |-> 1, y |-> 1, at |-> Kernel,
                  x_parents |-> <<>>, y_parents |-> <<>>, result |-> Kernel,
                  aboveX |-> {}, aboveY |-> {}, exits |-> 0, torn |-> FALSE]

\* find_lca(x, y) in any tree.
Call == /\ lca.pc = "start"
        /\ parent' \in Trees
        /\ \E x, y \in Pid :
              lca' = [lca EXCEPT !.pc = "x", !.x = x, !.y = y, !.at = x,
                                 !.aboveX = AncestorsIn(parent', x),
                                 !.aboveY = AncestorsIn(parent', y)]

\* get_parent_pid opens the file in /proc, and reads it when it likes.  Without
\* the file fclose(NULL) ends find_lca badly; a file whose process has been
\* reaped since it was opened has no lines, and 0 is returned for the parent.
OpenStatus(opened) ==
    lca' = [lca EXCEPT !.pc = IF parent[lca.at] = Gone THEN "crashed" ELSE opened]
ParentRead(p) == IF parent[p] = Gone THEN Kernel ELSE parent[p]
Lost(p) == parent[p] = Gone

\* One turn of the first loop.
OpenX == /\ lca.pc = "x" /\ lca.at # Kernel
         /\ OpenStatus("read_x")
         /\ UNCHANGED parent

ReadX == /\ lca.pc = "read_x"
         /\ lca' = [lca EXCEPT !.pc = "x", !.x_parents = Append(@, lca.at),
                               !.at = ParentRead(lca.at),
                               !.torn = @ \/ Lost(lca.at)]
         /\ UNCHANGED parent

XDone == /\ lca.pc = "x" /\ lca.at = Kernel
         /\ lca' = [lca EXCEPT !.pc = "y", !.at = lca.y]
         /\ UNCHANGED parent

\* One turn of the second loop.
OpenY == /\ lca.pc = "y" /\ lca.at # Kernel
         /\ OpenStatus("read_y")
         /\ UNCHANGED parent

ReadY == /\ lca.pc = "read_y"
         /\ lca' = [lca EXCEPT !.pc = "y", !.y_parents = Append(@, lca.at),
                               !.at = ParentRead(lca.at),
                               !.torn = @ \/ Lost(lca.at)]
         /\ UNCHANGED parent

\* How far the two paths agree, from the root down.
Agree(xs, ys) == Max({n \in 0 .. Min({Len(xs), Len(ys)}) :
                        \A i \in 0 .. n - 1 : xs[Len(xs) - i] = ys[Len(ys) - i]})

\* Mutant: the paths are compared from the processes up.
CompareUpwards ==
    /\ lca.pc = "y" /\ lca.at = Kernel
    /\ LET xs == lca.x_parents  ys == lca.y_parents
           same == {i \in DOMAIN xs \cap DOMAIN ys : xs[i] = ys[i]} IN
       lca' = [lca EXCEPT !.pc = "done",
                          !.result = IF same = {} THEN 1 ELSE xs[Min(same)]]
    /\ UNCHANGED parent

\* Paths that agree nowhere leave x_traversal behind the last entry of
\* x_parents, where anything may be.
Compare ==
    /\ lca.pc = "y" /\ lca.at = Kernel
    /\ LET xs == lca.x_parents  n == Agree(xs, lca.y_parents) IN
       \E met \in IF n = 0 THEN Pid \cup {Kernel} ELSE {xs[Len(xs) - n + 1]} :
          lca' = [lca EXCEPT !.pc = "done", !.result = met]
    /\ UNCHANGED parent

\* A change of the tree: those above x and y now join those that were.
TreeChanges ==
    /\ lca.pc \in {"x", "read_x", "y", "read_y"} /\ lca.exits < MaxExits
    /\ lca' = [lca EXCEPT !.exits = @ + 1,
                          !.aboveX = @ \cup AncestorsIn(parent', lca.x),
                          !.aboveY = @ \cup AncestorsIn(parent', lca.y)]

\* A process other than the root ends at any moment of the search: its children
\* get a new parent, and its own file stays ...
ExitProcess(p) ==
    /\ p # 1 /\ p \in Range(parent)
    /\ parent' = [q \in Pid |-> IF parent[q] = p THEN 1 ELSE parent[q]]
    /\ TreeChanges

\* ... until it is reaped.
Reap(p) ==
    /\ p # 1 /\ parent[p] # Gone /\ p \notin Range(parent)
    /\ parent' = [q \in Pid |-> IF q = p THEN Gone ELSE parent[q]]
    /\ TreeChanges

LcaNext ==
    \/ Call \/ OpenX \/ ReadX \/ XDone \/ OpenY \/ ReadY \/ Compare
        \/ \E p \in Pid : ExitProcess(p) \/ Reap(p)

----------------------------------------------------------------------------
(* Properties *)

\* While no process ends, the answer is the lowest common ancestor
\* (README.md:6): a common one, and below all the others.  Also when processes
\* end between two looks at /proc, it has been an ancestor of both processes
\* during the search, unless one was reaped after its file was opened and
\* before it was read (lca.c:15, 18): then it may be anything.
Lowest ==
    lca.pc = "done" =>
        /\ lca.torn \/ lca.result \in lca.aboveX \cap lca.aboveY
        /\ lca.exits = 0 =>
             LET common == AncestorsIn(parent, lca.x) \cap AncestorsIn(parent, lca.y)
             IN  /\ lca.result \in common
                 /\ \A p \in common : p \in AncestorsIn(parent, lca.result)
=============================================================================
