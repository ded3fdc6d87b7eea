------------------------------ MODULE FsUtils -------------------------------
(***************************************************************************)
(* rm and mkdir of 02-files/tasks/fs-utils, one system call per step, on a *)
(* tree in which another process creates and removes entries meanwhile.    *)
(*                                                                         *)
(* A path is the sequence of its names.  The argument of mkdir also has    *)
(* its slashes, as "/".  Links lead nowhere; the calls fail for no other   *)
(* reason than what the tree holds.                                        *)
(***************************************************************************)
EXTENDS Integers, Sequences, SequencesExt, FiniteSets

CONSTANTS Path,        \* the paths there can be, with the paths above them
          Commands,    \* calls of the utilities: see cmd
          MaxTouched   \* bound on the entries the other process changes

\* The names in a text, its slashes left out.
Names(text) ==
    LET names[i \in 0 .. Len(text)] ==
            IF i = 0 THEN <<>>
            ELSE IF text[i] = "/" THEN names[i - 1]
            ELSE Append(names[i - 1], text[i])
    IN  names[Len(text)]

NonemptyPrefixes(p) == {SubSeq(p, 1, n) : n \in 1 .. Len(p)}

\* The commands name paths there can be: rm as they are, mkdir in a text, where
\* two names have a slash between them, and those above them with it.  The mode
\* of -m may be no mode.
ASSUME FsAssumption ==
    /\ Path \subseteq Seq(STRING) /\ <<>> \notin Path
    /\ \A p \in Path : Len(p) > 1 => Front(p) \in Path
    /\ \A c \in Commands :
          /\ c.util \in {"rm", "mkdir"} /\ c.flag \in BOOLEAN
          /\ c.args \in Seq(IF c.util = "rm" THEN Path ELSE Seq(STRING))
          /\ c.util = "mkdir" =>
                /\ c.mode \in {"dir", "moded", "invalid"}
                /\ \A i \in DOMAIN c.args :
                      /\ NonemptyPrefixes(Names(c.args[i])) \subseteq Path
                      /\ \A k \in 1 .. Len(c.args[i]) - 1 :
                            "/" \in {c.args[i][k], c.args[i][k + 1]}

Kind  == {"none", "file", "link", "dir", "moded"}
Above(p) == Front(p)
IsDir(k) == k \in {"dir", "moded"}
WellFormed(t) ==
    \A p \in Path : t[p] # "none" /\ Len(p) > 1 => IsDir(t[Above(p)])

VARIABLES tree,     \* what is at each path: "moded" is a directory made with
                    \* the mode of -m, "dir" one with RWE
          start,    \* the tree when the utility started
          touched,  \* paths the other process changed, each at most once
          cmd,      \* [util, flag (of -r or -p), mode (a kind), args]
          run       \* pc, argument i, path at work, position `at' of the slash
                    \* in it, open directories, exit code

fsVars == <<tree, start, touched, cmd, run>>

FsInit ==
    /\ cmd \in Commands
    /\ tree \in [Path -> {"none", "file", "dir"} \cup
                         IF cmd.util = "rm" THEN {"link"} ELSE {}]
    /\ WellFormed(tree)
    /\ start = tree /\ touched = {}
    /\ run = [pc |-> "arg", i |-> 1, path |-> <<>>, at |-> 0, dirs |-> <<>>, code |-> 0]

Children(p) == {q \in Path : Len(q) = Len(p) + 1 /\ IsPrefix(p, q) /\ tree[q] # "none"}

At(util, pc) == cmd.util = util /\ run.pc = pc
Goto(pc)     == run' = [run EXCEPT !.pc = pc]
Exits(code)  == run' = [run EXCEPT !.pc = "exit", !.code = code]
Argument     == cmd.args[run.i]
NoMore       == run.i > Len(cmd.args)
Keeps        == UNCHANGED <<tree, start, touched, cmd>>

----------------------------------------------------------------------------
(* rm.  Any failure, at whatever depth, ends the program with 1. *)

\* Without -r and without arguments it is used wrongly.
RmUsage ==
    /\ At("rm", "arg") /\ cmd.args = <<>> /\ ~ cmd.flag
    /\ Exits(1) /\ Keeps

RmNext ==
    /\ At("rm", "arg") /\ (cmd.args # <<>> \/ cmd.flag)
    /\ IF NoMore THEN Exits(0)
       ELSE run' = [run EXCEPT !.pc = "lstat", !.path = Argument]
    /\ Keeps

LstatArgument ==
    /\ At("rm", "lstat") /\ run.dirs = <<>>
    /\ CASE tree[run.path] = "none" -> Exits(1)
         [] IsDir(tree[run.path])   -> IF cmd.flag THEN Goto("opendir") ELSE Exits(1)
         [] OTHER                   -> Goto("remove")
    /\ Keeps

LstatEntry ==
    /\ At("rm", "lstat") /\ run.dirs # <<>>
    /\ CASE tree[run.path] = "none" -> Exits(1)
         [] IsDir(tree[run.path])   -> Goto("opendir")
         [] OTHER                   -> Goto("remove")
    /\ Keeps

RecursiveRemove ==
    /\ At("rm", "opendir")
    /\ IF IsDir(tree[run.path])
       THEN run' = [run EXCEPT !.pc = "readdir",
                      !.dirs = Append(@, [dir    |-> run.path, seen |-> {},
                                          listed |-> Children(run.path)])]
       ELSE Exits(1)
    /\ Keeps

\* Entries made after opendir may be seen or not.
ReadDir ==
    /\ At("rm", "readdir")
    /\ LET d == Last(run.dirs) IN
       \/ \E e \in (d.listed \cup Children(d.dir)) \ d.seen :
             run' = [run EXCEPT !.pc = "lstat", !.path = e,
                                !.dirs = Append(Front(@), [d EXCEPT !.seen = @ \cup {e}])]
       \/ /\ d.listed \subseteq d.seen
          /\ run' = [run EXCEPT !.pc = "rmdir", !.path = d.dir, !.dirs = Front(@)]
    /\ Keeps

Continue == run' = IF run.dirs = <<>> THEN [run EXCEPT !.pc = "arg", !.i = @ + 1]
                   ELSE [run EXCEPT !.pc = "readdir"]

\* Mutant: the result of rmdir is not looked at.
RmdirUnchecked ==
    /\ At("rm", "rmdir")
    /\ IF IsDir(tree[run.path]) /\ Children(run.path) = {}
       THEN tree' = [tree EXCEPT ![run.path] = "none"] /\ Continue
       ELSE Continue /\ UNCHANGED tree
    /\ UNCHANGED <<start, touched, cmd>>

Rmdir ==
    /\ At("rm", "rmdir")
    /\ IF IsDir(tree[run.path]) /\ Children(run.path) = {}
       THEN tree' = [tree EXCEPT ![run.path] = "none"] /\ Continue
       ELSE Exits(1) /\ UNCHANGED tree
    /\ UNCHANGED <<start, touched, cmd>>

RemoveFile ==
    /\ At("rm", "remove")
    /\ IF tree[run.path] # "none" /\ Children(run.path) = {}
       THEN tree' = [tree EXCEPT ![run.path] = "none"] /\ Continue
       ELSE Exits(1) /\ UNCHANGED tree
    /\ UNCHANGED <<start, touched, cmd>>

----------------------------------------------------------------------------
(* mkdir *)

\* What mkdir(2) does with a path; slashes at its end are allowed.
Error(p) == CASE p = <<>> \/ tree[p] # "none"             -> "EEXIST"
              [] Len(p) > 1 /\ ~ IsDir(tree[Above(p)])    -> "ENOENT"
              [] OTHER                                     -> "none"
Mkdir(p, kind) == tree' = IF Error(p) = "none" THEN [tree EXCEPT ![p] = kind] ELSE tree

\* -m takes any number but 0, which only the text "0" gives; other options
\* are errors.
MkdirOptions ==
    /\ At("mkdir", "arg") /\ run.i = 1
    /\ cmd.mode = "invalid" \/ cmd.args = <<>>
    /\ Exits(1) /\ Keeps

MkdirNext ==
    /\ At("mkdir", "arg") /\ cmd.mode # "invalid" /\ cmd.args # <<>>
    /\ IF NoMore THEN Exits(0)
       ELSE run' = [run EXCEPT !.pc = IF cmd.flag THEN "parent" ELSE "mkdir",
                               !.path = Argument, !.at = 0]
    /\ Keeps

MkdirPlain ==
    /\ At("mkdir", "mkdir")
    /\ Mkdir(Names(run.path), cmd.mode)
    /\ IF Error(Names(run.path)) = "none" THEN Continue ELSE Exits(1)
    /\ UNCHANGED <<start, touched, cmd>>

Slashes == {j \in run.at + 1 .. Len(run.path) : run.path[j] = "/"}

\* Mutant: a parent that is there already is an error.
CreateParentsAlone ==
    /\ At("mkdir", "parent") /\ Slashes # {}
    /\ LET j == CHOOSE j \in Slashes : \A k \in Slashes : j <= k
           p == Names(SubSeq(run.path, 1, j - 1))
       IN  IF j > 1 /\ Error(p) # "none" THEN Exits(1) /\ UNCHANGED tree
           ELSE /\ IF j = 1 THEN UNCHANGED tree ELSE Mkdir(p, "dir")
                /\ run' = [run EXCEPT !.at = j]
    /\ UNCHANGED <<start, touched, cmd>>

\* The text before each slash; nothing comes before a leading one.
CreateParents ==
    /\ At("mkdir", "parent") /\ Slashes # {}
    /\ LET j == CHOOSE j \in Slashes : \A k \in Slashes : j <= k
           p == Names(SubSeq(run.path, 1, j - 1))
       IN  IF j > 1 /\ Error(p) = "ENOENT" THEN Exits(1) /\ UNCHANGED tree
           ELSE /\ IF j = 1 THEN UNCHANGED tree ELSE Mkdir(p, "dir")
                /\ run' = [run EXCEPT !.at = j]
    /\ UNCHANGED <<start, touched, cmd>>

CreateLast ==
    /\ At("mkdir", "parent") /\ Slashes = {}
    /\ Mkdir(Names(run.path), cmd.mode)
    /\ IF Error(Names(run.path)) = "ENOENT" THEN Exits(1) ELSE Continue
    /\ UNCHANGED <<start, touched, cmd>>

----------------------------------------------------------------------------

\* Another process, whose own calls succeed.
Touch(p, kind) ==
    /\ run.pc # "exit"
    /\ p \notin touched /\ Cardinality(touched) < MaxTouched
    /\ tree[p] = "none" <=> kind # "none"
    /\ tree' = [tree EXCEPT ![p] = kind]
    /\ WellFormed(tree')
    /\ touched' = touched \cup {p}
    /\ UNCHANGED <<start, cmd, run>>

FsNext == \/ RmUsage \/ RmNext \/ LstatArgument \/ LstatEntry \/ RecursiveRemove
          \/ ReadDir \/ Rmdir \/ RemoveFile
          \/ MkdirOptions \/ MkdirNext \/ MkdirPlain \/ CreateParents \/ CreateLast
          \/ \E p \in Path, kind \in {"none", "file", "dir"} : Touch(p, kind)

----------------------------------------------------------------------------
(* Properties *)

Ended(util, code) == At(util, "exit") /\ run.code = code
Fail(r) == [r EXCEPT !.code = 1]

\* What one more argument of rm makes of a tree and an exit code.
RmArgument(r, a, recursive) ==
    CASE r.code = 1 \/ r.tree[a] = "none"   -> Fail(r)
      [] IsDir(r.tree[a]) /\ ~ recursive    -> Fail(r)
      [] OTHER -> [r EXCEPT !.tree =
                     [p \in Path |-> IF IsPrefix(a, p) THEN "none" ELSE @[p]]]

\* The arguments of rm, one after the other, up to the first that fails: what
\* there is after each.
RmResults(args, recursive, t) ==
    LET after[i \in 0 .. Len(args)] ==
            IF i = 0 THEN [tree |-> t, code |-> IF args = <<>> /\ ~ recursive THEN 1 ELSE 0]
            ELSE RmArgument(after[i - 1], args[i], recursive)
    IN  after
RmReference == RmResults(cmd.args, cmd.flag, start)[Len(cmd.args)]

\* Nothing but the arguments of rm and what is below them is removed.
OnlyArguments ==
    \A p \in Path \ touched : tree[p] # start[p] =>
        tree[p] = "none" /\ \E i \in DOMAIN cmd.args : IsPrefix(cmd.args[i], p)

\* If rm reports success, its arguments are gone.
SuccessIsGone ==
    Ended("rm", 0) => \A i \in DOMAIN cmd.args :
        tree[cmd.args[i]] = "none" \/ cmd.args[i] \in touched

\* rm (fs-utils/README.md:6-9) removes nothing but its arguments and what is
\* below them; if it reports success they are gone, also when others work in
\* the directories while it descends.  Alone, it does just what was asked.
RmRemoves ==
    cmd.util = "rm" =>
        /\ OnlyArguments /\ SuccessIsGone
        /\ run.pc = "exit" /\ touched = {} =>
              RmReference = [tree |-> tree, code |-> run.code]

\* What one more argument of mkdir makes of a tree and an exit code; `slashed' is
\* what -p makes of a directory that is named with a slash after it.
MkdirArgument(r, a, parents, mode, slashed) ==
    LET p == Names(a)  above == NonemptyPrefixes(p) \ {p} IN
    IF \/ r.code = 1
       \/ \E q \in above : r.tree[q] \notin {"none", "dir", "moded"}
       \/ ~ parents /\ (p = <<>> \/ r.tree[p] # "none" \/ \E q \in above : r.tree[q] = "none")
    THEN Fail(r)
    ELSE [r EXCEPT !.tree = [q \in Path |->
             IF q \notin NonemptyPrefixes(p) \/ @[q] # "none" THEN @[q]
             ELSE IF q # p THEN "dir"
             ELSE IF parents /\ Last(a) = "/" THEN slashed ELSE mode]]

\* The arguments of mkdir, one after the other: what there is after each.
MkdirResults(args, parents, mode, slashed, t) ==
    LET after[i \in 0 .. Len(args)] ==
            IF i = 0 THEN [tree |-> t, code |-> IF args = <<>> \/ mode = "invalid" THEN 1 ELSE 0]
            ELSE MkdirArgument(after[i - 1], args[i], parents, mode, slashed)
    IN  after
MkdirReference(slashed) ==
    MkdirResults(cmd.args, cmd.flag, cmd.mode, slashed, start)[Len(cmd.args)]

Wanted == UNION {NonemptyPrefixes(Names(cmd.args[i])) : i \in DOMAIN cmd.args}

\* Nothing but the arguments of mkdir and what is above them is made.
MakesOnlyWanted ==
    \A p \in Path \ touched : tree[p] # start[p] =>
        start[p] = "none" /\ IsDir(tree[p]) /\ p \in Wanted

\* If mkdir reports success, its arguments are there, and what is above them.
WantedIsThere ==
    Ended("mkdir", 0) => \A p \in Wanted : tree[p] # "none" \/ p \in touched

\* mkdir (fs-utils/README.md:12-14) makes nothing but its arguments and, with
\* -p, what is above them.  Others who make the same directories at the same
\* time never make mkdir -p fail, and after success everything is there.  Alone,
\* it does what was asked; only the mode that -p gives a directory named with a
\* slash after it is left open, be it that of -m (README.md:13) or, as in the
\* code, that of the directories above.
MkdirMakes ==
    cmd.util = "mkdir" =>
        /\ MakesOnlyWanted /\ WantedIsThere
        /\ \E slashed \in {"dir", cmd.mode} :
              /\ (/\ Ended("mkdir", 1) /\ cmd.flag
                  /\ \A p \in touched : IsDir(tree[p])) => MkdirReference(slashed).code = 1
              /\ run.pc = "exit" /\ touched = {} =>
                    MkdirReference(slashed) = [tree |-> tree, code |-> run.code]
=============================================================================
