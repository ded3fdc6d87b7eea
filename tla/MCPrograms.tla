----------------------------- MODULE MCPrograms -----------------------------
(***************************************************************************)
(* The programs that run alone share a run: the first state of a behaviour *)
(* chooses one of them, and the others stay as they are.                   *)
(***************************************************************************)
EXTENDS Lca, BloomFilter, Utf8File, LongIntSteps, DynNumSteps, MachineCode,
        FileAllocator, FsUtils, Minigrep, Tailf, TLC

VARIABLE unit   \* the program that runs

lcaVars   == <<parent, lca>>
bloomVars == <<bloom, inserted>>
utfVars   == <<infile, outfile, utf>>
cpuVars   == <<long, steps, dyn, num, scan, cpu>>
fileVars  == <<vars, fsVars, grepVars, tailfVars>>
programsVars == <<unit, lcaVars, bloomVars, utfVars, cpuVars, fileVars>>

Units == {"lca", "bloom", "utf8", "long", "steps", "dyn", "num", "text", "cpu",
          "falloc", "fsutils", "minigrep", "tailf"}

\* The programs that do not run have one value.
IdleLong == [kind |-> [signed |-> FALSE, wide |-> FALSE, copy |-> "float-add"], op |-> "none",
             a |-> ZERO, b |-> ZERO, k |-> 0, kept |-> FALSE, result |-> ZERO]
NoCommand == [util |-> "rm", flag |-> FALSE, mode |-> "dir", args |-> <<>>]

NumbersInit ==
    /\ IF unit = "long" THEN LongInit ELSE long = IdleLong
    /\ IF unit = "steps" THEN StepsInit ELSE steps = [at |-> "none"]
    /\ IF unit = "num" THEN NumInit ELSE num = [at |-> "none"]
    /\ IF unit = "text" THEN TextInit ELSE scan = [at |-> "none"]
    /\ IF unit = "cpu" THEN MachineInit ELSE cpu = [pc |-> "none"]

FilesInit ==
    /\ IF unit = "falloc" THEN TRUE ELSE existed = FALSE
    /\ IF unit = "fsutils" THEN TRUE
       ELSE cmd = NoCommand /\ tree = [p \in Path |-> "none"]
    /\ IF unit = "minigrep" THEN TRUE
       ELSE /\ disk = [p \in GrepPath \cup {<<>>} |-> [kind |-> "none", text |-> <<>>]]
            /\ pattern = [valid |-> FALSE, empty |-> FALSE, groups |-> FALSE]
            /\ limit = CHOOSE l \in FdLimits : TRUE
    /\ IF unit = "tailf" THEN TRUE
       ELSE log = <<>> /\ data = [i \in 1 .. kMaxFileSize |-> NUL]
    /\ Init /\ FsInit /\ GrepInit /\ TailfInit

ProgramsInit ==
    /\ unit \in Units
    /\ LcaInit /\ BloomInit /\ Utf8Init /\ DynInit
    /\ unit # "dyn" => \A l \in Limits : dyn.limit <= l
    /\ NumbersInit /\ FilesInit

SequentialNext ==
    /\ \/ /\ unit = "lca" /\ LcaNext
          /\ UNCHANGED <<bloomVars, utfVars, cpuVars>>
       \/ /\ unit = "bloom" /\ BloomNext
          /\ UNCHANGED <<lcaVars, utfVars, cpuVars>>
       \/ /\ unit = "utf8" /\ Utf8Next
          /\ UNCHANGED <<lcaVars, bloomVars, cpuVars>>
       \/ /\ \/ unit = "long" /\ LongNext /\ UNCHANGED <<steps, dyn, num, scan, cpu>>
             \/ unit = "steps" /\ StepsNext /\ UNCHANGED <<long, dyn, num, scan, cpu>>
             \/ unit = "dyn" /\ DynNext /\ UNCHANGED <<long, steps, num, scan, cpu>>
             \/ unit = "num" /\ NumNext /\ UNCHANGED <<long, steps, dyn, scan, cpu>>
             \/ unit = "text" /\ TextNext /\ UNCHANGED <<long, steps, dyn, num, cpu>>
             \/ unit = "cpu" /\ MachineNext /\ UNCHANGED <<long, steps, dyn, num, scan>>
          /\ UNCHANGED <<lcaVars, bloomVars, utfVars>>
    /\ UNCHANGED fileVars

FilesNext ==
    /\ \/ /\ unit = "falloc" /\ Next
          /\ UNCHANGED <<fsVars, grepVars, tailfVars>>
       \/ /\ unit = "fsutils" /\ FsNext
          /\ UNCHANGED <<vars, grepVars, tailfVars>>
       \/ /\ unit = "minigrep" /\ GrepNext
          /\ UNCHANGED <<vars, fsVars, tailfVars>>
       \/ /\ unit = "tailf" /\ TailfNext
          /\ UNCHANGED <<vars, fsVars, grepVars>>
    /\ UNCHANGED <<lcaVars, bloomVars, utfVars, cpuVars>>

ProgramsSpec == /\ ProgramsInit
                /\ [][(SequentialNext \/ FilesNext) /\ UNCHANGED unit]_programsVars

Symmetry == Permutations(Client)

----------------------------------------------------------------------------

\* The empty string, and characters before the space, after it and last.
SomeKeys == {<<>>, <<-3>>, <<1>>, <<94, 1>>, <<1, 94>>, <<2, -31, 94>>}

\* Both ends of every range of encode_utf8 up to the last of Unicode, and the
\* last single byte that utf8_read takes alone.
Boundaries == {63, 127, 128, 2047, 2048, 65535, 65536, 1114111}

\* Beginnings of two and of three bytes.
Beginnings == {<<195>>, <<226, 130>>}

\* Digits that are nothing, a little and everything; a carry into the middle
\* one ends there or runs on.
SomeOperands == {x \in [Places -> {0, 1, BASE - 1}] : x[2] # 1}

\* Up to three digits, and a point that may lie between, before or after them.
SomeDigits(n) == UNION {[1 .. k -> 0 .. RADIX - 1] : k \in 0 .. n}
SomeTexts == [minus : BOOLEAN, whole : SomeDigits(2), point : {TRUE},
              fraction : {<<>>, <<0>>, <<2>>}, exponent : {-1, 2}]
             \cup [minus : BOOLEAN, whole : SomeDigits(2), point : {FALSE},
                   fraction : {<<>>}, exponent : {-1, 2}]
FewTexts == [minus : BOOLEAN, whole : {<<>>, <<2>>, <<1, 2>>, <<2, 2>>}, point : {TRUE},
             fraction : {<<0>>, <<2>>}, exponent : {-1, 2}]

\* Texts with digits missing anywhere, something before and behind the number,
\* exponents of two digits, and numbers with letters.
SomeLexemes ==
    [radix : {3}, spaces : {<<>>, <<SPACE, SPACE>>}, minus : BOOLEAN, whole : SomeDigits(2),
     point : BOOLEAN, fraction : SomeDigits(1), mark : {<<>>}, power : {<<>>}, rest : {<<>>, <<7>>}]
    \cup [radix : {3}, spaces : {<<>>}, minus : BOOLEAN, whole : {<<>>, <<1, 2>>, <<0, 2, 0>>},
          point : BOOLEAN, fraction : {<<>>, <<2>>},
          mark : {<<EXPONENT>>, <<EXPONENT, PLUS>>, <<EXPONENT, MINUS>>},
          power : {<<>>, <<2>>, <<1, 0>>}, rest : {<<MINUS>>}]
    \cup [radix : {16}, spaces : {<<>>}, minus : BOOLEAN, whole : {<<1, 14, 1>>, <<15>>},
          point : BOOLEAN, fraction : {<<>>, <<10, 0>>, <<14>>}, mark : {<<>>}, power : {<<>>},
          rest : {<<MINUS>>}]
SomePrecisions == {-1, 2}

\* A directory with two entries, one of them with an entry, and a neighbour.
FsPaths == {<<"a">>, <<"a", "b">>, <<"a", "c">>, <<"a", "b", "c">>, <<"b">>}

\* Arguments apart, above one another, repeated or missing.
RmArgs == {<<>>, <<<<"a">>>>, <<<<"b">>, <<"a", "b">>>>, <<<<"a", "b">>, <<"a">>>>}

\* Relative and absolute paths, doubled slashes, and one at the end.
MkdirArgs == {<<>>, <<<<"a", "/", "b", "/", "c">>>>, <<<<"a", "/", "b">>, <<"/">>>>,
              <<<<"/", "b">>, <<"a", "/", "/", "c", "/">>>>}

FsCommands ==
    [util : {"rm"}, flag : BOOLEAN, mode : {"dir"}, args : RmArgs] \cup
    [util : {"mkdir"}, flag : BOOLEAN, mode : {"moded", "invalid"}, args : MkdirArgs]

GrepPaths == {<<"a">>, <<"a", "b">>, <<"c">>}

\* Empty, without and with an end of line, and a match in a second line.
SomeFiles == {<<>>, <<"x">>, <<".", "\n", "x">>, <<"x", "\n">>}
=============================================================================
