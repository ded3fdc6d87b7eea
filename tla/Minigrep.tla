------------------------------ MODULE Minigrep ------------------------------
(***************************************************************************)
(* minigrep.c of 05-memory/tasks/minigrep, on a directory from which       *)
(* another process may remove a file meanwhile.                            *)
(*                                                                         *)
(* A text is a sequence of "x", which the pattern looks for, "." and "\n". *)
(* A link to a file is a file; any other link is "badlink": its lstat      *)
(* succeeds, and then opening or mapping it fails.                         *)
(***************************************************************************)
EXTENDS Integers, Sequences, SequencesExt, FiniteSets

CONSTANTS GrepPath,   \* the paths below the argument, which is <<>>
          GrepTexts,  \* contents of files
          FdLimits    \* how many descriptors the program may get

\* A path comes with those above it.  <<"none">> stands for no path.
ASSUME GrepAssumption ==
    /\ GrepPath \subseteq Seq(STRING) /\ <<>> \notin GrepPath /\ <<"none">> \notin GrepPath
    /\ \A p \in GrepPath : Front(p) \in GrepPath \cup {<<>>}
    /\ GrepTexts \subseteq Seq({"x", ".", "\n"})
    /\ FdLimits \subseteq Nat

Entries  == [kind : {"none", "dir", "badlink"}, text : {<<>>}]
            \cup [kind : {"file"}, text : GrepTexts]
\* valid: it compiles; empty: it matches an empty line; groups: a match sets
\* a capturing group.
Patterns == [valid : BOOLEAN, empty : BOOLEAN, groups : BOOLEAN]

VARIABLES disk,     \* the entry at each path
          removed,  \* the path the other process took away, or <<"none">>
          pattern, open_fds, limit,
          printed,  \* <<path, line number>> in the order of output
          grep      \* pc, path at work, open directories

grepVars == <<disk, removed, pattern, open_fds, limit, printed, grep>>

GrepInit ==
    /\ disk \in [GrepPath \cup {<<>>} -> Entries]
    /\ \A p \in GrepPath : disk[p].kind # "none" => disk[Front(p)].kind = "dir"
    /\ pattern \in Patterns /\ limit \in FdLimits
    /\ removed = <<"none">> /\ open_fds = 0 /\ printed = <<>>
    /\ grep = [pc |-> "compile", path |-> <<>>, dirs |-> <<>>]

GrepAt(pc)  == grep.pc = pc
GrepTo(pc)  == grep' = [grep EXCEPT !.pc = pc]
GrepReturns == GrepTo(IF grep.dirs = <<>> THEN "success" ELSE "readdir")
Entry       == disk[grep.path]
Inside(p)   == {q \in GrepPath : Len(q) = Len(p) + 1 /\ IsPrefix(p, q)
                                 /\ disk[q].kind # "none"}
GrepKeeps   == UNCHANGED <<disk, removed, pattern, limit>>

compile_pattern ==
    /\ GrepAt("compile")
    /\ GrepTo(IF pattern.valid THEN "search" ELSE "failure")
    /\ GrepKeeps /\ UNCHANGED <<open_fds, printed>>

search_pattern ==
    /\ GrepAt("search")
    /\ GrepTo(CASE Entry.kind = "none" -> "failure"
                [] Entry.kind = "dir"  -> "opendir"
                [] OTHER               -> "open")
    /\ GrepKeeps /\ UNCHANGED <<open_fds, printed>>

process_directory ==
    /\ GrepAt("opendir")
    /\ IF open_fds < limit
       THEN /\ grep' = [grep EXCEPT !.pc = "readdir",
                          !.dirs = Append(@, [dir |-> grep.path, todo |-> Inside(grep.path)])]
            /\ open_fds' = open_fds + 1
       ELSE GrepTo("failure") /\ UNCHANGED open_fds
    /\ GrepKeeps /\ UNCHANGED printed

\* A name that has been read may belong to an entry that is gone.
NextEntry ==
    /\ GrepAt("readdir") /\ Last(grep.dirs).todo # {}
    /\ \E p \in Last(grep.dirs).todo :
          grep' = [pc |-> "search", path |-> p,
                   dirs |-> Append(Front(grep.dirs), [Last(grep.dirs) EXCEPT !.todo = @ \ {p}])]
    /\ GrepKeeps /\ UNCHANGED <<open_fds, printed>>

CloseDir ==
    /\ GrepAt("readdir") /\ Last(grep.dirs).todo = {}
    /\ open_fds' = open_fds - 1
    /\ grep' = [grep EXCEPT !.dirs = Front(@),
                  !.pc = IF Len(grep.dirs) = 1 THEN "success" ELSE "readdir"]
    /\ GrepKeeps /\ UNCHANGED printed

\* open; fstat fails if open did.
OpenFile ==
    /\ GrepAt("open")
    /\ IF Entry.kind = "none" \/ open_fds = limit
       THEN GrepTo("failure") /\ UNCHANGED open_fds
       ELSE GrepTo("map") /\ open_fds' = open_fds + 1
    /\ GrepKeeps /\ UNCHANGED printed

LineStarts(text) == {0} \cup {i \in DOMAIN text : text[i] = "\n"}
Line(text, start) ==
    LET next == {i \in start + 1 .. Len(text) : text[i] = "\n"}
        end  == CHOOSE i \in next \cup {Len(text) + 1} :
                  \A j \in next \cup {Len(text) + 1} : i <= j
    IN  SubSeq(text, start + 1, end - 1)

MatchesLine(line) == (line = <<>> /\ pattern.empty) \/ \E i \in DOMAIN line : line[i] = "x"

\* pcre_exec gives 0 if ovector, of one pair, has no room for the groups.
search_result(line) == CASE ~ MatchesLine(line) -> -1
                         [] pattern.groups      -> 0
                         [] OTHER               -> 1

\* The n-th number of a set, from the smallest on.
Nth(S, n) == CHOOSE s \in S : Cardinality({t \in S : t <= s}) = n

\* The last line starts behind the last "\n", even at the end of the file.
process_file_line(text) ==
    LET starts == LineStarts(text)
        hits   == {n \in 1 .. Cardinality(starts) :
                     search_result(Line(text, Nth(starts, n))) > 0}
    IN  [n \in 1 .. Cardinality(hits) |-> <<grep.path, Nth(hits, n)>>]

\* Mutant: what follows the last "\n" is not looked at.
ProcessLinesOnly ==
    /\ GrepAt("map")
    /\ IF Entry.kind # "file" \/ Entry.text = <<>>
       THEN GrepTo("failure") /\ open_fds' = open_fds - 1 /\ UNCHANGED printed
       ELSE /\ printed' = printed \o
                 SelectSeq(process_file_line(Entry.text),
                           LAMBDA h : h[2] < Cardinality(LineStarts(Entry.text)))
            /\ GrepReturns /\ UNCHANGED open_fds
    /\ GrepKeeps

\* A length of 0 cannot be mapped, nor a directory.  The descriptor is closed
\* only when that fails.
process_file ==
    /\ GrepAt("map")
    /\ IF Entry.kind # "file" \/ Entry.text = <<>>
       THEN GrepTo("failure") /\ open_fds' = open_fds - 1 /\ UNCHANGED printed
       ELSE /\ printed' = printed \o process_file_line(Entry.text)
            /\ GrepReturns /\ UNCHANGED open_fds
    /\ GrepKeeps

\* Somebody removes a file that is not open.
Vanish(p) ==
    /\ removed = <<"none">> /\ ~ (GrepAt("map") /\ grep.path = p)
    /\ grep.pc \notin {"success", "failure"}
    /\ disk[p].kind \in {"file", "badlink"}
    /\ removed' = p
    /\ disk' = [disk EXCEPT ![p] = [kind |-> "none", text |-> <<>>]]
    /\ UNCHANGED <<pattern, open_fds, limit, printed, grep>>

GrepNext == \/ compile_pattern \/ search_pattern \/ process_directory \/ NextEntry
            \/ CloseDir \/ OpenFile \/ process_file
            \/ \E p \in GrepPath : Vanish(p)

GrepSpec == GrepInit /\ [][GrepNext]_grepVars

----------------------------------------------------------------------------
(* Properties *)

\* The lines of p that match, by how many lines start no later; one behind the
\* last "\n" counts.
Hits(p) == LET text   == disk[p].text
               number == [s \in LineStarts(text) |-> Cardinality({t \in LineStarts(text) : t <= s})]
           IN  {<<p, number[s]>> : s \in {s \in LineStarts(text) : MatchesLine(Line(text, s))}}
AllHits == UNION {Hits(p) : p \in {q \in DOMAIN disk : disk[q].kind = "file"}}

\* minigrep, once it succeeds, has printed every line that matches of every
\* file under the directory, each once, and nothing else, for patterns without
\* groups; it gives up only where a file could not be opened or mapped
\* (minigrep.c:16-99).
GrepFinds ==
    /\ \A i, j \in DOMAIN printed : printed[i] = printed[j] => i = j
    /\ \A i \in DOMAIN printed :
          printed[i] \in AllHits \/ printed[i][1] = removed
    /\ GrepAt("success") /\ ~ pattern.groups => AllHits \subseteq ToSet(printed)
    /\ GrepAt("failure") =>
          \/ ~ pattern.valid
          \/ removed # <<"none">>
          \/ open_fds = limit
          \/ disk[<<>>].kind = "none"
          \/ \E p \in DOMAIN disk : \/ disk[p].kind = "badlink"
                                    \/ disk[p].kind = "file" /\ disk[p].text = <<>>

\* README.md:5: in all files, the lines with at least one match.
AllLinesFound == GrepAt("success") => AllHits \subseteq ToSet(printed)
=============================================================================
