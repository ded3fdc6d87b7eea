--------------------------- MODULE ProcessProofs ----------------------------
(***************************************************************************)
(* The tracer of file-watcher and the shell of proc-chain, for any number  *)
(* of calls, signals, files and commands.                                  *)
(*                                                                         *)
(* What the commands of an argument print arrives, in order and whole, for *)
(* every argument that fits the table of commands and every size of pipe:  *)
(* OutputRight is about the text and about what has been printed; between  *)
(* the two stand the place of create_chain in the text (Parses), the       *)
(* children that are born (Forks) and what every command has written so    *)
(* far (Delivers), of which the state holds only what is on its way.       *)
(***************************************************************************)
EXTENDS ProcChain, FileWatcher, NatFacts, SequenceTheorems, TLAPS

WatcherSpec == Init /\ [][Next]_vars

----------------------------------------------------------------------------
(* The tracer and the stops of the program *)

\* Where the program can be when the tracer is at each of its places.  A
\* program can be killed anywhere; one that ended is waited for once.
InStep ==
    /\ tracee \in CASE pc = "first"   -> {"starting", "at_signal", "exited", "killed"}
                    [] pc = "loop"    -> {"at_exit", "at_signal", "killed", "reaped"}
                    [] pc = "wait"    -> {"user", "at_entry", "at_signal", "killed", "reaped"}
                    [] pc = "inspect" -> {"at_entry", "killed"}
                    [] pc = "resume"  -> {"at_entry", "killed"}
                    [] pc = "skip"    -> {"kernel", "at_exit", "exited", "killed"}
                    [] pc = "printed" -> {"reaped"}
                    [] pc = "failed"  -> {"at_entry", "killed"}
    /\ pc \in {"first", "loop", "wait", "inspect", "resume", "skip", "printed", "failed"}
    /\ tracee = "reaped" <=> status \in {"exited", "killed"}
    /\ pc = "printed" => status = "exited"
    /\ call \in Call

\* InStep holds when the tracer starts.
LEMMA InStepInit == Init => InStep
  BY DEF Init, InStep, Call

\* The program moves only between its stops.
LEMMA TraceeInStep == InStep /\ Tracee => InStep'
<1> SUFFICES ASSUME InStep, Tracee PROVE InStep'
  OBVIOUS
<1> USE DEF InStep, tracer, Stops, Ended
<1>1. CASE Start
  BY <1>1 DEF Start
<1>2. CASE Enter
  <2>1. call' \in Call
    BY <1>2 DEF Enter, Call
  <2> QED BY <2>1, <1>2 DEF Enter
<1>3. CASE Reenter
  BY <1>3 DEF Reenter
<1>4. CASE Execute
  <2>1. call.kind \in {"write", "other", "exit"}
    BY DEF Call
  <2>2. tracee' \in {"exited", "at_exit"}
    BY <2>1, <1>4 DEF Execute
  <2> QED BY <2>2, <1>4 DEF Execute
<1>5. CASE Interrupt
  BY <1>5 DEF Interrupt
<1>6. CASE SignalStop
  BY <1>6 DEF SignalStop
<1>7. CASE Kill
  BY <1>7 DEF Kill
<1> QED BY <1>1, <1>2, <1>3, <1>4, <1>5, <1>6, <1>7 DEF Tracee

\* The tracer takes the stops in pairs: it resumes the program once between
\* the entry of a call and its exit.
LEMMA TracerInStep == InStep /\ Tracer => InStep'
<1> SUFFICES ASSUME InStep, Tracer PROVE InStep'
  OBVIOUS
<1> USE DEF InStep, program, Stops, Ended
<1>1. CASE FirstWait
  BY <1>1 DEF FirstWait, WaitStatus, Waited, StatusOfTracee
<1>2. CASE Loop
  BY <1>2 DEF Loop, Resume
<1>3. CASE Wait
  BY <1>3 DEF Wait, WaitStatus, Waited, StatusOfTracee
<1>4. CASE InspectWrite \/ InspectOther \/ InspectFails \/ InspectKilled
  BY <1>4 DEF InspectWrite, InspectOther, InspectFails, InspectKilled
<1>5. CASE ResumeCall
  BY <1>5 DEF ResumeCall, Resume
<1>6. CASE SkipExit
  BY <1>6 DEF SkipExit, WaitStatus, Waited, StatusOfTracee
<1>7. CASE PrintCounters
  BY <1>7 DEF PrintCounters
<1> QED BY <1>1, <1>2, <1>3, <1>4, <1>5, <1>6, <1>7 DEF Tracer

\* The tracer and the program are in step for ever.
THEOREM TracerInvariant == WatcherSpec => []InStep
<1>1. InStep /\ [Next]_vars => InStep'
  <2>1. InStep /\ UNCHANGED vars => InStep'
    BY DEF InStep, vars, tracer, program
  <2> QED BY <2>1, TraceeInStep, TracerInStep DEF Next, Terminated
<1> QED BY InStepInit, <1>1, PTL DEF WatcherSpec

\* The tracer never takes the end of a call for its beginning, whatever
\* signals come between.
THEOREM CallsSeenAtEntry == WatcherSpec => []LooksAtEntry
<1>1. InStep => LooksAtEntry
  BY DEF InStep, LooksAtEntry
<1> QED BY TracerInvariant, <1>1, PTL

----------------------------------------------------------------------------
(* The counters *)

\* readlink writes no end mark, so a name that is shorter than what the buffer
\* held keeps its end; these names do not.
NamesCover ==
    /\ Name \subseteq Seq(STRING) /\ Stack \in Seq(STRING)
    /\ \A m, n \in Name : Len(m) = Len(n)
    /\ \A n \in Name : Len(Stack) <= Len(n)

Counter == [filename : Name, counter : Nat]

\* After its last call, exit, a program does not return to its own code.
LastCall ==
    /\ calls = MaxCalls + 1 => call.kind = "exit"
    /\ call.kind = "exit" => tracee \in {"at_entry", "kernel", "exited", "killed", "reaped"}

OneEach(list) ==
    /\ list \in Seq(Counter)
    /\ \A i, j \in 1 .. Len(list) : list[i].filename = list[j].filename => i = j

BufferOK == file_path \in Seq(STRING) /\ \A n \in Name : Len(file_path) <= Len(n)

\* What was counted of a call that the kernel has not executed yet.
Owed(n) == IF /\ call.kind = "write" /\ call.name = n
              /\ tracee \in {"at_entry", "kernel"} /\ pc \in {"resume", "skip"}
           THEN call.size ELSE 0

Balance ==
    tracee # "killed" /\ status # "killed" =>
        \A n \in Name : /\ written[n] + Owed(n) <= Counted(n)
                        /\ regular => Counted(n) = written[n] + Owed(n)

\* The buffer matters only to the increments, and the counters to the balance.
CountInv == InStep /\ TypeOK /\ LastCall /\ OneEach(counters) /\ BufferOK /\ Balance

PlaceIn(list, name) == SelectInSeq(list, LAMBDA c : c.filename = name)

\* Place finds the one counter of a file.
LEMMA PlaceFinds ==
  ASSUME NEW list, OneEach(list), NEW name
  PROVE  /\ PlaceIn(list, name) \in 0 .. Len(list)
         /\ PlaceIn(list, name) = 0 => \A i \in 1 .. Len(list) : list[i].filename # name
         /\ \A i \in 1 .. Len(list) : list[i].filename = name => PlaceIn(list, name) = i
         /\ PlaceIn(list, name) # 0 => /\ list[PlaceIn(list, name)].filename = name
                                       /\ list[PlaceIn(list, name)] \in Counter
<1> DEFINE I == {i \in 1 .. Len(list) : list[i].filename = name}
<1>0. list \in Seq(Counter) /\ Len(list) \in Nat
  BY LenProperties DEF OneEach
<1>1. PlaceIn(list, name) = IF I # {} THEN Min(I) ELSE 0
  BY DEF PlaceIn, SelectInSeq
<1>2. CASE I = {}
  BY <1>0, <1>1, <1>2
<1>3. CASE I # {}
  <2>1. I \in SUBSET Nat
    OBVIOUS
  <2>2. Min(I) \in I
    <3> HIDE DEF I
    <3> QED BY <2>1, <1>3, MinIsLeast
  <2>3. PlaceIn(list, name) \in 1 .. Len(list) /\ list[PlaceIn(list, name)].filename = name
    BY <2>2, <1>1, <1>3
  <2>4. list[PlaceIn(list, name)] \in Counter
    BY <2>3, <1>0, ElementOfSeq
  <2> QED BY <2>3, <2>4, <1>0 DEF OneEach
<1> QED BY <1>2, <1>3

CountIn(list, name) == IF PlaceIn(list, name) = 0 THEN 0
                       ELSE list[PlaceIn(list, name)].counter

\* A count is a number, that of the file's entry or 0.
LEMMA CountOf ==
  ASSUME NEW list, OneEach(list), NEW name
  PROVE  /\ CountIn(list, name) \in Nat
         /\ \A i \in 1 .. Len(list) :
               list[i].filename = name => CountIn(list, name) = list[i].counter
         /\ (\A i \in 1 .. Len(list) : list[i].filename # name) => CountIn(list, name) = 0
<1>1. /\ PlaceIn(list, name) \in 0 .. Len(list)
      /\ \A i \in 1 .. Len(list) : list[i].filename = name => PlaceIn(list, name) = i
      /\ PlaceIn(list, name) # 0 => /\ list[PlaceIn(list, name)].filename = name
                                    /\ list[PlaceIn(list, name)] \in Counter
  BY PlaceFinds
<1>2. Len(list) \in Nat
  BY LenProperties DEF OneEach
<1>3. CountIn(list, name) \in Nat
  BY <1>1 DEF CountIn, Counter
<1>4. ASSUME NEW i \in 1 .. Len(list), list[i].filename = name
      PROVE  CountIn(list, name) = list[i].counter
  BY <1>1, <1>2, <1>4 DEF CountIn
<1>5. ASSUME \A i \in 1 .. Len(list) : list[i].filename # name
      PROVE  CountIn(list, name) = 0
  <2>1. PlaceIn(list, name) = 0
    BY <1>1, <1>2, <1>5
  <2> QED BY <2>1 DEF CountIn
<1> QED BY <1>3, <1>4, <1>5

\* increment adds to the counter of one file and leaves the others.
LEMMA Increments ==
  ASSUME OneEach(counters), NEW name \in Name, NEW value \in Nat, increment(name, value)
  PROVE  /\ OneEach(counters')
         /\ CountIn(counters', name) = CountIn(counters, name) + value
         /\ \A n \in Name \ {name} : CountIn(counters', n) = CountIn(counters, n)
<1>0. counters \in Seq(Counter) /\ Len(counters) \in Nat
  BY LenProperties DEF OneEach
<1>1. Place(name) = PlaceIn(counters, name)
  BY DEF Place, PlaceIn
<1> DEFINE item == [filename |-> name, counter |-> value]
           place == PlaceIn(counters, name)
<1>2. CASE place = 0
  <2>1. item \in Counter /\ <<item>> \in Seq(Counter) /\ Len(<<item>>) = 1
    BY DEF Counter
  <2>2. counters' = <<item>> \o counters
    BY <1>1, <1>2 DEF increment
  <2>3. \A i \in 1 .. Len(counters) : counters[i].filename # name
    BY <1>2, PlaceFinds
  <2>4. item.filename = name /\ item.counter = value
    OBVIOUS
  <2> HIDE DEF item
  <2>5. /\ counters' \in Seq(Counter) /\ Len(counters') = Len(counters) + 1
        /\ \A i \in 1 .. Len(counters) + 1 :
              counters'[i] = IF i = 1 THEN item ELSE counters[i - 1]
    BY <2>1, <2>2, <1>0, ConcatProperties
  <2>6. /\ counters'[1] = item
        /\ \A i \in 1 .. Len(counters') : i # 1 =>
              i - 1 \in 1 .. Len(counters) /\ counters'[i] = counters[i - 1]
        /\ \A i \in 1 .. Len(counters) :
              i + 1 \in 1 .. Len(counters') /\ counters'[i + 1] = counters[i]
    BY <2>5, <1>0
  <2>7. OneEach(counters')
    <3> SUFFICES ASSUME NEW i \in 1 .. Len(counters'), NEW j \in 1 .. Len(counters'),
                        counters'[i].filename = counters'[j].filename
                 PROVE  i = j
      BY <2>5 DEF OneEach
    <3>1. CASE i = 1 /\ j # 1
      <4>1. j - 1 \in 1 .. Len(counters) /\ counters'[j] = counters[j - 1]
        BY <3>1, <2>6
      <4>2. counters[j - 1].filename = name
        BY <4>1, <3>1, <2>4, <2>6
      <4> QED BY <4>1, <4>2, <2>3
    <3>2. CASE i # 1 /\ j = 1
      BY <3>2, <2>3, <2>4, <2>6
    <3>3. CASE i # 1 /\ j # 1
      <4>1. counters[i - 1].filename = counters[j - 1].filename
        BY <3>3, <2>6
      <4>2. i - 1 = j - 1
        BY <4>1, <3>3, <2>6 DEF OneEach
      <4> QED BY <4>2
    <3> QED BY <3>1, <3>2, <3>3
  <2>8. CountIn(counters, name) = 0 /\ CountIn(counters', name) = value
    <3>1. 1 \in 1 .. Len(counters')
      BY <2>5, <1>0
    <3> QED BY <3>1, <2>3, <2>4, <2>6, <2>7, CountOf
  <2>9. ASSUME NEW n \in Name \ {name}
        PROVE  CountIn(counters', n) = CountIn(counters, n)
    <3>1. CASE \E i \in 1 .. Len(counters) : counters[i].filename = n
      <4>1. PICK i \in 1 .. Len(counters) : counters[i].filename = n
        BY <3>1
      <4>2. CountIn(counters, n) = counters[i].counter
        BY <4>1, CountOf
      <4>3. i + 1 \in 1 .. Len(counters') /\ counters'[i + 1] = counters[i]
        BY <2>6
      <4>4. CountIn(counters', n) = counters'[i + 1].counter
        BY <4>1, <4>3, <2>7, CountOf
      <4> QED BY <4>2, <4>3, <4>4
    <3>2. CASE \A i \in 1 .. Len(counters) : counters[i].filename # n
      <4>1. \A i \in 1 .. Len(counters') : counters'[i].filename # n
        <5> TAKE i \in 1 .. Len(counters')
        <5>1. CASE i = 1
          BY <5>1, <2>4, <2>6
        <5>2. CASE i # 1
          BY <5>2, <2>6, <3>2
        <5> QED BY <5>1, <5>2
      <4>2. CountIn(counters, n) = 0
        BY <3>2, CountOf
      <4>3. CountIn(counters', n) = 0
        BY <4>1, <2>7, CountOf
      <4> QED BY <4>2, <4>3
    <3> QED BY <3>1, <3>2
  <2> QED BY <2>7, <2>8, <2>9
<1>3. CASE place # 0
  <2>1. /\ place \in 1 .. Len(counters) /\ counters[place].filename = name
        /\ counters[place] \in Counter
    <3> HIDE DEF place
    <3>1. /\ place \in 0 .. Len(counters)
          /\ place # 0 => counters[place].filename = name /\ counters[place] \in Counter
      BY PlaceFinds DEF place
    <3> QED BY <3>1, <1>3, <1>0
  <2> DEFINE new == [counters[place] EXCEPT !.counter = @ + value]
  <2>2. /\ new \in Counter /\ new.filename = name
        /\ new.counter = counters[place].counter + value
    BY <2>1 DEF Counter
  <2>3. counters' = [counters EXCEPT ![place] = new]
    <3>1. counters' = [counters EXCEPT ![place].counter = @ + value]
      BY <1>1, <1>3 DEF increment
    <3> QED BY <3>1
  <2> HIDE DEF new, place
  <2>4. /\ counters' \in Seq(Counter) /\ Len(counters') = Len(counters)
        /\ \A i \in 1 .. Len(counters) :
              counters'[i] = IF i = place THEN new ELSE counters[i]
    BY <2>1, <2>2, <2>3, <1>0, ExceptSeq
  <2>5. \A i \in 1 .. Len(counters) : counters'[i].filename = counters[i].filename
    BY <2>1, <2>2, <2>4
  <2>6. OneEach(counters')
    BY <2>4, <2>5 DEF OneEach
  <2>7. CountIn(counters', name) = CountIn(counters, name) + value
    <3>1. CountIn(counters, name) = counters[place].counter
      BY <2>1, CountOf
    <3>2. counters'[place] = new /\ place \in 1 .. Len(counters')
      BY <2>1, <2>4
    <3>3. CountIn(counters', name) = new.counter
      BY <3>2, <2>2, <2>6, CountOf
    <3> QED BY <3>1, <3>3, <2>2
  <2>8. ASSUME NEW n \in Name \ {name}
        PROVE  CountIn(counters', n) = CountIn(counters, n)
    <3>1. CASE \E i \in 1 .. Len(counters) : counters[i].filename = n
      <4>1. PICK i \in 1 .. Len(counters) : counters[i].filename = n
        BY <3>1
      <4>2. CountIn(counters, n) = counters[i].counter
        BY <4>1, CountOf
      <4>3. i # place
        BY <4>1, <2>1
      <4>4. i \in 1 .. Len(counters') /\ counters'[i] = counters[i]
        BY <4>3, <2>4
      <4>5. CountIn(counters', n) = counters'[i].counter
        BY <4>1, <4>4, <2>6, CountOf
      <4> QED BY <4>2, <4>4, <4>5
    <3>2. CASE \A i \in 1 .. Len(counters) : counters[i].filename # n
      <4>1. \A i \in 1 .. Len(counters') : counters'[i].filename # n
        BY <3>2, <2>4, <2>5
      <4>2. CountIn(counters, n) = 0
        BY <3>2, CountOf
      <4>3. CountIn(counters', n) = 0
        BY <4>1, <2>6, CountOf
      <4> QED BY <4>2, <4>3
    <3> QED BY <3>1, <3>2
  <2> QED BY <2>6, <2>7, <2>8
<1> QED BY <1>2, <1>3

\* Counted is the count in the list.
LEMMA CountedIs ==
  \A n : Counted(n) = CountIn(counters, n) /\ Counted(n)' = CountIn(counters', n)
<1> TAKE n
<1>1. Place(n) = PlaceIn(counters, n)
  BY DEF Place, PlaceIn
<1>2. Place(n)' = PlaceIn(counters', n)
  BY DEF Place, PlaceIn, SelectInSeq
<1> QED BY <1>1, <1>2 DEF Counted, CountIn

\* Nothing has been written or counted.
LEMMA CountInit == NamesCover /\ Init => CountInv
<1> SUFFICES ASSUME NamesCover, Init PROVE CountInv
  OBVIOUS
<1>1. OneEach(counters) /\ counters = <<>> /\ Len(<<>>) = 0
  BY EmptySeq DEF Init, OneEach
<1>2. \A n \in Name : Counted(n) = 0
  BY <1>1, CountOf, CountedIs
<1>3. InStep
  BY InStepInit
<1>4. TypeOK
  BY FileWatcherAssumption, <1>1 DEF Init, TypeOK, Call
<1>5. LastCall
  BY FileWatcherAssumption DEF Init, LastCall
<1>6. BufferOK
  BY DEF Init, BufferOK, NamesCover
<1>7. Balance
  BY <1>2 DEF Init, Balance, Owed
<1> QED BY <1>1, <1>3, <1>4, <1>5, <1>6, <1>7 DEF CountInv

\* What the kernel writes was counted when the call was entered, with the size
\* that was asked for.
LEMMA TraceCounts ==
  ASSUME NamesCover, CountInv, Tracee
  PROVE  CountInv'
<1> USE DEF CountInv, tracer, Stops, Ended
<1>0. InStep' /\ UNCHANGED tracer
  BY TraceeInStep DEF Tracee, Start, Enter, Reenter, Execute, Interrupt, SignalStop, Kill
<1>1. OneEach(counters)' /\ BufferOK' /\ \A n \in Name : Counted(n)' = Counted(n)
  <2>1. counters' = counters /\ file_path' = file_path
    BY <1>0
  <2>2. OneEach(counters)'
    BY <2>1
  <2>3. BufferOK'
    BY <2>1 DEF BufferOK
  <2>4. \A n \in Name : Counted(n)' = Counted(n)
    BY <2>1, CountedIs
  <2> QED BY <2>2, <2>3, <2>4
<1>2. \A n \in Name : Counted(n) \in Nat /\ written[n] \in Nat
  BY CountOf, CountedIs DEF TypeOK
<1>a. MaxCalls \in Nat /\ MaxSignals \in Nat /\ MaxSize \in Nat
  BY FileWatcherAssumption
<1>3. TypeOK' /\ LastCall' /\ Balance'
  <2>1. CASE Start
    BY <2>1, <1>1 DEF Start, TypeOK, LastCall, Balance, Owed, InStep
  <2>2. CASE Enter
    <3>1. call' \in Call /\ (calls = MaxCalls => call'.kind = "exit")
      BY <2>2, <1>a DEF Enter, Call, TypeOK
    <3>2. calls \in 0 .. MaxCalls
      BY <2>2, <1>a DEF Enter, LastCall, TypeOK
    <3>3. TypeOK'
      BY <2>2, <3>1, <3>2, <1>a DEF Enter, TypeOK
    <3>4. LastCall'
      BY <2>2, <3>1, <3>2, <1>a DEF Enter, LastCall
    <3>5. Balance'
      BY <2>2, <1>1 DEF Enter, Balance, Owed, InStep
    <3> QED BY <3>3, <3>4, <3>5
  <2>3. CASE Reenter
    BY <2>3, <1>1 DEF Reenter, TypeOK, LastCall, Balance, Owed, InStep
  <2>4. CASE Interrupt
    <3>1. signals' \in 0 .. MaxSignals
      BY <2>4, <1>a DEF Interrupt, TypeOK
    <3>2. TypeOK' /\ LastCall'
      BY <2>4, <3>1 DEF Interrupt, TypeOK, LastCall
    <3>3. Balance'
      <4> SUFFICES ASSUME tracee' # "killed", status' # "killed", NEW n \in Name
                   PROVE  written'[n] + Owed(n)' <= Counted(n)' /\ ~ regular'
        BY DEF Balance
      <4>1. Owed(n)' = 0 /\ ~ regular' /\ written' = written
        BY <2>4 DEF Interrupt, Owed
      <4>2. written[n] + Owed(n) <= Counted(n)
        BY <2>4, <1>0 DEF Interrupt, Balance
      <4>3. Owed(n) \in Nat
        BY DEF Owed, TypeOK, Call
      <4> QED BY <4>1, <4>2, <4>3, <1>1, <1>2
    <3> QED BY <3>2, <3>3
  <2>5. CASE SignalStop
    <3>1. signals' \in 0 .. MaxSignals
      BY <2>5, <1>a DEF SignalStop, TypeOK
    <3>2. TypeOK'
      BY <2>5, <3>1 DEF SignalStop, TypeOK
    <3>3. LastCall' /\ Balance'
      BY <2>5, <1>1 DEF SignalStop, LastCall, Balance, Owed, InStep
    <3> QED BY <3>2, <3>3
  <2>6. CASE Kill
    <3>1. signals' \in 0 .. MaxSignals
      BY <2>6, <1>a DEF Kill, TypeOK
    <3> QED BY <2>6, <3>1 DEF Kill, TypeOK, LastCall, Balance
  <2>7. CASE Execute
    <3>1. pc = "skip" /\ call.kind \in {"write", "other", "exit"}
      BY <2>7 DEF Execute, InStep, Call
    <3>2. CASE call.kind # "write"
      <4>1. /\ UNCHANGED <<call, again, calls, signals, written, regular>>
            /\ tracee' = IF call.kind = "exit" THEN "exited" ELSE "at_exit"
        BY <2>7, <3>1, <3>2 DEF Execute
      <4>2. TypeOK'
        <5>1. tracee' \in {"exited", "at_exit"}
          BY <4>1
        <5>2. UNCHANGED <<pc, status, counters>>
          BY <1>0
        <5> QED BY <4>1, <5>1, <5>2 DEF TypeOK
      <4>4. LastCall'
        BY <4>1 DEF LastCall
      <4>3. Balance'
        BY <2>7, <4>1, <3>2, <1>0, <1>1 DEF Execute, Balance, Owed
      <4> QED BY <4>2, <4>3, <4>4
    <3>3. CASE call.kind = "write"
      <4>1. PICK k \in 0 .. call.size :
               /\ written' = [written EXCEPT ![call.name] = @ + k]
               /\ regular' = (regular /\ k = call.size)
        BY <2>7, <3>3 DEF Execute
      <4>2. /\ tracee' = "at_exit" /\ UNCHANGED <<call, again, calls, signals>>
            /\ tracee = "kernel"
        BY <2>7, <3>3 DEF Execute
      <4>3. call.size \in Nat /\ k \in Nat /\ k <= call.size
        BY <3>3, <1>a DEF TypeOK, Call
      <4>4. written' \in [Name -> Nat]
        <5>1. written \in [Name -> Nat]
          BY DEF TypeOK
        <5>2. CASE call.name \in Name
          BY <5>1, <5>2, <4>1, <4>3
        <5>3. CASE call.name \notin Name
          BY <5>1, <5>3, <4>1
        <5> QED BY <5>2, <5>3
      <4>5. regular' \in BOOLEAN
        BY <4>1
      <4>6. TypeOK'
        BY <4>2, <4>4, <4>5, <1>0 DEF TypeOK
      <4>7. LastCall'
        BY <4>2, <3>3 DEF LastCall
      <4>8. Balance'
        <5> SUFFICES ASSUME tracee' # "killed", status' # "killed", NEW n \in Name
                     PROVE  /\ written'[n] + Owed(n)' <= Counted(n)'
                            /\ regular' => Counted(n)' = written'[n] + Owed(n)'
          BY DEF Balance
        <5>1. /\ written[n] + Owed(n) <= Counted(n)
              /\ regular => Counted(n) = written[n] + Owed(n)
          BY <4>2, <1>0 DEF Balance
        <5>2. Owed(n)' = 0
          BY <4>2 DEF Owed
        <5>3. CASE n = call.name
          <6>1. Owed(n) = call.size /\ written'[n] = written[n] + k
            BY <5>3, <3>1, <3>3, <4>1, <4>2 DEF Owed, TypeOK
          <6>2. regular' => regular /\ k = call.size
            BY <4>1
          <6> QED BY <6>1, <6>2, <5>1, <5>2, <4>3, <1>1, <1>2
        <5>4. CASE n # call.name
          <6>1. Owed(n) = 0 /\ written'[n] = written[n]
            BY <5>4, <4>1 DEF Owed, TypeOK
          <6>2. regular' => regular
            BY <4>1
          <6> QED BY <6>1, <6>2, <5>1, <5>2, <1>1, <1>2
        <5> QED BY <5>3, <5>4
      <4> QED BY <4>6, <4>7, <4>8
    <3> QED BY <3>2, <3>3
  <2> QED BY <2>1, <2>2, <2>3, <2>4, <2>5, <2>6, <2>7 DEF Tracee
<1> QED BY <1>0, <1>1, <1>3

\* The tracer counts a write once, at its entry, and waits otherwise.
LEMMA TracerCounts ==
  ASSUME NamesCover, CountInv, Tracer
  PROVE  CountInv'
<1> USE DEF CountInv, program, Stops, Ended
<1>0. InStep'
  BY TracerInStep
<1>1. CASE InspectWrite
  <2>1. /\ pc = "inspect" /\ tracee = "at_entry" /\ call.kind = "write"
        /\ call.name \in Name /\ call.size \in Nat
    BY <1>1, FileWatcherAssumption DEF InspectWrite, InStep, TypeOK, Call
  <2>2. OverBuffer(call.name) = call.name /\ call.name \in Seq(STRING)
    <3>1. call.name \in Seq(STRING) /\ Len(file_path) <= Len(call.name)
          /\ Len(file_path) \in Nat /\ Len(call.name) \in Nat
      BY <2>1, LenProperties DEF BufferOK, NamesCover
    <3>2. SubSeq(file_path, Len(call.name) + 1, Len(file_path)) = <<>>
      <4>1. /\ Len(call.name) + 1 \in Int /\ Len(file_path) \in Int
            /\ Len(file_path) < Len(call.name) + 1
        BY <3>1
      <4> QED BY <4>1, SubSeqEmpty
    <3> QED BY <3>1, <3>2, ConcatEmptySeq DEF OverBuffer
  <2>3. /\ file_path' = call.name /\ increment(call.name, call.size)
        /\ pc' = "resume" /\ UNCHANGED <<status, program>>
    BY <1>1, <2>2 DEF InspectWrite
  <2>4. BufferOK'
    BY <2>1, <2>2, <2>3 DEF BufferOK, NamesCover
  <2>5. /\ OneEach(counters')
        /\ CountIn(counters', call.name) = CountIn(counters, call.name) + call.size
        /\ \A n \in Name \ {call.name} : CountIn(counters', n) = CountIn(counters, n)
    BY <2>1, <2>3, Increments
  <2>6. TypeOK'
    <3>1. /\ \A i \in DOMAIN counters' : counters'[i].counter \in Nat
          /\ \A i, j \in DOMAIN counters' :
                counters'[i].filename = counters'[j].filename => i = j
      <4>1. counters' \in Seq(Counter) /\ DOMAIN counters' = 1 .. Len(counters')
        BY <2>5, LenProperties DEF OneEach
      <4>2. \A i \in 1 .. Len(counters') : counters'[i] \in Counter
        BY <4>1, ElementOfSeq
      <4> QED BY <4>1, <4>2, <2>5 DEF OneEach, Counter
    <3> QED BY <3>1, <2>3 DEF TypeOK
  <2>7. LastCall'
    BY <2>3 DEF LastCall
  <2>8. Balance'
    <3> SUFFICES ASSUME NEW n \in Name
                 PROVE  /\ written'[n] + Owed(n)' <= Counted(n)'
                        /\ regular' => Counted(n)' = written'[n] + Owed(n)'
      BY DEF Balance
    <3>1. status # "killed" /\ tracee # "killed"
      BY <2>1 DEF InStep
    <3>2. Owed(n) = 0 /\ Owed(n)' = IF n = call.name THEN call.size ELSE 0
      BY <2>1, <2>3 DEF Owed
    <3>3. /\ written[n] + Owed(n) <= Counted(n)
          /\ regular => Counted(n) = written[n] + Owed(n)
      BY <3>1 DEF Balance
    <3>4. Counted(n)' = Counted(n) + (IF n = call.name THEN call.size ELSE 0)
      <4>1. CountIn(counters, n) \in Nat
        BY CountOf
      <4>2. CountIn(counters', n) =
               CountIn(counters, n) + (IF n = call.name THEN call.size ELSE 0)
        BY <4>1, <2>5
      <4> QED BY <4>2, CountedIs
    <3>5. Counted(n) \in Nat /\ written[n] \in Nat /\ written' = written /\ regular' = regular
      BY <2>3, CountOf, CountedIs DEF TypeOK
    <3> QED BY <3>2, <3>3, <3>4, <3>5, <2>1
  <2> QED BY <1>0, <2>4, <2>5, <2>6, <2>7, <2>8
<1>2. CASE UNCHANGED <<counters, file_path>> /\ ~ InspectWrite
  <2>1. OneEach(counters') /\ \A n : Counted(n)' = Counted(n)
    BY <1>2, CountedIs
  <2>2. BufferOK'
    BY <1>2 DEF BufferOK
  <2>3. /\ UNCHANGED <<call, again, calls, signals, written, regular>>
        /\ call.kind = "exit" /\ tracee \in {"at_entry", "kernel", "exited", "killed", "reaped"}
                => tracee' \in {"at_entry", "kernel", "exited", "killed", "reaped"}
    <3>1. CASE FirstWait \/ Wait \/ SkipExit
      BY <3>1 DEF FirstWait, Wait, SkipExit, WaitStatus
    <3>2. CASE Loop \/ ResumeCall
      BY <3>2 DEF Loop, ResumeCall, Resume
    <3>3. CASE InspectOther \/ InspectFails \/ InspectKilled \/ PrintCounters
      BY <3>3 DEF InspectOther, InspectFails, InspectKilled, PrintCounters
    <3> QED BY <3>1, <3>2, <3>3, <1>2 DEF Tracer
  <2>4. TypeOK'
    <3>1. /\ pc' \in {"first", "loop", "wait", "inspect", "resume", "skip", "printed", "failed"}
          /\ tracee' \in {"starting", "user", "kernel", "reaped"} \cup Stops \cup Ended
      BY <1>0 DEF InStep
    <3>2. status' \in {"none", "syscall", "signal", "exited", "killed"}
      <4>1. CASE FirstWait \/ Wait \/ SkipExit
        BY <4>1 DEF FirstWait, Wait, SkipExit, WaitStatus, Waited, StatusOfTracee, TypeOK
      <4>2. CASE Loop \/ ResumeCall
        BY <4>2 DEF Loop, ResumeCall, Resume, TypeOK
      <4>3. CASE InspectOther \/ InspectFails \/ InspectKilled \/ PrintCounters
        BY <4>3 DEF InspectOther, InspectFails, InspectKilled, PrintCounters, TypeOK
      <4> QED BY <4>1, <4>2, <4>3, <1>2 DEF Tracer
    <3> QED BY <3>1, <3>2, <2>3, <1>2 DEF TypeOK
  <2>5. LastCall'
    BY <2>3 DEF LastCall
\* The tracer neither gives life back nor forgets what is owed.
  <2>6. /\ tracee' # "killed" /\ status' # "killed" => tracee # "killed" /\ status # "killed"
        /\ tracee' # "killed" /\ status' # "killed" => \A n : Owed(n)' = Owed(n)
    <3>1. CASE FirstWait \/ Wait \/ SkipExit
      BY <3>1 DEF FirstWait, Wait, SkipExit, WaitStatus, Waited, StatusOfTracee, InStep, Owed
    <3>2. CASE Loop \/ ResumeCall
      BY <3>2 DEF Loop, ResumeCall, Resume, InStep, Owed
    <3>3. CASE InspectOther \/ InspectFails \/ InspectKilled \/ PrintCounters
      BY <3>3 DEF InspectOther, InspectFails, InspectKilled, PrintCounters, InStep, Owed
    <3> QED BY <3>1, <3>2, <3>3, <1>2 DEF Tracer
  <2>7. Balance'
    BY <2>1, <2>3, <2>6 DEF Balance
  <2> QED BY <1>0, <2>1, <2>2, <2>4, <2>5, <2>7
<1>3. InspectWrite \/ UNCHANGED <<counters, file_path>>
  BY DEF Tracer, FirstWait, Loop, Wait, InspectOther, InspectFails, InspectKilled,
         ResumeCall, Resume, SkipExit, PrintCounters
<1> QED BY <1>1, <1>2, <1>3

\* CountInv is an inductive invariant of the tracer.
THEOREM WatcherInvariant == ASSUME NamesCover PROVE WatcherSpec => []CountInv
<1>1. CountInv /\ [Next]_vars => CountInv'
  <2>1. CountInv /\ UNCHANGED vars => CountInv'
    <3> SUFFICES ASSUME CountInv, UNCHANGED vars PROVE CountInv'
      OBVIOUS
    <3>1. \A n : Counted(n)' = Counted(n)
      BY CountedIs DEF vars, tracer
    <3> QED BY <3>1 DEF CountInv, vars, tracer, program, InStep, TypeOK, LastCall, OneEach,
                        BufferOK, Balance, Owed
  <2> QED BY <2>1, TraceCounts, TracerCounts DEF Next, Terminated
<1> QED BY CountInit, <1>1, PTL DEF WatcherSpec

\* The printed counters are what the program wrote, or more where a write was
\* short, failed or restarted.
THEOREM CountersRight == ASSUME NamesCover PROVE WatcherSpec => []CountsRight
<1>1. CountInv => CountsRight
  <2> SUFFICES ASSUME CountInv, pc = "printed", NEW n \in Name
               PROVE  Counted(n) = written[n] \/ (~ regular /\ Counted(n) > written[n])
    BY DEF CountInv, CountsRight
  <2>1. Owed(n) = 0 /\ tracee # "killed" /\ status # "killed"
    BY DEF CountInv, InStep, Owed
  <2>2. /\ written[n] + Owed(n) <= Counted(n)
        /\ regular => Counted(n) = written[n] + Owed(n)
    BY <2>1 DEF CountInv, Balance
  <2>3. written[n] \in Nat /\ Counted(n) \in Nat /\ regular \in BOOLEAN
    BY CountOf, CountedIs DEF CountInv, TypeOK
  <2> QED BY <2>1, <2>2, <2>3
<1> QED BY WatcherInvariant, <1>1, PTL

----------------------------------------------------------------------------
(* The words of a command *)

ChainSpec == ChainInit /\ [][ChainNext]_chainVars

TextWord == Argument \cup {" ", "|"}

\* The arguments are texts of words and separators.
TextsAreTexts == Texts \subseteq Seq(TextWord)

PlaceOf(c, s)    == SelectInSeq(s, LAMBDA w : w = c)
PlaceNotOf(c, s) == SelectInSeq(s, LAMBDA w : w # c)

\* Where the first c is, and where the first other word.
LEMMA FirstPlace ==
  ASSUME NEW s \in Seq(TextWord), NEW c
  PROVE  /\ PlaceOf(c, s) \in 0 .. Len(s) /\ PlaceNotOf(c, s) \in 0 .. Len(s)
         /\ PlaceOf(c, s) = 0 => \A i \in 1 .. Len(s) : s[i] # c
         /\ \A i \in 1 .. PlaceOf(c, s) - 1 : s[i] # c
<1>0. Len(s) \in Nat
  BY LenProperties
<1>1. /\ PlaceOf(c, s) \in 0 .. Len(s)
      /\ PlaceOf(c, s) = 0 => \A i \in 1 .. Len(s) : s[i] # c
      /\ \A i \in 1 .. PlaceOf(c, s) - 1 : s[i] # c
  <2> DEFINE I == {i \in 1 .. Len(s) : s[i] = c}
  <2>1. PlaceOf(c, s) = IF I # {} THEN Min(I) ELSE 0
    BY DEF PlaceOf, SelectInSeq
  <2>2. CASE I = {}
    BY <2>1, <2>2, <1>0
  <2>3. CASE I # {}
    <3>1. I \in SUBSET Nat
      OBVIOUS
    <3>2. Min(I) \in I /\ \A i \in I : Min(I) <= i
      <4> HIDE DEF I
      <4> QED BY <3>1, <2>3, MinIsLeast
    <3>3. ASSUME NEW i \in 1 .. Min(I) - 1 PROVE s[i] # c
      <4>1. i \in 1 .. Len(s) /\ i < Min(I)
        BY <3>2, <1>0
      <4>2. i \notin I
        BY <4>1, <3>2, <1>0
      <4> QED BY <4>1, <4>2
    <3>4. Min(I) \in 1 .. Len(s)
      BY <3>2
    <3>5. PlaceOf(c, s) = Min(I)
      BY <2>1, <2>3
    <3> HIDE DEF I
    <3> QED BY <3>3, <3>4, <3>5, <1>0
  <2> QED BY <2>2, <2>3
<1>2. PlaceNotOf(c, s) \in 0 .. Len(s)
  <2> DEFINE I == {i \in 1 .. Len(s) : s[i] # c}
  <2>1. PlaceNotOf(c, s) = IF I # {} THEN Min(I) ELSE 0
    BY DEF PlaceNotOf, SelectInSeq
  <2>2. I # {} => Min(I) \in I
    <3>1. I \in SUBSET Nat
      OBVIOUS
    <3> HIDE DEF I
    <3> QED BY <3>1, MinIsLeast
  <2> QED BY <2>1, <2>2, <1>0
<1> QED BY <1>1, <1>2

\* A token has no separator, and what strtok_r cuts it from and leaves are
\* parts of the text.
LEMMA TokenIs ==
  ASSUME NEW s \in Seq(TextWord), NEW c
  PROVE  /\ Token(s, c) \in Seq(TextWord) /\ Rest(s, c) \in Seq(TextWord)
         /\ \A i \in 1 .. Len(Token(s, c)) :
               /\ Token(s, c)[i] # c
               /\ \E j \in 1 .. Len(s) : Token(s, c)[i] = s[j]
         /\ \A i \in 1 .. Len(Rest(s, c)) : \E j \in 1 .. Len(s) : Rest(s, c)[i] = s[j]
<1>0. Len(s) \in Nat
  BY LenProperties
<1> DEFINE skipped == Skipped(s, c)
           token   == Token(s, c)
           first   == PlaceNotOf(c, s)
           end     == PlaceOf(c, skipped)
<1>1. skipped = IF first = 0 THEN <<>> ELSE SubSeq(s, first, Len(s))
  BY DEF Skipped, PlaceNotOf
<1>2. token = IF end = 0 THEN skipped ELSE SubSeq(skipped, 1, end - 1)
  BY DEF Token, PlaceOf
<1>3. first \in 0 .. Len(s)
  BY FirstPlace
<1> HIDE DEF first
<1>4. /\ skipped \in Seq(TextWord) /\ Len(skipped) \in Nat
      /\ \A i \in 1 .. Len(skipped) : \E j \in 1 .. Len(s) : skipped[i] = s[j]
  <2>1. CASE first = 0
    <3>1. skipped = <<>> /\ Len(<<>>) = 0 /\ <<>> \in Seq(TextWord)
      BY <2>1, <1>1, EmptySeq
    <3> QED BY <3>1
  <2>2. CASE first # 0
    <3>1. first \in 1 .. Len(s) + 1 /\ Len(s) \in first - 1 .. Len(s)
      BY <2>2, <1>0, <1>3
    <3>2. skipped = SubSeq(s, first, Len(s))
      BY <2>2, <1>1
    <3>3. /\ skipped \in Seq(TextWord) /\ Len(skipped) = Len(s) - first + 1
          /\ \A i \in 1 .. Len(s) - first + 1 : skipped[i] = s[first + i - 1]
      BY <3>1, <3>2, PartOfSeq
    <3>4. \A i \in 1 .. Len(s) - first + 1 : first + i - 1 \in 1 .. Len(s)
      BY <3>1, <1>0
    <3> QED BY <3>1, <3>3, <3>4, LenProperties
  <2> QED BY <2>1, <2>2
<1> HIDE DEF skipped
<1>5. /\ end \in 0 .. Len(skipped)
      /\ end = 0 => \A i \in 1 .. Len(skipped) : skipped[i] # c
      /\ \A i \in 1 .. end - 1 : skipped[i] # c
  BY <1>4, FirstPlace
<1> HIDE DEF end
<1>6. /\ token \in Seq(TextWord) /\ Len(token) \in 0 .. Len(skipped)
      /\ \A i \in 1 .. Len(token) : token[i] # c /\ token[i] = skipped[i]
                                    /\ i \in 1 .. Len(skipped)
  <2>1. CASE end = 0
    BY <2>1, <1>2, <1>4, <1>5
  <2>2. CASE end # 0
    <3>1. 1 \in 1 .. Len(skipped) + 1 /\ end - 1 \in 1 - 1 .. Len(skipped)
      BY <2>2, <1>4, <1>5
    <3>2. token = SubSeq(skipped, 1, end - 1)
      BY <2>2, <1>2
    <3>3. /\ token \in Seq(TextWord) /\ Len(token) = (end - 1) - 1 + 1
          /\ \A i \in 1 .. (end - 1) - 1 + 1 : token[i] = skipped[1 + i - 1]
      BY <3>1, <3>2, <1>4, PartOfSeq
    <3>4. (end - 1) - 1 + 1 = end - 1 /\ \A i \in 1 .. end - 1 : 1 + i - 1 = i
          /\ i \in 1 .. Len(skipped)
      BY <3>1, <1>4, <1>5
    <3> QED BY <3>1, <3>3, <3>4, <1>4, <1>5
  <2> QED BY <2>1, <2>2
<1> HIDE DEF token
<1>7. Rest(s, c) = SubSeq(skipped, Len(token) + 2, Len(skipped))
  BY DEF Rest, skipped, token
<1>8. /\ Rest(s, c) \in Seq(TextWord)
      /\ \A i \in 1 .. Len(Rest(s, c)) : \E j \in 1 .. Len(skipped) : Rest(s, c)[i] = skipped[j]
  <2> DEFINE m == Len(token) + 2
  <2>1. m \in Int /\ Len(token) \in Nat /\ m >= 2
    BY <1>4, <1>6
  <2> HIDE DEF m
  <2>2. CASE m > Len(skipped)
    <3>1. Rest(s, c) = <<>>
      BY <2>1, <2>2, <1>4, <1>7, SubSeqEmpty DEF m
    <3>2. Len(<<>>) = 0 /\ <<>> \in Seq(TextWord)
      BY EmptySeq
    <3> QED BY <3>1, <3>2
  <2>3. CASE m <= Len(skipped)
    <3>1. m \in 1 .. Len(skipped) + 1 /\ Len(skipped) \in m - 1 .. Len(skipped)
      BY <2>1, <2>3, <1>4
    <3>2. /\ SubSeq(skipped, m, Len(skipped)) \in Seq(TextWord)
          /\ Len(SubSeq(skipped, m, Len(skipped))) = Len(skipped) - m + 1
          /\ \A i \in 1 .. Len(skipped) - m + 1 :
                SubSeq(skipped, m, Len(skipped))[i] = skipped[m + i - 1]
      BY <3>1, <1>4, PartOfSeq
    <3>3. \A i \in 1 .. Len(skipped) - m + 1 : m + i - 1 \in 1 .. Len(skipped)
      BY <2>1, <2>3, <1>4
    <3> QED BY <3>2, <3>3, <1>7 DEF m
  <2> QED BY <2>1, <2>2, <2>3, <1>4
<1> QED BY <1>4, <1>6, <1>8 DEF token

\* What strtok_r cuts from a text without "|", and what it leaves, has no "|".
LEMMA PartsOf ==
  ASSUME NEW s \in Seq(TextWord), NEW c, \A i \in 1 .. Len(s) : s[i] # "|"
  PROVE  /\ Token(s, c) \in Seq(TextWord \ {c, "|"}) /\ Rest(s, c) \in Seq(TextWord)
         /\ \A i \in 1 .. Len(Rest(s, c)) : Rest(s, c)[i] # "|"
<1>1. Token(s, c) \in Seq(TextWord) /\ Rest(s, c) \in Seq(TextWord)
  BY TokenIs
<1>2. ASSUME NEW i \in 1 .. Len(Token(s, c)) PROVE Token(s, c)[i] # c
  BY TokenIs
<1>3. ASSUME NEW i \in 1 .. Len(Token(s, c))
      PROVE  \E j \in 1 .. Len(s) : Token(s, c)[i] = s[j]
  BY TokenIs
<1>4. ASSUME NEW i \in 1 .. Len(Rest(s, c))
      PROVE  \E j \in 1 .. Len(s) : Rest(s, c)[i] = s[j]
  BY TokenIs
<1>5. \A i \in 1 .. Len(Token(s, c)) : Token(s, c)[i] # "|"
  BY <1>3
<1>6. \A i \in 1 .. Len(Rest(s, c)) : Rest(s, c)[i] # "|"
  BY <1>4
<1> DEFINE token == Token(s, c)
<1>7. /\ token \in Seq(TextWord) /\ \A i \in 1 .. Len(token) : token[i] # c
      /\ \A i \in 1 .. Len(token) : token[i] # "|"
  BY <1>1, <1>2, <1>5
<1> HIDE DEF token
<1>8. token \in Seq(TextWord \ {c, "|"})
  <2>1. Len(token) \in Nat /\ token \in [1 .. Len(token) -> TextWord]
    BY <1>7, LenProperties
  <2>2. token \in [1 .. Len(token) -> TextWord \ {c, "|"}]
    BY <1>7, <2>1
  <2> QED BY <2>1, <2>2, SeqDef
<1> QED BY <1>1, <1>6, <1>8 DEF token

\* A word cut from a command is a word of a chain.
LEMMA NextWordIs ==
  ASSUME NEW s \in Seq(TextWord), \A i \in 1 .. Len(s) : s[i] # "|"
  PROVE  /\ Token(s, " ") \in Seq(Argument) /\ Rest(s, " ") \in Seq(TextWord)
         /\ \A i \in 1 .. Len(Rest(s, " ")) : Rest(s, " ")[i] # "|"
<1>1. TextWord \ {" ", "|"} = Argument
  BY DEF TextWord, Argument, Kind
<1>2. Token(s, " ") \in Seq(TextWord \ {" ", "|"})
  BY PartsOf
<1>3. Rest(s, " ") \in Seq(TextWord)
  BY PartsOf
<1>4. \A i \in 1 .. Len(Rest(s, " ")) : Rest(s, " ")[i] # "|"
  BY PartsOf
<1> QED BY <1>1, <1>2, <1>3, <1>4

----------------------------------------------------------------------------
(* Which process has which end of which pipe *)

ReadOf(k)  == IF k = 0 THEN Closed ELSE ReadEnd(k)
WriteOf(k) == IF k = 0 THEN Closed ELSE WriteEnd(k)

Holds(p, in, o, prev0, prev1, curr0, curr1) ==
    /\ fd[p]["in"] = in /\ fd[p]["out"] = o
    /\ fd[p]["prev0"] = prev0 /\ fd[p]["prev1"] = prev1
    /\ fd[p]["curr0"] = curr0 /\ fd[p]["curr1"] = curr1

\* The shell closes the ends of a pipe one turn after it made them, and of the
\* last pipe the end it does not read.
ShellHolds ==
    /\ at[Shell] \in {"command", "argument", "pipe", "fork", "close", "read", "done"}
    /\ at[Shell] \in {"command", "argument", "done"} =>
          Holds(Shell, Closed, Closed, Closed, Closed, Closed, Closed)
    /\ at[Shell] \in {"command", "argument"} => link = 1
    /\ at[Shell] = "pipe" =>
          Holds(Shell, Closed, Closed, Closed, Closed, ReadOf(link - 1), WriteOf(link - 1))
    /\ at[Shell] \in {"fork", "close"} =>
          /\ link <= Len(chain)
          /\ Holds(Shell, Closed, Closed, ReadOf(link - 1), WriteOf(link - 1),
                          ReadEnd(link), WriteEnd(link))
    /\ at[Shell] = "read" =>
          /\ link = Len(chain) + 1
          /\ Holds(Shell, Closed, Closed, Closed, Closed, ReadOf(link - 1), Closed)

\* A command is born with the ends of two pipes and keeps what it reads and
\* what it writes.
ChildHolds(p) ==
    /\ at[p] \in {"unborn", "stdin", "stdout", "exec", "run", "last", "done"}
    /\ at[p] \in {"unborn", "done"} => Holds(p, Closed, Closed, Closed, Closed, Closed, Closed)
    /\ at[p] = "stdin" =>
          Holds(p, Closed, Closed, ReadOf(p - 1), WriteOf(p - 1), ReadEnd(p), WriteEnd(p))
    /\ at[p] = "stdout" =>
          Holds(p, ReadOf(p - 1), Closed, ReadOf(p - 1), Closed, ReadEnd(p), WriteEnd(p))
    /\ at[p] \in {"exec", "run", "last"} =>
          Holds(p, ReadOf(p - 1), WriteEnd(p), ReadOf(p - 1), Closed, Closed, WriteEnd(p))

\* The chain grows only while the shell reads its argument, whose commands have
\* no "|".
WordsOK ==
    /\ tokens \in [text : Seq(TextWord), command : Seq(TextWord)]
    /\ \A i \in 1 .. Len(tokens.command) : tokens.command[i] # "|"
    /\ at[Shell] = "argument" => chain # <<>>
    /\ pipe \in [Link -> Seq(Nat)]

ChainInv == ChainTypeOK /\ WordsOK /\ ShellHolds /\ \A p \in Link : ChildHolds(p)

\* The table of the program has MAX_CHAIN_LINKS_COUNT places, and create_chain
\* does not look whether there are more commands.
Fits == Len(chain) <= MAX_CHAIN_LINKS_COUNT

\* At the beginning nothing is open.
LEMMA ChainInitInv == TextsAreTexts /\ ChainInit => ChainInv
<1> SUFFICES ASSUME TextsAreTexts, ChainInit PROVE ChainInv
  OBVIOUS
<1> USE DEF ChainInit
<1>1. /\ <<>> \in Seq(Seq(Argument)) /\ <<>> \in Seq(Nat) /\ <<>> \in Seq(TextWord)
      /\ Len(<<>>) = 0
  BY EmptySeq
<1>2. text \in Seq(TextWord)
  BY DEF TextsAreTexts
<1>3. /\ Capacity \in Nat /\ Shell \notin Link /\ Shell \in Process
      /\ \A p \in Link : p \in Process
  BY ProcChainAssumption DEF Shell, Link, Process
<1>4. ChainTypeOK
  <2>1. fd \in [Process -> [Slot -> {Closed} \cup (Link \X {"read", "write"})]]
    BY DEF NoFds
  <2>2. \A k \in Link : Len(pipe[k]) \in 0 .. Capacity
    BY <1>1, <1>3
  <2> QED BY <2>1, <2>2, <1>1, <1>3 DEF ChainTypeOK
<1>5. WordsOK
  BY <1>1, <1>2, <1>3 DEF WordsOK
<1>6. \A p \in Process : Holds(p, Closed, Closed, Closed, Closed, Closed, Closed)
  BY DEF NoFds, Holds, Slot
<1>7. ShellHolds /\ \A p \in Link : ChildHolds(p)
  BY <1>3, <1>6 DEF ShellHolds, ChildHolds
<1> QED BY <1>4, <1>5, <1>7 DEF ChainInv

\* Commands and their words are put into the chain while nothing is open.
LEMMA ReadsArgument ==
  ASSUME ChainInv, NextCommand \/ NextArgument
  PROVE  ChainInv'
<1> USE DEF ChainInv
<1>0. /\ Shell \in Process /\ Shell \notin Link /\ link = 1
      /\ chain \in Seq(Seq(Argument)) /\ Len(chain) \in Nat
      /\ UNCHANGED <<text, link, fd, pipe, left, out, failed>>
      /\ at \in [Process -> {"unborn", "command", "argument", "pipe", "fork", "close", "read",
                        "stdin", "stdout", "exec", "run", "last", "done"}]
      /\ Holds(Shell, Closed, Closed, Closed, Closed, Closed, Closed)
      /\ at[Shell] \in {"command", "argument"}
  <2>1. at[Shell] \in {"command", "argument"}
        /\ UNCHANGED <<text, link, fd, pipe, left, out, failed>>
    BY DEF NextCommand, NextArgument
  <2>2. link = 1 /\ Holds(Shell, Closed, Closed, Closed, Closed, Closed, Closed)
    BY <2>1 DEF ShellHolds
  <2>3. Shell \in Process /\ Shell \notin Link
    BY DEF Shell, Process, Link
  <2> QED BY <2>1, <2>2, <2>3, LenProperties DEF ChainTypeOK
<1>1. PICK w \in {"command", "argument", "pipe"} : at' = [at EXCEPT ![Shell] = w]
  <2>1. at = [at EXCEPT ![Shell] = at[Shell]]
    BY <1>0
  <2> QED BY <2>1, <1>0 DEF NextCommand, NextArgument
<1>2. /\ chain' \in Seq(Seq(Argument)) /\ Len(chain') \in Nat /\ Len(chain) <= Len(chain')
      /\ tokens' \in [text : Seq(TextWord), command : Seq(TextWord)]
      /\ \A i \in 1 .. Len(tokens'.command) : tokens'.command[i] # "|"
      /\ at'[Shell] = "argument" => chain' # <<>>
  <2>1. CASE UNCHANGED <<tokens, chain>> /\ at'[Shell] # "argument"
    BY <2>1, <1>0 DEF WordsOK
  <2>2. CASE /\ NextCommand /\ Token(tokens.text, "|") # <<>>
    <3>1. /\ tokens' = [text |-> Rest(tokens.text, "|"), command |-> Token(tokens.text, "|")]
          /\ chain' = Append(chain, <<>>)
      BY <2>2 DEF NextCommand
    <3>2. <<>> \in Seq(Argument)
      BY EmptySeq
    <3>3. /\ Append(chain, <<>>) \in Seq(Seq(Argument))
          /\ Len(Append(chain, <<>>)) = Len(chain) + 1
      BY <3>2, <1>0, AppendProperties
    <3>4. chain' # <<>>
      <4>1. Len(<<>>) = 0
        OBVIOUS
      <4> QED BY <4>1, <3>1, <3>3, <1>0
    <3>5. tokens.text \in Seq(TextWord)
      BY DEF WordsOK
    <3>6. /\ tokens' \in [text : Seq(TextWord), command : Seq(TextWord)]
          /\ \A i \in 1 .. Len(tokens'.command) : tokens'.command[i] # "|"
      BY <3>1, <3>5, TokenIs
    <3> QED BY <3>1, <3>3, <3>4, <3>6, <1>0
  <2>3. CASE /\ NextArgument /\ Token(tokens.command, " ") # <<>>
    <3> DEFINE command == tokens.command
               word    == Token(command, " ")
               rest    == Rest(command, " ")
    <3>1. /\ chain' = [chain EXCEPT ![Len(chain)] = @ \o word]
          /\ tokens' = [tokens EXCEPT !.command = rest]
          /\ at' = at /\ at[Shell] = "argument"
      BY <2>3 DEF NextArgument
    <3>2. /\ command \in Seq(TextWord) /\ chain # <<>>
          /\ tokens \in [text : Seq(TextWord), command : Seq(TextWord)]
          /\ \A j \in 1 .. Len(command) : command[j] # "|"
      BY <3>1 DEF WordsOK
    <3> HIDE DEF command
    <3>3. /\ word \in Seq(Argument) /\ rest \in Seq(TextWord)
          /\ \A i \in 1 .. Len(rest) : rest[i] # "|"
      BY <3>2, NextWordIs
    <3> HIDE DEF word, rest
    <3>4. word \in Seq(Argument)
      BY <3>3
    <3>5. Len(chain) \in 1 .. Len(chain)
      <4>1. Len(chain) # 0
        BY <3>2, <1>0, EmptySeq
      <4> QED BY <4>1, <1>0
    <3>6. chain[Len(chain)] \o word \in Seq(Argument)
      <4>1. chain[Len(chain)] \in Seq(Argument)
        BY <3>5, <1>0, ElementOfSeq
      <4> QED BY <4>1, <3>4, ConcatProperties
    <3>7. chain' \in Seq(Seq(Argument)) /\ Len(chain') = Len(chain)
      <4> DEFINE new == chain[Len(chain)] \o word
      <4>1. chain' = [chain EXCEPT ![Len(chain)] = new]
        BY <3>1
      <4>2. new \in Seq(Argument)
        BY <3>6
      <4> HIDE DEF new
      <4> QED BY <4>1, <4>2, <3>5, <1>0, ExceptSeq
    <3>8. chain' # <<>>
      <4>1. Len(<<>>) = 0
        OBVIOUS
      <4> QED BY <4>1, <3>5, <3>7, <1>0
    <3>9. /\ tokens' \in [text : Seq(TextWord), command : Seq(TextWord)]
          /\ tokens'.command = rest
      BY <3>1, <3>2, <3>3
    <3>10. \A i \in 1 .. Len(tokens'.command) : tokens'.command[i] # "|"
      BY <3>3, <3>9
    <3> QED BY <3>7, <3>8, <3>9, <3>10, <1>0
  <2>4. at'[Shell] = "argument" \/ at'[Shell] # "argument"
    OBVIOUS
  <2> QED BY <2>1, <2>2, <2>3, <1>0 DEF NextCommand, NextArgument
<1>3. ChainTypeOK'
  <2>1. link \in 1 .. Len(chain') + 1
    BY <1>0, <1>2
  <2> QED BY <2>1, <1>0, <1>1, <1>2 DEF ChainTypeOK
<1>4. WordsOK'
  BY <1>0, <1>2 DEF WordsOK
<1>5. ShellHolds'
  <2>1. Holds(Shell, Closed, Closed, Closed, Closed, Closed, Closed)'
    BY <1>0 DEF Holds
  <2>2. at'[Shell] \in {"command", "argument", "pipe"}
    BY <1>0, <1>1
  <2>3. ReadOf(link' - 1) = Closed /\ WriteOf(link' - 1) = Closed
    BY <1>0 DEF ReadOf, WriteOf
  <2> QED BY <2>1, <2>2, <2>3, <1>0 DEF ShellHolds
<1>6. \A p \in Link : ChildHolds(p)'
  BY <1>0, <1>1 DEF ChildHolds, Holds
<1> QED BY <1>3, <1>4, <1>5, <1>6

\* What is about one process is not disturbed by what another does.
LEMMA OthersHold ==
  ASSUME NEW p \in Process, at'[p] = at[p], fd'[p] = fd[p]
  PROVE  /\ p # Shell /\ ChildHolds(p) => ChildHolds(p)'
         /\ p = Shell /\ ShellHolds /\ UNCHANGED <<link, chain>> => ShellHolds'
<1>1. ASSUME p # Shell, ChildHolds(p) PROVE ChildHolds(p)'
  BY <1>1 DEF ChildHolds, Holds
<1>2. ASSUME p = Shell, ShellHolds, UNCHANGED <<link, chain>> PROVE ShellHolds'
  BY <1>2 DEF ShellHolds, Holds
<1> QED BY <1>1, <1>2

\* A step of the shell that leaves the children alone.
LEMMA ShellAlone ==
  ASSUME ChainInv, Fits, UNCHANGED <<tokens, chain, pipe, left, out>>,
         NEW d \in [Slot -> {Closed} \cup (Link \X {"read", "write"})],
         NEW a \in {"pipe", "fork", "close", "read", "done"},
         fd' = [fd EXCEPT ![Shell] = d], at' = [at EXCEPT ![Shell] = a],
         link' \in 1 .. Len(chain) + 1, failed' \in SUBSET Process, ShellHolds'
  PROVE  ChainInv'
<1> USE DEF ChainInv
<1>1. /\ Shell \in Process /\ Shell \notin Link /\ \A p \in Link : p \in Process
      /\ chain \in Seq(Seq(Argument))
  BY DEF Shell, Process, Link, ChainTypeOK
<1>2. ChainTypeOK'
  <2>1. fd' \in [Process -> [Slot -> {Closed} \cup (Link \X {"read", "write"})]]
    BY DEF ChainTypeOK
  <2>2. at' \in [Process -> {"unborn", "command", "argument", "pipe", "fork", "close", "read",
                        "stdin", "stdout", "exec", "run", "last", "done"}]
    BY DEF ChainTypeOK
  <2> QED BY <2>1, <2>2 DEF ChainTypeOK
<1>3. at'[Shell] = a
  BY <1>1 DEF ChainTypeOK
<1>4. WordsOK'
  BY <1>3 DEF WordsOK
<1>5. ASSUME NEW p \in Link PROVE ChildHolds(p)'
  <2>1. fd'[p] = fd[p] /\ at'[p] = at[p]
    BY <1>1 DEF ChainTypeOK
  <2> QED BY <2>1, <1>1, OthersHold
<1> QED BY <1>2, <1>4, <1>5

\* A step of a child that leaves the shell and the other children alone.
LEMMA ChildAlone ==
  ASSUME ChainInv, NEW p \in Link, UNCHANGED <<tokens, chain, link, failed, out>>,
         NEW d \in [Slot -> {Closed} \cup (Link \X {"read", "write"})],
         NEW a \in {"stdout", "exec", "run", "last", "done"},
         fd' = [fd EXCEPT ![p] = d], at' = [at EXCEPT ![p] = a],
         left' \in [Link -> Seq(Nat)], pipe' \in [Link -> Seq(Nat)],
         \A k \in Link : Len(pipe'[k]) \in 0 .. Capacity, ChildHolds(p)'
  PROVE  ChainInv'
<1> USE DEF ChainInv
<1>1. /\ Shell \in Process /\ Shell \notin Link /\ \A q \in Link : q \in Process
  BY DEF Shell, Process, Link
<1>2. ChainTypeOK'
  <2>1. fd' \in [Process -> [Slot -> {Closed} \cup (Link \X {"read", "write"})]]
    BY DEF ChainTypeOK
  <2>2. at' \in [Process -> {"unborn", "command", "argument", "pipe", "fork", "close", "read",
                        "stdin", "stdout", "exec", "run", "last", "done"}]
    BY DEF ChainTypeOK
  <2> QED BY <2>1, <2>2 DEF ChainTypeOK
<1>3. fd'[Shell] = fd[Shell] /\ at'[Shell] = at[Shell]
  BY <1>1 DEF ChainTypeOK
<1>4. WordsOK'
  BY <1>3 DEF WordsOK
<1>5. ShellHolds'
  BY <1>1, <1>3, OthersHold
<1>6. ASSUME NEW q \in Link PROVE ChildHolds(q)'
  <2>1. CASE q = p
    BY <2>1
  <2>2. CASE q # p
    <3>1. fd'[q] = fd[q] /\ at'[q] = at[q]
      BY <1>1, <2>2 DEF ChainTypeOK
    <3> QED BY <3>1, <1>1, OthersHold
  <2> QED BY <2>1, <2>2
<1> QED BY <1>2, <1>4, <1>5, <1>6

Fds == [Slot -> {Closed} \cup (Link \X {"read", "write"})]

\* What the shell's steps need to know of the shell.
LEMMA ShellFacts ==
  ASSUME ChainInv, Fits
  PROVE  /\ Shell \in Process /\ fd[Shell] \in Fds /\ fd \in [Process -> Fds]
         /\ DOMAIN at = Process /\ failed \in SUBSET Process /\ NoFds \in Fds
         /\ link \in 1 .. Len(chain) + 1 /\ Len(chain) \in Nat /\ link \in Nat
         /\ link <= Len(chain) => link \in Link /\ link \in Process
         /\ Len(chain) > 0 => Len(chain) \in Link
<1>1. /\ Len(chain) \in Nat /\ link \in 1 .. Len(chain) + 1 /\ link \in Nat
      /\ MAX_CHAIN_LINKS_COUNT \in Nat /\ Len(chain) <= MAX_CHAIN_LINKS_COUNT
  BY ProcChainAssumption, LenProperties DEF ChainInv, ChainTypeOK, Fits
<1>2. fd \in [Process -> Fds] /\ DOMAIN at = Process /\ failed \in SUBSET Process
  BY DEF ChainInv, ChainTypeOK, Fds
<1>3. Shell \in Process /\ NoFds \in Fds
  BY DEF Shell, Process, NoFds, Fds
<1> QED BY <1>1, <1>2, <1>3 DEF Link, Process

\* pipe: the new ends are current, the last ones previous.
LEMMA MakePipeKeeps ==
  ASSUME ChainInv, Fits, UNCHANGED <<text, tokens>>, MakePipe
  PROVE  ChainInv'
<1> DEFINE d == [fd[Shell] EXCEPT !["prev0"] = fd[Shell]["curr0"],
                                  !["prev1"] = fd[Shell]["curr1"],
                                  !["curr0"] = ReadEnd(link), !["curr1"] = WriteEnd(link)]
<1>1. /\ at[Shell] = "pipe" /\ link <= Len(chain) /\ fd' = [fd EXCEPT ![Shell] = d]
      /\ at' = [at EXCEPT ![Shell] = "fork"]
      /\ UNCHANGED <<chain, link, pipe, left, out, failed>>
  BY DEF MakePipe
<1>2. d \in Fds
  BY <1>1, ShellFacts DEF Slot, ReadEnd, WriteEnd, Fds
<1>3. Holds(Shell, Closed, Closed, Closed, Closed, ReadOf(link - 1), WriteOf(link - 1))
  BY <1>1 DEF ChainInv, ShellHolds
<1>4. fd'[Shell] = d /\ at'[Shell] = "fork"
  BY <1>1, ShellFacts
<1>5. Holds(Shell, Closed, Closed, ReadOf(link - 1), WriteOf(link - 1), ReadEnd(link), WriteEnd(link))'
  <2>1. /\ d["in"] = Closed /\ d["out"] = Closed
        /\ d["prev0"] = ReadOf(link - 1) /\ d["prev1"] = WriteOf(link - 1)
        /\ d["curr0"] = ReadEnd(link) /\ d["curr1"] = WriteEnd(link)
    BY <1>3, ShellFacts DEF Holds, Fds, Slot
  <2> HIDE DEF d
  <2> QED BY <1>1, <1>4, <2>1 DEF Holds
<1>6. ShellHolds'
  BY <1>1, <1>4, <1>5 DEF ShellHolds
<1> HIDE DEF d
<1> QED BY <1>1, <1>2, <1>6, ShellFacts, ShellAlone DEF Fds

\* The shell ends, when it cannot make a pipe and at the end of the last one.
LEMMA ShellEndKeeps ==
  ASSUME ChainInv, Fits, UNCHANGED <<text, tokens>>, PipeFails \/ ShellEnds
  PROVE  ChainInv'
<1>1. /\ fd' = [fd EXCEPT ![Shell] = NoFds] /\ at' = [at EXCEPT ![Shell] = "done"]
      /\ UNCHANGED <<chain, link, pipe, left, out>>
      /\ failed' = failed \cup {0} \/ failed' = failed
  BY DEF PipeFails, ShellEnds, End
<1>2. fd'[Shell] = NoFds /\ at'[Shell] = "done"
  BY <1>1, ShellFacts
<1>3. Holds(Shell, Closed, Closed, Closed, Closed, Closed, Closed)'
  BY <1>2 DEF Holds, NoFds, Slot
<1>4. ShellHolds'
  BY <1>2, <1>3 DEF ShellHolds
<1>5. failed' \in SUBSET Process
  BY <1>1, ShellFacts DEF Process, Shell
<1> QED BY <1>1, <1>4, <1>5, ShellFacts, ShellAlone DEF Fds

\* fork: the child has what the shell has.
LEMMA ForkKeeps ==
  ASSUME ChainInv, Fits, UNCHANGED <<text, tokens>>, Fork
  PROVE  ChainInv'
<1>1. /\ at[Shell] = "fork" /\ fd' = [fd EXCEPT ![link] = fd[Shell]]
      /\ at' = [at EXCEPT ![Shell] = "close", ![link] = "stdin"]
      /\ UNCHANGED <<chain, link, pipe, left, out, failed, tokens>>
  BY DEF Fork
<1>2. /\ link <= Len(chain) /\ link \in Link /\ link \in Process /\ link # Shell
      /\ Holds(Shell, Closed, Closed, ReadOf(link - 1), WriteOf(link - 1),
                      ReadEnd(link), WriteEnd(link))
  BY <1>1, ShellFacts DEF ChainInv, ShellHolds, Link, Shell
<1>3. /\ fd'[Shell] = fd[Shell] /\ at'[Shell] = "close"
      /\ fd'[link] = fd[Shell] /\ at'[link] = "stdin"
      /\ \A p \in Link \ {link} : fd'[p] = fd[p] /\ at'[p] = at[p]
  BY <1>1, <1>2, ShellFacts DEF Shell, Link, Process
<1>4. ChainTypeOK'
  <2>1. fd' \in [Process -> [Slot -> {Closed} \cup (Link \X {"read", "write"})]]
    BY <1>1, ShellFacts DEF Fds
  <2>2. at' \in [Process -> {"unborn", "command", "argument", "pipe", "fork", "close", "read",
                        "stdin", "stdout", "exec", "run", "last", "done"}]
    BY <1>1 DEF ChainInv, ChainTypeOK
  <2> QED BY <1>1, <2>1, <2>2 DEF ChainInv, ChainTypeOK
<1>5. WordsOK'
  BY <1>1, <1>3 DEF ChainInv, WordsOK
<1>6. ShellHolds'
  BY <1>1, <1>2, <1>3 DEF ShellHolds, Holds
<1>7. ASSUME NEW p \in Link PROVE ChildHolds(p)'
  <2>1. CASE p = link
    BY <1>1, <1>2, <1>3, <2>1 DEF ChildHolds, Holds
  <2>2. CASE p # link
    <3>1. fd'[p] = fd[p] /\ at'[p] = at[p] /\ p \in Process /\ p # Shell /\ ChildHolds(p)
      BY <1>3, <2>2 DEF ChainInv, Link, Process, Shell
    <3> QED BY <3>1, OthersHold
  <2> QED BY <2>1, <2>2
<1> QED BY <1>4, <1>5, <1>6, <1>7 DEF ChainInv

\* A failed fork changes nothing of what is open.
LEMMA ForkFailsKeeps ==
  ASSUME ChainInv, Fits, UNCHANGED <<text, tokens>>, ForkFails
  PROVE  ChainInv'
<1>1. /\ at[Shell] = "fork" /\ at' = [at EXCEPT ![Shell] = "close"]
      /\ failed' = failed \cup {link}
      /\ UNCHANGED <<chain, link, fd, pipe, left, out>>
  BY DEF ForkFails
<1>2. /\ link <= Len(chain)
      /\ Holds(Shell, Closed, Closed, ReadOf(link - 1), WriteOf(link - 1),
                      ReadEnd(link), WriteEnd(link))
  BY <1>1 DEF ChainInv, ShellHolds
<1>3. at'[Shell] = "close" /\ fd' = [fd EXCEPT ![Shell] = fd[Shell]]
      /\ failed' \in SUBSET Process
  BY <1>1, <1>2, ShellFacts
<1>4. ShellHolds'
  BY <1>1, <1>2, <1>3 DEF ShellHolds, Holds
<1> QED BY <1>1, <1>3, <1>4, ShellFacts, ShellAlone DEF Fds

\* The shell closes the previous pipe and goes on to the next link.
LEMMA ClosePrevKeeps ==
  ASSUME ChainInv, Fits, UNCHANGED <<text, tokens>>, ClosePrev
  PROVE  ChainInv'
<1> DEFINE d == [fd[Shell] EXCEPT !["prev0"] = Closed, !["prev1"] = Closed]
<1>1. /\ at[Shell] = "close" /\ fd' = [fd EXCEPT ![Shell] = d] /\ link' = link + 1
      /\ at' = [at EXCEPT ![Shell] = "pipe"]
      /\ UNCHANGED <<chain, pipe, left, out, failed>>
  BY DEF ClosePrev
<1>2. /\ link <= Len(chain)
      /\ Holds(Shell, Closed, Closed, ReadOf(link - 1), WriteOf(link - 1),
                      ReadEnd(link), WriteEnd(link))
  BY <1>1 DEF ChainInv, ShellHolds
<1>3. d \in Fds
  BY ShellFacts DEF Fds, Slot
<1>4. fd'[Shell] = d /\ at'[Shell] = "pipe"
  BY <1>1, ShellFacts
<1>5. ReadOf(link' - 1) = ReadEnd(link) /\ WriteOf(link' - 1) = WriteEnd(link)
  BY <1>1, ShellFacts DEF ReadOf, WriteOf
<1>6. Holds(Shell, Closed, Closed, Closed, Closed, ReadOf(link - 1), WriteOf(link - 1))'
  <2>1. /\ d["in"] = Closed /\ d["out"] = Closed
        /\ d["prev0"] = Closed /\ d["prev1"] = Closed
        /\ d["curr0"] = ReadEnd(link) /\ d["curr1"] = WriteEnd(link)
    BY <1>2, ShellFacts DEF Holds, Fds, Slot
  <2> HIDE DEF d
  <2> QED BY <1>1, <1>4, <1>5, <2>1 DEF Holds
<1> HIDE DEF d
<1>7. ShellHolds'
  BY <1>4, <1>6 DEF ShellHolds
<1>8. link' \in 1 .. Len(chain) + 1
  BY <1>1, <1>2, ShellFacts
<1> QED BY <1>1, <1>3, <1>7, <1>8, ShellFacts, ShellAlone DEF Fds

\* After the last link the shell keeps only the end it reads.
LEMMA CloseWriteEndKeeps ==
  ASSUME ChainInv, Fits, UNCHANGED <<text, tokens>>, CloseWriteEnd
  PROVE  ChainInv'
<1> DEFINE d == [fd[Shell] EXCEPT !["curr1"] = Closed]
<1>1. /\ at[Shell] = "pipe" /\ link > Len(chain) /\ fd' = [fd EXCEPT ![Shell] = d]
      /\ at' = [at EXCEPT ![Shell] = "read"]
      /\ UNCHANGED <<chain, link, pipe, left, out, failed>>
  BY ShellFacts DEF CloseWriteEnd
<1>2. Holds(Shell, Closed, Closed, Closed, Closed, ReadOf(link - 1), WriteOf(link - 1))
  BY <1>1 DEF ChainInv, ShellHolds
<1>3. d \in Fds
  BY ShellFacts DEF Fds, Slot
<1>4. fd'[Shell] = d /\ at'[Shell] = "read" /\ link' = Len(chain) + 1
  BY <1>1, ShellFacts
<1>5. Holds(Shell, Closed, Closed, Closed, Closed, ReadOf(link - 1), Closed)'
  BY <1>1, <1>2, <1>4, ShellFacts DEF Holds, Fds, Slot
<1>6. ShellHolds'
  BY <1>1, <1>4, <1>5 DEF ShellHolds
<1> HIDE DEF d
<1> QED BY <1>1, <1>3, <1>6, ShellFacts, ShellAlone DEF Fds

\* The front of a sequence that is not empty, and what is left without it.
LEMMA CutSeq ==
  ASSUME NEW S, NEW s \in Seq(S), NEW n \in 1 .. Len(s)
  PROVE  /\ SubSeq(s, 1, n) \in Seq(S)
         /\ SubSeq(s, n + 1, Len(s)) \in Seq(S)
         /\ Len(SubSeq(s, n + 1, Len(s))) \in 0 .. Len(s)
<1>1. Len(s) \in Nat /\ n \in Nat /\ 1 <= n /\ n <= Len(s)
  BY LenProperties
<1>2. /\ 1 \in 1 .. Len(s) + 1 /\ n \in 1 - 1 .. Len(s)
      /\ n + 1 \in 1 .. Len(s) + 1 /\ Len(s) \in (n + 1) - 1 .. Len(s)
  BY <1>1
<1>3. /\ SubSeq(s, 1, n) \in Seq(S)
      /\ SubSeq(s, n + 1, Len(s)) \in Seq(S)
      /\ Len(SubSeq(s, n + 1, Len(s))) = Len(s) - (n + 1) + 1
  BY <1>2, PartOfSeq
<1> QED BY <1>1, <1>3

\* What the shell reads it has no longer to read.
LEMMA ShellReadsKeeps ==
  ASSUME ChainInv, Fits, UNCHANGED <<text, tokens>>, ShellReads
  PROVE  ChainInv'
<1> DEFINE c == Len(chain)
           s == pipe[c]
<1>1. /\ c > 0 /\ UNCHANGED <<chain, link, at, fd, left, failed>>
  BY DEF ShellReads
<1>2. PICK n \in 1 .. Len(s) :
         /\ out' = out \o SubSeq(s, 1, n)
         /\ pipe' = [pipe EXCEPT ![c] = SubSeq(s, n + 1, Len(s))]
  BY DEF ShellReads
<1>3. c \in Link /\ pipe \in [Link -> Seq(Nat)] /\ out \in Seq(Nat)
      /\ Capacity \in Nat /\ \A k \in Link : Len(pipe[k]) \in 0 .. Capacity
  BY <1>1, ShellFacts, ProcChainAssumption DEF ChainInv, WordsOK, ChainTypeOK
<1> HIDE DEF c
<1>4. s \in Seq(Nat) /\ Len(s) \in 0 .. Capacity
  BY <1>3
<1> HIDE DEF s
<1> DEFINE t == SubSeq(s, n + 1, Len(s))
<1>5. SubSeq(s, 1, n) \in Seq(Nat) /\ t \in Seq(Nat) /\ Len(t) \in 0 .. Len(s)
  BY <1>4, CutSeq
<1> HIDE DEF t
<1>6. out' \in Seq(Nat)
  BY <1>2, <1>3, <1>5, ConcatProperties
<1>7. pipe' = [pipe EXCEPT ![c] = t]
  BY <1>2 DEF t
<1>8. pipe' \in [Link -> Seq(Nat)]
  BY <1>3, <1>5, <1>7
<1>9. \A k \in Link : Len(pipe'[k]) \in 0 .. Capacity
  <2>1. Len(t) \in 0 .. Capacity
    BY <1>3, <1>4, <1>5
  <2> QED BY <1>3, <1>7, <2>1
<1>10. ChainTypeOK' /\ WordsOK'
  BY <1>1, <1>6, <1>8, <1>9 DEF ChainInv, ChainTypeOK, WordsOK
<1>11. ShellHolds' /\ \A p \in Link : ChildHolds(p)'
  BY <1>1 DEF ChainInv, ShellHolds, ChildHolds, Holds
<1> QED BY <1>10, <1>11 DEF ChainInv

\* What a child's steps need to know of it.
LEMMA ChildFacts ==
  ASSUME ChainInv, NEW p \in Link
  PROVE  /\ p \in Process /\ fd[p] \in Fds /\ fd \in [Process -> Fds]
         /\ DOMAIN at = Process /\ NoFds \in Fds /\ p \in Nat /\ p - 1 \in Nat
         /\ p > 1 => p - 1 \in Link
         /\ left \in [Link -> Seq(Nat)] /\ pipe \in [Link -> Seq(Nat)]
         /\ \A k \in Link : Len(pipe[k]) \in 0 .. Capacity
         /\ at[p] \in {"unborn", "stdin", "stdout", "exec", "run", "last", "done"}
         /\ ChildHolds(p)
<1>1. fd \in [Process -> Fds] /\ DOMAIN at = Process /\ left \in [Link -> Seq(Nat)]
      /\ \A k \in Link : Len(pipe[k]) \in 0 .. Capacity
  BY DEF ChainInv, ChainTypeOK, Fds
<1>2. p \in Process /\ p \in Nat /\ p - 1 \in Nat /\ (p > 1 => p - 1 \in Link)
  BY ProcChainAssumption DEF Link, Process
<1>3. ChildHolds(p) /\ pipe \in [Link -> Seq(Nat)]
  BY DEF ChainInv, WordsOK
<1>4. NoFds \in Fds
  BY DEF NoFds, Fds
<1> QED BY <1>1, <1>2, <1>3, <1>4 DEF ChildHolds

\* A child that ends has nothing open.
LEMMA EndKeeps ==
  ASSUME ChainInv, NEW p \in Link, End(p),
         UNCHANGED <<text, tokens, chain, link, pipe, left, out, failed>>
  PROVE  ChainInv'
<1>1. fd' = [fd EXCEPT ![p] = NoFds] /\ at' = [at EXCEPT ![p] = "done"]
  BY DEF End
<1>2. fd'[p] = NoFds /\ at'[p] = "done"
  BY <1>1, ChildFacts
<1>3. ChildHolds(p)'
  BY <1>2 DEF ChildHolds, Holds, NoFds, Slot
<1> QED BY <1>1, <1>3, ChildFacts, ChildAlone DEF Fds

\* Between fork and exec a child moves the ends to its input and output.
LEMMA RedirectKeeps ==
  ASSUME ChainInv, NEW p \in Link, UNCHANGED <<text, tokens>>,
         ChildStdin(p) \/ ChildStdout(p)
  PROVE  ChainInv'
<1>1. CASE ChildStdin(p)
  <2> DEFINE d == [fd[p] EXCEPT !["prev1"] = Closed, !["in"] = fd[p]["prev0"]]
  <2>1. /\ at[p] = "stdin" /\ fd' = [fd EXCEPT ![p] = d] /\ at' = [at EXCEPT ![p] = "stdout"]
        /\ UNCHANGED <<chain, link, pipe, left, out, failed>>
    BY <1>1 DEF ChildStdin
  <2>2. d \in Fds
    BY ChildFacts, ZenonT(60) DEF Fds, Slot
  <2>3. /\ d["in"] = ReadOf(p - 1) /\ d["out"] = Closed
        /\ d["prev0"] = ReadOf(p - 1) /\ d["prev1"] = Closed
        /\ d["curr0"] = ReadEnd(p) /\ d["curr1"] = WriteEnd(p)
    BY <2>1, ChildFacts, SMTT(30) DEF ChildHolds, Holds, Fds, Slot
  <2> HIDE DEF d
  <2>4. fd'[p] = d /\ at'[p] = "stdout"
    BY <2>1, ChildFacts
  <2>5. ChildHolds(p)'
    BY <2>3, <2>4 DEF ChildHolds, Holds
  <2> QED BY <2>1, <2>2, <2>5, ChildFacts, ChildAlone DEF Fds
<1>2. CASE ChildStdout(p)
  <2> DEFINE d == [fd[p] EXCEPT !["curr0"] = Closed, !["out"] = fd[p]["curr1"]]
  <2>1. /\ at[p] = "stdout" /\ fd' = [fd EXCEPT ![p] = d] /\ at' = [at EXCEPT ![p] = "exec"]
        /\ UNCHANGED <<chain, link, pipe, left, out, failed>>
    BY <1>2 DEF ChildStdout
  <2>2. d \in Fds
    BY ChildFacts DEF Fds, Slot
  <2>3. /\ d["in"] = ReadOf(p - 1) /\ d["out"] = WriteEnd(p)
        /\ d["prev0"] = ReadOf(p - 1) /\ d["prev1"] = Closed
        /\ d["curr0"] = Closed /\ d["curr1"] = WriteEnd(p)
    BY <2>1, ChildFacts, SMTT(30) DEF ChildHolds, Holds, Fds, Slot
  <2> HIDE DEF d
  <2>4. fd'[p] = d /\ at'[p] = "exec"
    BY <2>1, ChildFacts
  <2>5. ChildHolds(p)'
    BY <2>3, <2>4 DEF ChildHolds, Holds
  <2> QED BY <2>1, <2>2, <2>5, ChildFacts, ChildAlone DEF Fds
<1> QED BY <1>1, <1>2

\* exec keeps what is open, and a command that does not exist ends.
LEMMA ExecKeeps ==
  ASSUME ChainInv, NEW p \in Link, UNCHANGED <<text, tokens>>, Exec(p)
  PROVE  ChainInv'
<1>1. at[p] = "exec" /\ UNCHANGED <<chain, link, pipe, out, failed>>
  BY DEF Exec
<1>2. CASE End(p) /\ UNCHANGED left
  BY <1>1, <1>2, EndKeeps
<1>3. CASE /\ at' = [at EXCEPT ![p] = "run"] /\ UNCHANGED fd
           /\ left' = [left EXCEPT ![p] = IF Command(p) = "writer" THEN Items ELSE <<>>]
  <2>1. left' \in [Link -> Seq(Nat)]
    <3>1. (IF Command(p) = "writer" THEN Items ELSE <<>>) \in Seq(Nat)
      BY ProcChainAssumption, EmptySeq
    <3> QED BY <1>3, <3>1, ChildFacts
  <2>2. at'[p] = "run" /\ fd'[p] = fd[p] /\ fd' = [fd EXCEPT ![p] = fd[p]]
    BY <1>3, ChildFacts
  <2>3. ChildHolds(p)'
    BY <1>1, <2>2, ChildFacts DEF ChildHolds, Holds
  <2> QED BY <1>1, <1>3, <2>1, <2>2, <2>3, ChildFacts, ChildAlone DEF Fds
<1> QED BY <1>2, <1>3 DEF Exec

\* A command reads its pipe and writes its pipe.
LEMMA PipeKeeps ==
  ASSUME ChainInv, NEW p \in Link, UNCHANGED <<text, tokens>>,
         ReadPipe(p) \/ WritePipe(p)
  PROVE  ChainInv'
<1> USE DEF Fds
<1>0. Capacity \in Nat /\ fd' = [fd EXCEPT ![p] = fd[p]]
  BY ProcChainAssumption, ChildFacts DEF ReadPipe, WritePipe
<1>1. CASE ReadPipe(p)
  <2> DEFINE s == pipe[p - 1]
  <2>1. /\ p > 1 /\ s # <<>> /\ at[p] = "run"
        /\ left' = [left EXCEPT ![p] = <<Head(s)>>]
        /\ pipe' = [pipe EXCEPT ![p - 1] = Tail(s)]
        /\ at' = [at EXCEPT ![p] = IF Command(p) = "taker" THEN "last" ELSE "run"]
        /\ UNCHANGED <<chain, link, fd, out, failed>>
    BY <1>1 DEF ReadPipe
  <2>2. p - 1 \in Link /\ s \in Seq(Nat) /\ Len(s) \in 0 .. Capacity
    BY <2>1, ChildFacts
  <2> HIDE DEF s
  <2>3. Head(s) \in Nat /\ Tail(s) \in Seq(Nat) /\ Len(Tail(s)) \in 0 .. Capacity
    <3>1. Head(s) \in Nat /\ Tail(s) \in Seq(Nat) /\ Len(Tail(s)) = Len(s) - 1
          /\ Len(s) \in Nat /\ Len(s) # 0
      BY <2>1, <2>2, HeadTailProperties, LenProperties, EmptySeq
    <3> QED BY <3>1, <2>2, <1>0
  <2>4. left' \in [Link -> Seq(Nat)]
    <3>1. <<Head(s)>> \in Seq(Nat)
      BY <2>3
    <3> QED BY <2>1, <3>1, ChildFacts
  <2>5. pipe' \in [Link -> Seq(Nat)]
    BY <2>1, <2>3, ChildFacts
  <2>6. \A k \in Link : Len(pipe'[k]) \in 0 .. Capacity
    <3> TAKE k \in Link
    <3>1. CASE k = p - 1
      BY <2>1, <2>2, <2>3, <3>1, ChildFacts
    <3>2. CASE k # p - 1
      BY <2>1, <3>2, ChildFacts
    <3> QED BY <3>1, <3>2
  <2>7. PICK a \in {"run", "last"} : at' = [at EXCEPT ![p] = a]
    BY <2>1
  <2>8. at'[p] = a /\ fd'[p] = fd[p]
    BY <2>1, <2>7, ChildFacts
  <2>9. ChildHolds(p)'
    BY <2>1, <2>8, ChildFacts DEF ChildHolds, Holds
  <2> QED BY <1>0, <2>1, <2>4, <2>5, <2>6, <2>7, <2>9, ChildFacts, ChildAlone
<1>2. CASE WritePipe(p)
  <2> DEFINE s == pipe[p]
             l == left[p]
  <2>1. /\ at[p] \in {"run", "last"} /\ l # <<>> /\ Len(s) < Capacity
        /\ left' = [left EXCEPT ![p] = Tail(l)]
        /\ pipe' = [pipe EXCEPT ![p] = Append(s, Head(l))]
        /\ UNCHANGED <<chain, link, at, fd, out, failed>>
    BY <1>2 DEF WritePipe
  <2>2. s \in Seq(Nat) /\ Len(s) \in 0 .. Capacity /\ l \in Seq(Nat)
    BY ChildFacts
  <2> HIDE DEF s, l
  <2>3. Head(l) \in Nat /\ Tail(l) \in Seq(Nat)
    BY <2>1, <2>2, HeadTailProperties
  <2> DEFINE t == Append(s, Head(l))
  <2>4. t \in Seq(Nat) /\ Len(t) \in 0 .. Capacity
    <3>1. t \in Seq(Nat) /\ Len(t) = Len(s) + 1
      BY <2>2, <2>3, AppendProperties
    <3> QED BY <3>1, <2>1, <2>2, <1>0
  <2> HIDE DEF t
  <2>5. pipe' = [pipe EXCEPT ![p] = t] /\ left' \in [Link -> Seq(Nat)]
    <3>1. pipe' = [pipe EXCEPT ![p] = t]
      BY <2>1 DEF t
    <3> QED BY <2>1, <2>3, <3>1, ChildFacts
  <2>6. pipe' \in [Link -> Seq(Nat)]
    BY <2>4, <2>5, ChildFacts
  <2>7. \A k \in Link : Len(pipe'[k]) \in 0 .. Capacity
    <3> TAKE k \in Link
    <3>1. CASE k = p
      BY <2>4, <2>5, <3>1, ChildFacts
    <3>2. CASE k # p
      BY <2>5, <3>2, ChildFacts
    <3> QED BY <3>1, <3>2
  <2>8. at' = [at EXCEPT ![p] = at[p]] /\ at'[p] = at[p] /\ fd'[p] = fd[p]
    BY <2>1, ChildFacts DEF ChainInv, ChainTypeOK
  <2>9. ChildHolds(p)'
    BY <2>1, <2>8, ChildFacts DEF ChildHolds, Holds
  <2> QED BY <1>0, <2>1, <2>5, <2>6, <2>7, <2>8, <2>9, ChildFacts, ChildAlone
<1> QED BY <1>1, <1>2

\* Every step keeps the invariant, as long as the chain fits its table.
LEMMA ChainNextInv ==
  ASSUME ChainInv, Fits, [ChainNext]_chainVars
  PROVE  ChainInv'
<1>1. CASE UNCHANGED chainVars
  BY <1>1 DEF chainVars, ChainInv, ChainTypeOK, WordsOK, ShellHolds, ChildHolds, Holds,
              Command
<1>2. CASE ShellStep
  <2>1. CASE NextCommand \/ NextArgument
    BY <2>1, ReadsArgument
  <2>2. CASE RunChain /\ UNCHANGED <<text, tokens>>
    BY <2>2, MakePipeKeeps, ShellEndKeeps, ForkKeeps, ForkFailsKeeps, ClosePrevKeeps,
       CloseWriteEndKeeps, ShellReadsKeeps DEF RunChain
  <2> QED BY <1>2, <2>1, <2>2 DEF ShellStep
<1>3. ASSUME NEW p \in Link, ChildStep(p) PROVE ChainInv'
  <2>1. UNCHANGED <<text, tokens>>
    BY <1>3 DEF ChildStep
  <2>2. CASE BrokenPipe(p) \/ Exit(p)
    BY <2>1, <2>2, EndKeeps DEF BrokenPipe, Exit
  <2>3. CASE ChildStdin(p) \/ ChildStdout(p)
    BY <2>1, <2>3, RedirectKeeps
  <2>4. CASE Exec(p)
    BY <2>1, <2>4, ExecKeeps
  <2>5. CASE ReadPipe(p) \/ WritePipe(p)
    BY <2>1, <2>5, PipeKeeps
  <2> QED BY <1>3, <2>2, <2>3, <2>4, <2>5 DEF ChildStep
<1> QED BY <1>1, <1>2, <1>3 DEF ChainNext, ChainEnded

\* Which ends each process of proc-chain has open at each place of run_chain
\* (chainy.c:112-170), for every argument whose commands fit the table.
THEOREM ChainInvariant ==
  ASSUME TextsAreTexts
  PROVE  ChainSpec /\ []Fits => []ChainInv
<1>1. ChainInit => ChainInv
  BY ChainInitInv
<1>2. ChainInv /\ Fits /\ [ChainNext]_chainVars => ChainInv'
  BY ChainNextInv
<1> QED BY <1>1, <1>2, PTL DEF ChainSpec

\* A running command holds the write end of no pipe but its own, and not the
\* end it is read from; the shell holds a pipe only while it works on a command
\* next to it.
LEMMA EndsAreOwned == ChainInv => EndsOwned
<1> SUFFICES ASSUME ChainInv PROVE EndsOwned
  OBVIOUS
<1>1. ASSUME NEW p \in Link, at[p] \in {"run", "last"}
      PROVE  /\ ~ HasOpen(p, ReadEnd(p))
             /\ p > 1 => ~ HasOpen(p, WriteEnd(p - 1))
             /\ \A q \in Link : HasOpen(p, WriteEnd(q)) => q = p
  <2>1. /\ Holds(p, ReadOf(p - 1), WriteEnd(p), ReadOf(p - 1), Closed, Closed, WriteEnd(p))
        /\ p \in Nat /\ 0 \notin Link
    BY <1>1, ChildFacts DEF ChildHolds, Link
  <2>2. ReadOf(p - 1) \in {Closed, ReadEnd(p - 1)}
    BY DEF ReadOf
  <2>3. \A k \in Nat : /\ ReadEnd(p) # WriteEnd(k) /\ ReadEnd(p - 1) # WriteEnd(k)
                       /\ Closed # WriteEnd(k) /\ Closed # ReadEnd(k)
                       /\ WriteEnd(p) = WriteEnd(k) => p = k
    BY DEF ReadEnd, WriteEnd, Closed
  <2>4. ReadEnd(p) # ReadEnd(p - 1) /\ ReadEnd(p) # WriteEnd(p)
    BY <2>1 DEF ReadEnd, WriteEnd
  <2>5. \A s \in Slot : fd[p][s] \in {Closed, ReadEnd(p - 1), WriteEnd(p)}
    BY <2>1, <2>2 DEF Holds, Slot
  <2>6. ~ HasOpen(p, ReadEnd(p))
    BY <2>1, <2>3, <2>4, <2>5 DEF HasOpen
  <2>7. \A q \in Link : HasOpen(p, WriteEnd(q)) => q = p
    <3> TAKE q \in Link
    <3>1. q \in Nat
      BY ChildFacts
    <3> QED BY <3>1, <2>3, <2>5 DEF HasOpen
  <2>8. p > 1 => ~ HasOpen(p, WriteEnd(p - 1))
    <3>1. p > 1 => p - 1 \in Nat /\ p - 1 # p
      BY <2>1
    <3> QED BY <3>1, <2>3, <2>5 DEF HasOpen
  <2> QED BY <2>6, <2>7, <2>8
<1>2. ASSUME NEW p \in Link, Shell \in Writers(p) PROVE link \in {p, p + 1}
  <2>1. PICK s \in Slot : fd[Shell][s] = WriteEnd(p)
    BY <1>2 DEF Writers, HasOpen
  <2>2. p \in Nat /\ p # 0 /\ link \in Nat
    BY ChildFacts, LenProperties DEF ChainInv, ChainTypeOK, Link
  <2>3. fd[Shell][s] \in {Closed, ReadOf(link - 1), WriteOf(link - 1),
                          ReadEnd(link), WriteEnd(link)}
    BY DEF ChainInv, ShellHolds, Holds, Slot
  <2>4. ReadOf(link - 1) # WriteEnd(p) /\ ReadEnd(link) # WriteEnd(p) /\ Closed # WriteEnd(p)
    BY <2>2 DEF ReadOf, ReadEnd, WriteEnd, Closed
  <2>5. WriteOf(link - 1) = WriteEnd(p) => link = p + 1
    BY <2>2 DEF WriteOf, WriteEnd, Closed
  <2>6. WriteEnd(link) = WriteEnd(p) => link = p
    BY <2>2 DEF WriteEnd
  <2> QED BY <2>1, <2>3, <2>4, <2>5, <2>6
<1>3. ChainTypeOK
  BY DEF ChainInv
<1>4. ASSUME NEW p \in Link, NEW q \in Link \ {p}, at[q] \in {"run", "last"}
      PROVE  q \notin Writers(p)
  BY <1>1, <1>4 DEF Writers
<1> QED BY <1>1, <1>2, <1>3, <1>4 DEF EndsOwned

\* The ends of the pipes of proc-chain are where run_chain leaves them: a
\* command sees the end of its input and the end of its readers.
THEOREM EndsStayOwned ==
  ASSUME TextsAreTexts
  PROVE  ChainSpec /\ []Fits => []EndsOwned
<1>1. ChainInv => EndsOwned
  BY EndsAreOwned
<1> QED BY <1>1, ChainInvariant, PTL

----------------------------------------------------------------------------
(* The commands a text asks for *)

Parsed == {r \in [chain : Seq(Seq(Argument)), open : BOOLEAN] : r.open => r.chain # <<>>}

\* A command that is begun, and what one more element makes of it.
LEMMA AsksIs ==
  ASSUME NEW r \in Parsed, NEW w \in TextWord
  PROVE  /\ Asks(r, w) \in Parsed
         /\ Begun(r) \in Seq(Seq(Argument)) /\ Len(Begun(r)) \in 1 .. Len(Begun(r))
         /\ w = "|" => Asks(r, w).chain = r.chain /\ ~ Asks(r, w).open
         /\ w # "|" => Asks(r, w).open
         /\ w = " " => Asks(r, w).chain = Begun(r)
         /\ w \in Argument => Asks(r, w).chain = [Begun(r) EXCEPT ![Len(Begun(r))] = Append(@, w)]
<1>1. /\ r.chain \in Seq(Seq(Argument)) /\ r.open \in BOOLEAN /\ (r.open => r.chain # <<>>)
      /\ r \in [chain : Seq(Seq(Argument)), open : BOOLEAN]
  BY DEF Parsed
<1> DEFINE c == Begun(r)
<1>2. c \in Seq(Seq(Argument)) /\ c # <<>>
  <2>1. <<>> \in Seq(Argument)
    BY EmptySeq
  <2>2. Append(r.chain, <<>>) \in Seq(Seq(Argument)) /\ Append(r.chain, <<>>) # <<>>
    BY <2>1, <1>1, AppendProperties
  <2> QED BY <2>2, <1>1 DEF Begun
<1> HIDE DEF c
<1>3. Len(c) \in 1 .. Len(c)
  BY <1>2, LenProperties, EmptySeq
<1>4. w = "|" \/ w = " " \/ (w \in Argument /\ w # "|" /\ w # " ")
  BY DEF TextWord, Argument, Kind
<1>5. CASE w = "|"
  <2>1. Asks(r, w) = [r EXCEPT !.open = FALSE]
    BY <1>5 DEF Asks
  <2>2. "|" \notin Argument
    BY DEF Argument, Kind
  <2> QED BY <2>1, <2>2, <1>1, <1>2, <1>3, <1>5 DEF Parsed, c
<1>6. CASE w = " "
  <2>1. Asks(r, w) = [chain |-> c, open |-> TRUE]
    BY <1>6 DEF Asks, c
  <2>2. " " \notin Argument
    BY DEF Argument, Kind
  <2>3. Asks(r, w) \in Parsed
    BY <2>1, <1>2 DEF Parsed
  <2>4. Asks(r, w).chain = Begun(r) /\ Asks(r, w).open
    BY <2>1 DEF c
  <2> QED BY <2>2, <2>3, <2>4, <1>2, <1>3, <1>6 DEF c
<1>7. CASE w \in Argument /\ w # "|" /\ w # " "
  <2> DEFINE word == Append(c[Len(c)], w)
             more == [c EXCEPT ![Len(c)] = word]
  <2>1. word \in Seq(Argument)
    <3>1. c[Len(c)] \in Seq(Argument)
      BY <1>2, <1>3, ElementOfSeq
    <3> QED BY <3>1, <1>7, AppendProperties
  <2>2. Asks(r, w) = [chain |-> more, open |-> TRUE]
    BY <1>7 DEF Asks, c
  <2> HIDE DEF word
  <2>3. more \in Seq(Seq(Argument)) /\ Len(more) = Len(c)
    BY <2>1, <1>2, <1>3, ExceptSeq
  <2>4. more # <<>>
    BY <2>3, <1>3
  <2>5. Asks(r, w).chain = [Begun(r) EXCEPT ![Len(Begun(r))] = Append(@, w)]
    BY <2>2 DEF word, c
  <2> HIDE DEF more
  <2>6. Asks(r, w) \in Parsed /\ Asks(r, w).open
    BY <2>2, <2>3, <2>4 DEF Parsed
  <2> QED BY <2>5, <2>6, <1>2, <1>3, <1>7 DEF c
<1> QED BY <1>4, <1>5, <1>6, <1>7

\* The recursion that AskedBy is.
LEMMA AskedByIs ==
  ASSUME NEW s \in Seq(TextWord)
  PROVE  LET R == AskedBy(s)
         IN  /\ R[0] = [chain |-> <<>>, open |-> FALSE]
             /\ \A i \in 1 .. Len(s) : R[i] = Asks(R[i - 1], s[i])
             /\ \A i \in 0 .. Len(s) : R[i] \in Parsed
<1> DEFINE n == Len(s)
           S == Parsed
           base == [chain |-> <<>>, open |-> FALSE]
           step(i, r) == Asks(r, s[i])
           R == CHOOSE f : f = [i \in 0 .. n |-> IF i = 0 THEN base ELSE step(i, f[i - 1])]
<1>0. n \in Nat /\ base \in S /\ \A i \in 1 .. n : s[i] \in TextWord
  <2>1. base \in S
    BY EmptySeq DEF Parsed
  <2> HIDE DEF base
  <2> QED BY <2>1, LenProperties, ElementOfSeq
<1>1. \A i \in 1 .. n, r \in S : step(i, r) \in S
  BY <1>0, AsksIs
<1> HIDE DEF step, S, n, base
<1>2. \E f \in [0 .. n -> S] :
         f = [i \in 0 .. n |-> IF i = 0 THEN base ELSE step(i, f[i - 1])]
  <2> DEFINE G == [i \in 1 .. n |-> [r \in S |-> step(i, r)]]
  <2>1. G \in [1 .. n -> [S -> S]] /\ base \in S /\ n \in Nat
    BY <1>0, <1>1
  <2>2. \A i \in 1 .. n, r \in S : G[i][r] = step(i, r)
    OBVIOUS
  <2> HIDE DEF G, R
  <2>3. PICK f \in [0 .. n -> S] : f[0] = base /\ \A i \in 1 .. n : f[i] = G[i][f[i - 1]]
    BY <2>1, RecursionHasValue, SMTT(60)
  <2>4. \A i \in 0 .. n : f[i] = IF i = 0 THEN base ELSE step(i, f[i - 1])
    <3> TAKE i \in 0 .. n
    <3>1. CASE i = 0
      BY <3>1, <2>3
    <3>2. CASE i # 0
      <4>1. i \in 1 .. n /\ i - 1 \in 0 .. n
        BY <3>2, <2>1
      <4>2. f[i - 1] \in S /\ f[i] = G[i][f[i - 1]]
        BY <4>1, <2>3
      <4> QED BY <4>1, <4>2, <3>2, <2>2
    <3> QED BY <3>1, <3>2
  <2>5. f = [i \in 0 .. n |-> IF i = 0 THEN base ELSE step(i, f[i - 1])]
    BY <2>3, <2>4
  <2> QED BY <2>3, <2>5
<1>3. R = [i \in 0 .. n |-> IF i = 0 THEN base ELSE step(i, R[i - 1])]
  BY <1>2
<1>4. AskedBy(s) = R
  BY DEF AskedBy, R, n, base, step
<1> HIDE DEF R
<1>5. R[0] = base /\ \A i \in 1 .. n : i - 1 \in 0 .. n /\ R[i] = step(i, R[i - 1])
  <2>1. \A i \in 0 .. n : R[i] = IF i = 0 THEN base ELSE step(i, R[i - 1])
    BY <1>3
  <2>2. 0 \in 0 .. n /\ \A i \in 1 .. n : i \in 0 .. n /\ i # 0 /\ i - 1 \in 0 .. n
    BY <1>0
  <2> QED BY <2>1, <2>2
<1> DEFINE K == {i \in 0 .. n : R[i] \notin S}
<1>6. ASSUME K # {} PROVE FALSE
  <2>1. PICK m \in K : \A k \in K : m <= k
    <3>1. K \in SUBSET Nat
      OBVIOUS
    <3> HIDE DEF K
    <3> QED BY <3>1, <1>6, MinIsLeast
  <2>2. m # 0
    BY <2>1, <1>0, <1>5
  <2>3. m \in 1 .. n /\ m - 1 \in 0 .. n /\ ~ (m <= m - 1)
    BY <2>1, <2>2, <1>0
  <2>4. R[m - 1] \in S
    BY <2>1, <2>3
  <2> QED BY <2>1, <2>3, <2>4, <1>1, <1>5
<1>7. \A i \in 0 .. n : R[i] \in S
  BY <1>6
<1> QED BY <1>4, <1>5, <1>7 DEF base, step, n, S
Blank == " "

\* Separators between commands, blanks, and a word, one element after the other.
LEMMA BarsRead ==
  ASSUME NEW s \in Seq(TextWord), NEW a \in 0 .. Len(s), NEW b \in a .. Len(s),
         \A i \in a + 1 .. b : s[i] = "|"
  PROVE  LET R == AskedBy(s)
         IN  R[b].chain = R[a].chain /\ (a < b => ~ R[b].open)
<1> DEFINE R == AskedBy(s)
           P == {j \in a .. b : R[j].chain = R[a].chain /\ (a < j => ~ R[j].open)}
<1>0. Len(s) \in Nat /\ a \in Nat /\ b \in Nat /\ a <= b /\ b <= Len(s)
  BY LenProperties
<1>1. /\ \A i \in 1 .. Len(s) : R[i] = Asks(R[i - 1], s[i])
      /\ \A i \in 0 .. Len(s) : R[i] \in Parsed
  BY AskedByIs
<1> HIDE DEF R
<1>2. a \in P
  BY <1>0
<1>3. ASSUME NEW i \in a .. b - 1, i \in P PROVE i + 1 \in P
  <2>1. /\ i + 1 \in a + 1 .. b /\ i + 1 \in 1 .. Len(s) /\ i + 1 - 1 = i /\ i \in 0 .. Len(s)
        /\ i + 1 \in a .. b
    BY <1>0
  <2>2. s[i + 1] = "|" /\ s[i + 1] \in TextWord /\ R[i] \in Parsed /\ R[i + 1] = Asks(R[i], s[i + 1])
    BY <2>1, <1>1, ElementOfSeq
  <2>3. R[i + 1].chain = R[i].chain /\ ~ R[i + 1].open
    <3> DEFINE w == s[i + 1]
               r == R[i]
    <3>1. w \in TextWord /\ w = "|" /\ r \in Parsed
      BY <2>2
    <3> HIDE DEF w, r
    <3>2. Asks(r, w).chain = r.chain /\ ~ Asks(r, w).open
      BY <3>1, AsksIs
    <3> QED BY <3>2, <2>2 DEF w, r
  <2> QED BY <2>1, <2>3, <1>3
<1>4. \A i \in a .. b : i \in P
  <2> HIDE DEF P
  <2> QED BY <1>0, <1>2, <1>3, StepByStep
<1>5. b \in P
  BY <1>0, <1>4
<1> QED BY <1>5 DEF R

\* Blanks begin a command, unless one goes on, and add no word to it.
LEMMA BlanksRead ==
  ASSUME NEW s \in Seq(TextWord), NEW a \in 0 .. Len(s), NEW b \in a + 1 .. Len(s),
         \A i \in a + 1 .. b : s[i] = Blank
  PROVE  LET R == AskedBy(s)
         IN  R[b].chain = Begun(R[a]) /\ R[b].open
<1>0. Len(s) \in Nat /\ a \in Nat /\ b \in Nat /\ a + 1 <= b /\ b <= Len(s) /\ a + 1 \in Nat
  <2>1. Len(s) \in Nat
    BY LenProperties
  <2> QED BY <2>1
<1> DEFINE R == AskedBy(s)
           P == {j \in a + 1 .. b : R[j].chain = Begun(R[a]) /\ R[j].open}
<1>a. /\ \A i \in 1 .. Len(s) : R[i] = Asks(R[i - 1], s[i])
      /\ \A i \in 0 .. Len(s) : R[i] \in Parsed
  BY AskedByIs
<1> HIDE DEF R
<1>1. ASSUME NEW i \in a .. b - 1
      PROVE  R[i + 1].chain = Begun(R[i]) /\ R[i + 1].open
  <2>1. /\ i + 1 \in a + 1 .. b /\ i + 1 \in 1 .. Len(s) /\ i + 1 - 1 = i /\ i \in 0 .. Len(s)
    BY <1>0
  <2> DEFINE w == s[i + 1]
             r == R[i]
  <2>2. R[i + 1] = Asks(r, w) /\ r \in Parsed
    BY <2>1, <1>a
  <2>3. w = Blank /\ w \in TextWord
    BY <2>1, ElementOfSeq
  <2> HIDE DEF w, r
  <2>4. w = " " /\ w # "|"
    BY <2>3 DEF Blank
  <2>5. Asks(r, w).chain = Begun(r) /\ Asks(r, w).open
    BY <2>2, <2>3, <2>4, AsksIs
  <2> QED BY <2>2, <2>5 DEF r
<1>2. a + 1 \in P
  <2>1. a \in a .. b - 1 /\ a + 1 \in a + 1 .. b
    BY <1>0
  <2> QED BY <2>1, <1>1
<1>3. ASSUME NEW i \in a + 1 .. b - 1, i \in P PROVE i + 1 \in P
  <2>1. i \in a .. b - 1 /\ i + 1 \in a + 1 .. b
    BY <1>0
  <2>2. R[i + 1].chain = Begun(R[i]) /\ R[i + 1].open
    BY <2>1, <1>1
  <2>3. Begun(R[i]) = Begun(R[a])
    BY <1>3 DEF Begun
  <2> QED BY <2>1, <2>2, <2>3
<1>4. \A i \in a + 1 .. b : i \in P
  <2> HIDE DEF P
  <2> QED BY <1>0, <1>2, <1>3, StepByStep
<1>5. b \in P
  <2>1. b \in a + 1 .. b
    BY <1>0
  <2> QED BY <2>1, <1>4
<1> QED BY <1>5 DEF R

\* A chain with more words in its last command.
Longer(c, words) == [c EXCEPT ![Len(c)] = @ \o words]

\* One more word after those that were added.
LEMMA LongerBy ==
  ASSUME NEW c \in Seq(Seq(Argument)), Len(c) \in 1 .. Len(c), NEW words \in Seq(Argument),
         NEW w \in Argument
  PROVE  LET m == Longer(c, words)
         IN  /\ m \in Seq(Seq(Argument)) /\ Len(m) = Len(c)
             /\ [m EXCEPT ![Len(m)] = Append(@, w)] = Longer(c, Append(words, w))
             /\ [c EXCEPT ![Len(c)] = Append(@, w)] = Longer(c, <<w>>)
<1> DEFINE n == Len(c)
           x == c[n]
<1>1. x \in Seq(Argument) /\ n \in 1 .. n /\ <<w>> \in Seq(Argument) /\ words \in Seq(Argument)
  BY ElementOfSeq
<1>2. x \o words \in Seq(Argument) /\ Append(x, w) \in Seq(Argument)
  BY <1>1, ConcatProperties, AppendProperties
<1>3. ASSUME NEW v \in Seq(Argument) PROVE Append(v \o words, w) = v \o Append(words, w)
  <2> DEFINE z == <<w>>
  <2>1. z \in Seq(Argument)
    BY <1>1
  <2>2. Append(v \o words, w) = (v \o words) \o z
    BY <2>1, ConcatProperties, AppendIsConcat
  <2>3. Append(words, w) = words \o z
    BY AppendIsConcat
  <2> HIDE DEF z
  <2>4. (v \o words) \o z = v \o (words \o z)
    BY <2>1, ConcatAssociative, SMTT(60)
  <2> QED BY <2>2, <2>3, <2>4
<1>4. Append(x, w) = x \o <<w>>
  BY <1>1, AppendIsConcat
<1> DEFINE y == x \o words
           m == [c EXCEPT ![n] = y]
<1>5. Longer(c, words) = m /\ Longer(c, Append(words, w)) = [c EXCEPT ![n] = Append(y, w)]
      /\ Longer(c, <<w>>) = [c EXCEPT ![n] = Append(x, w)]
  <2>1. Append(y, w) = x \o Append(words, w)
    BY <1>1, <1>3
  <2> QED BY <2>1, <1>4 DEF Longer
<1> HIDE DEF y
<1>6. m \in Seq(Seq(Argument)) /\ Len(m) = n /\ m[n] = y
  <2> HIDE DEF n
  <2> QED BY <1>1, <1>2, ExceptSeq DEF n, y
<1>7. [m EXCEPT ![n] = Append(@, w)] = [c EXCEPT ![n] = Append(y, w)]
  <2>1. [m EXCEPT ![n] = Append(@, w)] = [m EXCEPT ![n] = Append(y, w)]
    BY <1>6
  <2> HIDE DEF n
  <2> QED BY <2>1
<1> HIDE DEF m
<1> QED BY <1>5, <1>6, <1>7

\* The elements of a part of a text, from its first on.
LEMMA PartGrows ==
  ASSUME NEW s \in Seq(TextWord), NEW a \in 0 .. Len(s), NEW b \in a + 1 .. Len(s),
         \A i \in a + 1 .. b : s[i] \in Argument
  PROVE  /\ SubSeq(s, a + 1, b) \in Seq(Argument)
         /\ b = a + 1 => SubSeq(s, a + 1, b) = <<s[b]>>
         /\ b > a + 1 => SubSeq(s, a + 1, b) = Append(SubSeq(s, a + 1, b - 1), s[b])
<1>0. Len(s) \in Nat /\ a \in Nat /\ b \in Nat /\ a + 1 <= b /\ b <= Len(s) /\ a + 1 \in Int
      /\ a + 1 \in 1 .. Len(s) /\ b - 1 \in Int
  <2>1. Len(s) \in Nat
    BY LenProperties
  <2> QED BY <2>1
<1>1. SubSeq(s, a + 1, b) \in Seq(Argument)
  BY <1>0, SubSeqProperties
<1>2. SubSeq(s, a + 1, b - 1) \in Seq(Argument)
  <2>1. \A i \in a + 1 .. b - 1 : s[i] \in Argument
    BY <1>0
  <2> QED BY <1>0, <2>1, SubSeqProperties
<1>3. SubSeq(s, a + 1, b) = SubSeq(s, a + 1, b - 1) \o <<s[b]>>
  BY <1>0, SubSeqRecursiveSecond
<1>4. s[b] \in Argument /\ <<s[b]>> \in Seq(Argument)
  <2>1. s[b] \in Argument
    BY <1>0
  <2> QED BY <2>1
<1>5. CASE b = a + 1
  <2>1. SubSeq(s, a + 1, b - 1) = <<>>
    BY <1>0, <1>5, SubSeqEmpty
  <2>2. <<>> \o <<s[b]>> = <<s[b]>>
    BY <1>4, ConcatEmptySeq
  <2>3. SubSeq(s, a + 1, b) = <<s[b]>>
    BY <2>1, <2>2, <1>3
  <2> QED BY <2>3, <1>0, <1>1, <1>5
<1>6. CASE b > a + 1
  <2>1. Append(SubSeq(s, a + 1, b - 1), s[b]) = SubSeq(s, a + 1, b - 1) \o <<s[b]>>
    BY <1>2, <1>4, AppendIsConcat
  <2> QED BY <2>1, <1>0, <1>1, <1>3, <1>6
<1> QED BY <1>0, <1>5, <1>6

\* A word that stands at the end of a text or before a separator is added to
\* the command.
LEMMA WordRead ==
  ASSUME NEW s \in Seq(TextWord), NEW a \in 0 .. Len(s), NEW b \in a + 1 .. Len(s),
         \A i \in a + 1 .. b : s[i] \in Argument
  PROVE  LET R == AskedBy(s)
         IN  R[b].chain = Longer(Begun(R[a]), SubSeq(s, a + 1, b)) /\ R[b].open
<1>0. Len(s) \in Nat /\ a \in Nat /\ b \in Nat /\ a + 1 <= b /\ b <= Len(s) /\ a + 1 \in Nat
  <2>1. Len(s) \in Nat
    BY LenProperties
  <2> QED BY <2>1
<1> DEFINE R == AskedBy(s)
           c == Begun(R[a])
           word(j) == SubSeq(s, a + 1, j)
           P == {j \in a + 1 .. b : R[j].chain = Longer(c, word(j)) /\ R[j].open}
<1>a. /\ \A i \in 1 .. Len(s) : R[i] = Asks(R[i - 1], s[i])
      /\ \A i \in 0 .. Len(s) : R[i] \in Parsed
  BY AskedByIs
<1> HIDE DEF R
<1>1. ASSUME NEW i \in a .. b - 1
      PROVE  /\ R[i + 1].open /\ s[i + 1] \in Argument
             /\ R[i + 1].chain = [Begun(R[i]) EXCEPT ![Len(Begun(R[i]))] = Append(@, s[i + 1])]
  <2>1. /\ i + 1 \in a + 1 .. b /\ i + 1 \in 1 .. Len(s) /\ i + 1 - 1 = i /\ i \in 0 .. Len(s)
    BY <1>0
  <2> DEFINE w == s[i + 1]
             r == R[i]
  <2>2. R[i + 1] = Asks(r, w) /\ r \in Parsed
    BY <2>1, <1>a
  <2>3. w \in Argument /\ w \in TextWord
    BY <2>1 DEF TextWord
  <2>4. w # "|"
    BY <2>3 DEF Argument, Kind
  <2> HIDE DEF w, r
  <2>5. /\ Asks(r, w).chain = [Begun(r) EXCEPT ![Len(Begun(r))] = Append(@, w)]
        /\ Asks(r, w).open
    BY <2>2, <2>3, <2>4, AsksIs
  <2> QED BY <2>2, <2>3, <2>5 DEF r, w
<1>2. c \in Seq(Seq(Argument)) /\ Len(c) \in 1 .. Len(c)
  <2>1. R[a] \in Parsed
    BY <1>a
  <2>2. "|" \in TextWord
    BY DEF TextWord
  <2> QED BY <2>1, <2>2, AsksIs
<1>3. a + 1 \in P
  <2>1. a \in a .. b - 1 /\ a + 1 \in a + 1 .. b
    BY <1>0
  <2>2. \A i \in a + 1 .. a + 1 : s[i] \in Argument
    BY <2>1
  <2>3. word(a + 1) = <<s[a + 1]>>
    <3>1. ASSUME NEW e, e = a + 1 PROVE SubSeq(s, a + 1, e) = <<s[e]>>
      <4>1. e \in a + 1 .. Len(s) /\ \A i \in a + 1 .. e : s[i] \in Argument
        BY <3>1, <2>2, <1>0
      <4> QED BY <3>1, <4>1, PartGrows
    <3> QED BY <3>1
  <2> HIDE DEF c, word
  <2>4. s[a + 1] \in Argument /\ <<>> \in Seq(Argument)
    BY <2>1, EmptySeq
  <2>5. [c EXCEPT ![Len(c)] = Append(@, s[a + 1])] = Longer(c, <<s[a + 1]>>)
    BY <2>4, <1>2, LongerBy
  <2> QED BY <2>1, <2>3, <2>5, <1>1 DEF c
<1>4. ASSUME NEW i \in a + 1 .. b - 1, i \in P PROVE i + 1 \in P
  <2>1. i \in a .. b - 1 /\ i + 1 \in a + 1 .. b /\ i + 1 > a + 1 /\ i + 1 - 1 = i
        /\ i + 1 \in a + 1 .. Len(s) /\ i \in a + 1 .. Len(s)
    BY <1>0
  <2>2. /\ R[i + 1].open /\ s[i + 1] \in Argument
        /\ R[i + 1].chain = [Begun(R[i]) EXCEPT ![Len(Begun(R[i]))] = Append(@, s[i + 1])]
    BY <2>1, <1>1
  <2>3. \A j \in a + 1 .. i + 1 : s[j] \in Argument
    BY <1>0, <2>1
  <2>4. word(i) \in Seq(Argument) /\ word(i + 1) = Append(word(i), s[i + 1])
    <3>1. word(i + 1) = Append(word(i + 1 - 1), s[i + 1])
      BY <2>1, <2>3, PartGrows
    <3>2. \A j \in a + 1 .. i : s[j] \in Argument
      BY <2>3, <1>0
    <3>3. word(i) \in Seq(Argument)
      BY <2>1, <3>2, PartGrows
    <3> QED BY <3>1, <3>3, <2>1
  <2>5. Begun(R[i]) = Longer(c, word(i))
    BY <1>4 DEF Begun
  <2> DEFINE m == Longer(c, word(i))
  <2> HIDE DEF c, word
  <2>6. [m EXCEPT ![Len(m)] = Append(@, s[i + 1])] = Longer(c, Append(word(i), s[i + 1]))
    <3>1. ASSUME NEW words \in Seq(Argument), NEW w \in Argument, NEW n, n = Longer(c, words)
          PROVE  [n EXCEPT ![Len(n)] = Append(@, w)] = Longer(c, Append(words, w))
      BY <3>1, <1>2, LongerBy
    <3> QED BY <3>1, <2>2, <2>4, ZenonT(60)
  <2> HIDE DEF m
  <2>7. R[i + 1].chain = Longer(c, word(i + 1))
    BY <2>2, <2>4, <2>5, <2>6 DEF m
  <2> QED BY <2>1, <2>2, <2>7
<1>5. \A i \in a + 1 .. b : i \in P
  <2> HIDE DEF P
  <2> QED BY <1>0, <1>3, <1>4, StepByStep
<1>6. b \in P
  <2>1. b \in a + 1 .. b
    BY <1>0
  <2> QED BY <2>1, <1>5
<1> QED BY <1>6 DEF R

----------------------------------------------------------------------------
(* What strtok_r cuts, by its place in the text *)

\* What PlaceOf and PlaceNotOf find.
LEMMA Places ==
  ASSUME NEW s \in Seq(TextWord), NEW c
  PROVE  /\ PlaceOf(c, s) \in 0 .. Len(s) /\ PlaceNotOf(c, s) \in 0 .. Len(s)
         /\ PlaceOf(c, s) = 0 => \A i \in 1 .. Len(s) : s[i] # c
         /\ PlaceOf(c, s) # 0 => s[PlaceOf(c, s)] = c
         /\ \A i \in 1 .. PlaceOf(c, s) - 1 : s[i] # c
         /\ PlaceNotOf(c, s) = 0 => \A i \in 1 .. Len(s) : s[i] = c
         /\ PlaceNotOf(c, s) # 0 => s[PlaceNotOf(c, s)] # c
         /\ \A i \in 1 .. PlaceNotOf(c, s) - 1 : s[i] = c
<1>0. Len(s) \in Nat
  BY LenProperties
<1>1. ASSUME NEW x, x = PlaceOf(c, s)
      PROVE  /\ x \in 0 .. Len(s)
             /\ x = 0 => \A i \in 1 .. Len(s) : s[i] # c
             /\ x # 0 => s[x] = c
             /\ \A i \in 1 .. x - 1 : s[i] # c
  <2> DEFINE I == {i \in 1 .. Len(s) : s[i] = c}
  <2>1. x = IF I # {} THEN Min(I) ELSE 0
    BY <1>1 DEF PlaceOf, SelectInSeq
  <2>2. I \in SUBSET (1 .. Len(s))
    OBVIOUS
  <2>3. /\ x \in 0 .. Len(s) /\ (x = 0 => I = {}) /\ (x # 0 => x \in I)
        /\ \A i \in 1 .. x - 1 : i \notin I
    <3> HIDE DEF I
    <3> QED BY <1>0, <2>1, <2>2, LeastOf
  <2>4. \A i \in 1 .. x - 1 : i \in 1 .. Len(s)
    BY <2>3, <1>0
  <2> QED BY <2>3, <2>4
<1>2. ASSUME NEW x, x = PlaceNotOf(c, s)
      PROVE  /\ x \in 0 .. Len(s)
             /\ x = 0 => \A i \in 1 .. Len(s) : s[i] = c
             /\ x # 0 => s[x] # c
             /\ \A i \in 1 .. x - 1 : s[i] = c
  <2> DEFINE I == {i \in 1 .. Len(s) : s[i] # c}
  <2>1. x = IF I # {} THEN Min(I) ELSE 0
    BY <1>2 DEF PlaceNotOf, SelectInSeq
  <2>2. I \in SUBSET (1 .. Len(s))
    OBVIOUS
  <2>3. /\ x \in 0 .. Len(s) /\ (x = 0 => I = {}) /\ (x # 0 => x \in I)
        /\ \A i \in 1 .. x - 1 : i \notin I
    <3> HIDE DEF I
    <3> QED BY <1>0, <2>1, <2>2, LeastOf
  <2>4. \A i \in 1 .. x - 1 : i \in 1 .. Len(s)
    BY <2>3, <1>0
  <2> QED BY <2>3, <2>4
<1> QED BY <1>1, <1>2

\* A part of a part.
LEMMA PartOfPart ==
  ASSUME NEW s \in Seq(TextWord), NEW a \in 0 .. Len(s), NEW e \in a .. Len(s),
         NEW m \in 1 .. (e - a) + 1, NEW n \in m - 1 .. e - a
  PROVE  SubSeq(SubSeq(s, a + 1, e), m, n) = SubSeq(s, a + m, a + n)
<1>0. /\ Len(s) \in Nat /\ a \in Nat /\ e \in Nat /\ a <= e /\ e <= Len(s)
      /\ m \in Int /\ n \in Int /\ a + m \in Int /\ a + n \in Int /\ 1 <= m /\ m - 1 <= n /\ n <= e - a
  <2>1. Len(s) \in Nat
    BY LenProperties
  <2> QED BY <2>1
<1>1. CASE n < m
  <2>1. a + n < a + m
    BY <1>0, <1>1
  <2> QED BY <1>0, <1>1, <2>1, SubSeqEmpty
<1>2. CASE m <= n
  <2>1. /\ a + 1 \in 1 .. Len(s) /\ e \in 1 .. Len(s)
        /\ m \in 1 .. e - (a + 1) + 1 /\ n \in 1 .. e - (a + 1) + 1
        /\ (a + 1) + m - 1 = a + m /\ (a + 1) + n - 1 = a + n
    BY <1>0, <1>2
  <2> QED BY <2>1, SubSeqOfSubSeq
<1> QED BY <1>0, <1>1, <1>2

\* What strtok_r cuts from m, the elements a + 1 to e of a text: it skips up to
\* f, the token ends at g and one separator behind it is passed.
Cuts(s, a, e, c, m, f, g) ==
    /\ \A i \in a + 1 .. f : s[i] = c
    /\ \A i \in f + 1 .. g : s[i] # c
    /\ f = g => g = e
    /\ g < e => s[g + 1] = c
    /\ Token(m, c) = SubSeq(s, f + 1, g) /\ Rest(m, c) = SubSeq(s, g + 2, e)
    /\ Token(m, c) = <<>> <=> f = g

\* strtok_r cuts at such places.
LEMMA TokenPlaces ==
  ASSUME NEW s \in Seq(TextWord), NEW a \in 0 .. Len(s), NEW e \in a .. Len(s), NEW c,
         NEW m, m = SubSeq(s, a + 1, e)
  PROVE  \E f \in a .. e : \E g \in f .. e : Cuts(s, a, e, c, m, f, g)
<1>0. Len(s) \in Nat /\ a \in Nat /\ e \in Nat /\ a <= e /\ e <= Len(s)
  <2>1. Len(s) \in Nat
    BY LenProperties
  <2> QED BY <2>1
<1> DEFINE skipped == Skipped(m, c)
           token   == Token(m, c)
           first   == PlaceNotOf(c, m)
           end     == PlaceOf(c, skipped)
<1>1. skipped = IF first = 0 THEN <<>> ELSE SubSeq(m, first, Len(m))
  BY DEF Skipped, PlaceNotOf
<1>2. token = IF end = 0 THEN skipped ELSE SubSeq(skipped, 1, end - 1)
  BY DEF Token, PlaceOf
<1>3. Rest(m, c) = SubSeq(skipped, Len(token) + 2, Len(skipped))
  BY DEF Rest
<1>4. m \in Seq(TextWord) /\ Len(m) = e - a /\ \A i \in 1 .. e - a : m[i] = s[a + i]
  <2>1. ASSUME NEW b, b = a + 1
        PROVE  /\ SubSeq(s, b, e) \in Seq(TextWord) /\ Len(SubSeq(s, b, e)) = e - b + 1
               /\ \A i \in 1 .. e - b + 1 : SubSeq(s, b, e)[i] = s[b + i - 1]
    <3>1. b \in 1 .. Len(s) + 1 /\ e \in b - 1 .. Len(s)
      BY <1>0, <2>1
    <3> QED BY <3>1, PartOfSeq
  <2>2. e - (a + 1) + 1 = e - a /\ \A i \in 1 .. e - a : (a + 1) + i - 1 = a + i
    BY <1>0
  <2> QED BY <2>1, <2>2
<1>5. /\ first \in 0 .. Len(m)
      /\ first = 0 => \A i \in 1 .. Len(m) : m[i] = c
      /\ first # 0 => m[first] # c
      /\ \A i \in 1 .. first - 1 : m[i] = c
  <2>1. m \in Seq(TextWord)
    BY <1>4
  <2> QED BY ONLY <2>1, Places
<1> HIDE DEF first
<1>6. CASE first = 0
  <2>1. skipped = <<>>
    BY <1>1, <1>6
  <2>2. end = 0
    <3>1. <<>> \in Seq(TextWord) /\ Len(<<>>) = 0
      BY EmptySeq
    <3>2. ASSUME NEW t, t = <<>> PROVE PlaceOf(c, t) = 0
      <4>1. t \in Seq(TextWord) /\ Len(t) = 0
        BY <3>1, <3>2
      <4>2. PlaceOf(c, t) \in 0 .. Len(t)
        BY <4>1, Places
      <4> QED BY <4>1, <4>2
    <3> HIDE DEF skipped
    <3> QED BY <2>1, <3>2
  <2>3. token = <<>>
    BY <2>1, <2>2, <1>2
  <2>4. Rest(m, c) = <<>>
    <3>1. Len(<<>>) = 0
      BY EmptySeq
    <3>2. SubSeq(<<>>, 2, 0) = <<>>
      OBVIOUS
    <3>3. Len(token) + 2 = 2 /\ Len(skipped) = 0
      BY <3>1, <2>1, <2>3
    <3> HIDE DEF token, skipped
    <3> QED BY <2>1, <3>2, <3>3, <1>3
  <2>5. SubSeq(s, e + 1, e) = <<>> /\ SubSeq(s, e + 2, e) = <<>>
    BY <1>0, SubSeqEmpty
  <2>6. \A i \in a + 1 .. e : s[i] = c
    <3> TAKE i \in a + 1 .. e
    <3>1. i - a \in 1 .. e - a /\ a + (i - a) = i
      BY <1>0
    <3> QED BY <3>1, <1>4, <1>5, <1>6
  <2>7. e \in a .. e /\ e \in e .. e /\ \A i \in e + 1 .. e : s[i] # c
    BY <1>0
  <2> HIDE DEF token, skipped, end
  <2>8. /\ Token(m, c) = SubSeq(s, e + 1, e) /\ Rest(m, c) = SubSeq(s, e + 2, e)
        /\ Token(m, c) = <<>>
    BY <2>3, <2>4, <2>5 DEF token
  <2>9. ~ (e < e)
    BY <1>0
  <2>10. Cuts(s, a, e, c, m, e, e)
    BY <2>6, <2>7, <2>8, <2>9 DEF Cuts
  <2> QED BY <2>7, <2>10
<1>7. CASE first # 0
  <2> DEFINE f == a + first - 1
  <2>0. /\ f \in a .. e /\ f < e /\ a + first = f + 1 /\ first \in 1 .. e - a /\ f \in Nat
        /\ a + (e - a) = e /\ f \in 0 .. Len(s) /\ e \in f .. Len(s) /\ f + 1 \in 1 .. Len(s)
    BY <1>0, <1>4, <1>5, <1>7
  <2>1. skipped = SubSeq(s, f + 1, e)
    <3>1. first \in 1 .. (e - a) + 1 /\ e - a \in first - 1 .. e - a
      BY <1>0, <2>0
    <3>2. SubSeq(SubSeq(s, a + 1, e), first, e - a) = SubSeq(s, a + first, a + (e - a))
      BY <3>1, PartOfPart
    <3> QED BY <3>2, <2>0, <1>1, <1>4, <1>7
  <2>2. s[f + 1] # c /\ \A i \in a + 1 .. f : s[i] = c
    <3>1. m[first] = s[a + first]
      BY <2>0, <1>4
    <3>2. ASSUME NEW i \in a + 1 .. f PROVE s[i] = c
      <4>1. i - a \in 1 .. first - 1 /\ i - a \in 1 .. e - a /\ a + (i - a) = i
        BY <1>0, <2>0
      <4> QED BY <4>1, <1>4, <1>5
    <3> QED BY <3>1, <3>2, <2>0, <1>5, <1>7
  <2> HIDE DEF f
  <2>3. /\ skipped \in Seq(TextWord) /\ Len(skipped) = e - f
        /\ \A i \in 1 .. e - f : skipped[i] = s[f + i]
    <3>1. ASSUME NEW b, b = f + 1
          PROVE  /\ SubSeq(s, b, e) \in Seq(TextWord) /\ Len(SubSeq(s, b, e)) = e - b + 1
                 /\ \A i \in 1 .. e - b + 1 : SubSeq(s, b, e)[i] = s[b + i - 1]
      <4>1. b \in 1 .. Len(s) + 1 /\ e \in b - 1 .. Len(s)
        BY <1>0, <2>0, <3>1
      <4> QED BY <4>1, PartOfSeq
    <3>2. e - (f + 1) + 1 = e - f /\ \A i \in 1 .. e - f : (f + 1) + i - 1 = f + i
      BY <1>0, <2>0
    <3> HIDE DEF skipped
    <3>3. /\ skipped \in Seq(TextWord) /\ Len(skipped) = e - (f + 1) + 1
          /\ \A i \in 1 .. e - (f + 1) + 1 : skipped[i] = s[(f + 1) + i - 1]
      BY <2>1, <3>1
    <3>4. Len(skipped) = e - f
      BY <3>2, <3>3
    <3>5. ASSUME NEW i \in 1 .. e - f PROVE skipped[i] = s[f + i]
      <4>1. skipped[i] = s[(f + 1) + i - 1] /\ (f + 1) + i - 1 = f + i
        BY <3>2, <3>3
      <4> QED BY <4>1
    <3> QED BY <3>3, <3>4, <3>5
  <2> HIDE DEF skipped
  <2>4. /\ end \in 0 .. Len(skipped)
        /\ end = 0 => \A i \in 1 .. Len(skipped) : skipped[i] # c
        /\ end # 0 => skipped[end] = c
        /\ \A i \in 1 .. end - 1 : skipped[i] # c
    BY <2>3, Places
  <2> HIDE DEF end
  <2>5. CASE end = 0
    <3>1. token = SubSeq(s, f + 1, e)
      BY <1>2, <2>1, <2>5
    <3>2. Rest(m, c) = <<>>
      <4>1. SubSeq(skipped, e - f + 2, e - f) = <<>>
        <5>1. e - f + 2 \in Int /\ e - f \in Int /\ e - f < e - f + 2
          BY <1>0, <2>0
        <5> QED BY <5>1, <2>3, SubSeqEmpty
      <4>2. token = skipped
        BY <1>2, <2>5
      <4> QED BY <4>1, <4>2, <1>3, <2>3
    <3>3. SubSeq(s, e + 2, e) = <<>>
      BY <1>0, SubSeqEmpty
    <3>4. \A i \in f + 1 .. e : s[i] # c
      <4> TAKE i \in f + 1 .. e
      <4>1. i - f \in 1 .. e - f /\ f + (i - f) = i
        BY <1>0, <2>0
      <4> QED BY <4>1, <2>3, <2>4, <2>5
    <3>5. token # <<>> /\ f # e
      <4>1. Len(token) = e - f /\ Len(<<>>) = 0 /\ e - f # 0
        BY <1>2, <2>0, <2>3, <2>5, <1>0, EmptySeq
      <4> QED BY <4>1, <2>0
    <3>6. e \in f .. e /\ ~ (e < e)
      BY <1>0, <2>0
    <3> HIDE DEF token
    <3>7. Token(m, c) = SubSeq(s, f + 1, e) /\ Rest(m, c) = SubSeq(s, e + 2, e) /\ Token(m, c) # <<>>
      BY <3>1, <3>2, <3>3, <3>5 DEF token
    <3>8. Cuts(s, a, e, c, m, f, e)
      BY <2>0, <2>2, <3>4, <3>5, <3>6, <3>7 DEF Cuts
    <3> QED BY <2>0, <3>6, <3>8
  <2>6. CASE end # 0
    <3> DEFINE g == f + end - 1
    <3>1. end # 1
      <4>1. skipped[1] = s[f + 1]
        BY <2>0, <2>3, <1>0
      <4> QED BY <4>1, <2>2, <2>4, <2>6
    <3>2. /\ g \in f .. e /\ f < g /\ g < e /\ g + 1 = f + end /\ end \in 1 .. e - f
          /\ end - 1 \in 0 .. e - f /\ f + (end - 1) = g /\ f + 1 <= g /\ f # g
          /\ g \in Nat
      BY <3>1, <2>0, <2>3, <2>4, <2>6, <1>0
    <3>3. token = SubSeq(s, f + 1, g)
      <4>1. 1 \in 1 .. (e - f) + 1 /\ end - 1 \in 1 - 1 .. e - f
        BY <3>2, <2>0, <1>0
      <4>2. SubSeq(SubSeq(s, f + 1, e), 1, end - 1) = SubSeq(s, f + 1, f + (end - 1))
        BY <4>1, <2>0, PartOfPart
      <4> QED BY <4>2, <3>2, <1>2, <2>1, <2>6
    <3> HIDE DEF g
    <3>4. Len(token) = g - f /\ token # <<>>
      <4>1. ASSUME NEW b, b = f + 1 PROVE Len(SubSeq(s, b, g)) = g - b + 1
        <5>1. b \in 1 .. Len(s) + 1 /\ g \in b - 1 .. Len(s)
          BY <1>0, <2>0, <3>2, <4>1
        <5> QED BY <5>1, PartOfSeq
      <4>2. g - (f + 1) + 1 = g - f /\ g - f # 0
        BY <2>0, <3>2
      <4>3. Len(<<>>) = 0
        BY EmptySeq
      <4> QED BY <4>1, <4>2, <4>3, <3>3
    <3> HIDE DEF token
    <3>5. Rest(m, c) = SubSeq(s, g + 2, e)
      <4>1. /\ g - f + 2 \in 1 .. (e - f) + 1 /\ e - f \in (g - f + 2) - 1 .. e - f
            /\ f + (g - f + 2) = g + 2 /\ f + (e - f) = e
        BY <1>0, <2>0, <3>2
      <4>2. SubSeq(SubSeq(s, f + 1, e), g - f + 2, e - f) = SubSeq(s, f + (g - f + 2), f + (e - f))
        BY <4>1, <2>0, PartOfPart
      <4> QED BY <4>1, <4>2, <3>4, <1>3, <2>1, <2>3
    <3>6. \A i \in f + 1 .. g : s[i] # c
      <4> TAKE i \in f + 1 .. g
      <4>1. i - f \in 1 .. end - 1 /\ i - f \in 1 .. e - f /\ f + (i - f) = i
        BY <1>0, <2>0, <3>2
      <4>2. i - f \in 1 .. Len(skipped)
        BY <4>1, <2>3
      <4> QED BY <4>1, <4>2, <2>3, <2>4
    <3>7. s[g + 1] = c
      BY <3>2, <2>3, <2>4, <2>6
    <3>8. Token(m, c) = SubSeq(s, f + 1, g) /\ Token(m, c) # <<>>
      BY <3>3, <3>4 DEF token
    <3>9. Cuts(s, a, e, c, m, f, g)
      BY <2>0, <2>2, <3>2, <3>5, <3>6, <3>7, <3>8 DEF Cuts
    <3> QED BY <2>0, <3>2, <3>9
  <2> QED BY <2>5, <2>6
<1> QED BY <1>6, <1>7

----------------------------------------------------------------------------
(* How far create_chain has come *)

\* Before a command: what is left of the text begins behind its first c elements,
\* which no command goes on from, and the chain is what they ask for.
CommandAt(s, rest, made) ==
    \E c \in 0 .. Len(s) :
       /\ rest = SubSeq(s, c + 1, Len(s))
       /\ made = AskedBy(s)[c].chain
       /\ c < Len(s) => ~ AskedBy(s)[c].open

\* Within a command: its next word begins behind the first a elements, it ends
\* with element e, and the chain has it, with the words before.
ArgumentAt(s, rest, command, made) ==
    \E a \in 0 .. Len(s) : \E e \in a .. Len(s) :
       /\ command = SubSeq(s, a + 1, e) /\ \A i \in a + 1 .. e : s[i] # "|"
       /\ rest = SubSeq(s, e + 2, Len(s)) /\ (e < Len(s) => s[e + 1] = "|")
       /\ made = Begun(AskedBy(s)[a]) /\ (AskedBy(s)[a].open \/ a < e)

\* create_chain begins before the first command.
LEMMA TextBegins == ASSUME NEW s \in Seq(TextWord) PROVE CommandAt(s, s, <<>>)
<1>1. AskedBy(s)[0] = [chain |-> <<>>, open |-> FALSE]
  BY AskedByIs
<1>2. s = SubSeq(s, 0 + 1, Len(s))
  <2>1. SubSeq(s, 1, Len(s)) = s
    BY SubSeqFull
  <2> QED BY <2>1
<1>3. 0 \in 0 .. Len(s)
  BY LenProperties
<1> QED BY <1>1, <1>2, <1>3 DEF CommandAt

\* The outer strtok_r takes the next command, or none is left to take.
LEMMA CommandCut ==
  ASSUME NEW s \in Seq(TextWord), NEW rest, NEW made, CommandAt(s, rest, made)
  PROVE  /\ Token(rest, "|") = <<>> => made = AskedBy(s)[Len(s)].chain
         /\ Token(rest, "|") # <<>> =>
               ArgumentAt(s, Rest(rest, "|"), Token(rest, "|"), Append(made, <<>>))
<1> DEFINE R == AskedBy(s)
           e == Len(s)
<1>1. PICK c \in 0 .. e : /\ rest = SubSeq(s, c + 1, e) /\ made = R[c].chain
                          /\ c < e => ~ R[c].open
  BY DEF CommandAt
<1>0. e \in Nat /\ c \in Nat /\ c <= e /\ e \in c .. e
  <2>1. e \in Nat
    BY LenProperties
  <2> HIDE DEF e
  <2> QED BY <2>1
<1>2. PICK f \in c .. e : \E g \in f .. e : Cuts(s, c, e, "|", rest, f, g)
  BY <1>0, <1>1, TokenPlaces
<1>3. PICK g \in f .. e :
            /\ \A i \in c + 1 .. f : s[i] = "|"
            /\ \A i \in f + 1 .. g : s[i] # "|"
            /\ f = g => g = e
            /\ g < e => s[g + 1] = "|"
            /\ Token(rest, "|") = SubSeq(s, f + 1, g) /\ Rest(rest, "|") = SubSeq(s, g + 2, e)
            /\ Token(rest, "|") = <<>> <=> f = g
  BY <1>2 DEF Cuts
<1>4. R[f].chain = R[c].chain /\ (c < f => ~ R[f].open)
  BY <1>3, BarsRead
<1> HIDE DEF R
<1>5. CASE f = g
  BY <1>1, <1>3, <1>4, <1>5 DEF R
<1>6. CASE f # g
  <2>1. f < g /\ f \in 0 .. e /\ g \in f .. e
    BY <1>0, <1>6
  <2>2. ~ R[f].open
    <3>1. c < f \/ (c = f /\ c < e)
      BY <1>0, <2>1
    <3> QED BY <3>1, <1>1, <1>4
  <2>3. Append(made, <<>>) = Begun(R[f])
    BY <2>2, <1>1, <1>4 DEF Begun
  <2> DEFINE command == Token(rest, "|")
             after   == Rest(rest, "|")
             more    == Append(made, <<>>)
  <2>4. /\ command = SubSeq(s, f + 1, g) /\ \A i \in f + 1 .. g : s[i] # "|"
        /\ after = SubSeq(s, g + 2, e) /\ (g < e => s[g + 1] = "|")
        /\ command # <<>> /\ more = Begun(R[f])
    BY <1>3, <1>6, <2>3
  <2> HIDE DEF command, after, more
  <2>5. ArgumentAt(s, after, command, more)
    BY <2>1, <2>4 DEF ArgumentAt, R
  <2> QED BY <2>4, <2>5 DEF command, after, more
<1> QED BY <1>5, <1>6

\* The inner strtok_r takes the next word of the command, or the command is
\* complete.
LEMMA WordCut ==
  ASSUME NEW s \in Seq(TextWord), NEW rest, NEW command, NEW made,
         ArgumentAt(s, rest, command, made)
  PROVE  /\ Token(command, Blank) = <<>> => CommandAt(s, rest, made)
         /\ Token(command, Blank) # <<>> =>
               ArgumentAt(s, rest, Rest(command, Blank), Longer(made, Token(command, Blank)))
<1> DEFINE R == AskedBy(s)
           n == Len(s)
<1>1. PICK a \in 0 .. n : \E e \in a .. n :
       /\ command = SubSeq(s, a + 1, e) /\ \A i \in a + 1 .. e : s[i] # "|"
       /\ rest = SubSeq(s, e + 2, n) /\ (e < n => s[e + 1] = "|")
       /\ made = Begun(R[a]) /\ (R[a].open \/ a < e)
  BY DEF ArgumentAt
<1>2. PICK e \in a .. n :
       /\ command = SubSeq(s, a + 1, e) /\ \A i \in a + 1 .. e : s[i] # "|"
       /\ rest = SubSeq(s, e + 2, n) /\ (e < n => s[e + 1] = "|")
       /\ made = Begun(R[a]) /\ (R[a].open \/ a < e)
  BY <1>1
<1>0. n \in Nat /\ a \in Nat /\ e \in Nat /\ a <= e /\ e <= n
  <2>1. n \in Nat
    BY LenProperties
  <2> HIDE DEF n
  <2> QED BY <2>1
<1>3. PICK f \in a .. e : \E g \in f .. e : Cuts(s, a, e, Blank, command, f, g)
  BY <1>2, TokenPlaces
<1>4. PICK g \in f .. e :
            /\ \A i \in a + 1 .. f : s[i] = Blank
            /\ \A i \in f + 1 .. g : s[i] # Blank
            /\ f = g => g = e
            /\ g < e => s[g + 1] = Blank
            /\ Token(command, Blank) = SubSeq(s, f + 1, g)
            /\ Rest(command, Blank) = SubSeq(s, g + 2, e)
            /\ Token(command, Blank) = <<>> <=> f = g
  BY <1>3 DEF Cuts
<1>5. /\ f \in Nat /\ g \in Nat /\ a <= f /\ f <= g /\ g <= e
      /\ f \in 0 .. n /\ g \in 0 .. n /\ e \in 0 .. n
  BY <1>0
<1>6. a < f => R[f].chain = Begun(R[a]) /\ R[f].open
  <2>1. a < f => f \in a + 1 .. n
    BY <1>0, <1>5
  <2> QED BY <2>1, <1>4, BlanksRead
<1>7. Begun(R[f]) = made
  BY <1>0, <1>2, <1>5, <1>6, SMTT(30) DEF Begun
<1> HIDE DEF R
<1>8. CASE f = g
  <2>1. f = e
    BY <1>4, <1>8
  <2>2. made = R[e].chain
    <3>1. CASE a < e
      BY <3>1, <2>1, <1>2, <1>6
    <3>2. CASE a = e
      BY <3>2, <1>0, <1>2 DEF Begun
    <3> QED BY <3>1, <3>2, <1>0
  <2>3. CASE e < n
    <3>1. e + 1 \in 0 .. n /\ e + 1 \in e .. n /\ (e + 1) + 1 = e + 2 /\ e < e + 1
          /\ \A i \in e + 1 .. e + 1 : i = e + 1
      BY <1>0, <2>3
    <3>2. \A i \in e + 1 .. e + 1 : s[i] = "|"
      BY <3>1, <1>2, <2>3
    <3>3. R[e + 1].chain = R[e].chain /\ ~ R[e + 1].open
      BY <3>1, <3>2, <1>5, BarsRead DEF R
    <3>4. rest = SubSeq(s, (e + 1) + 1, n)
      BY <3>1, <1>2
    <3>5. CommandAt(s, rest, made)
      BY <3>1, <3>3, <3>4, <2>2 DEF CommandAt, R
    <3> QED BY <3>5, <1>4, <1>8
  <2>4. CASE e = n
    <3>1. SubSeq(s, n + 2, n) = <<>> /\ SubSeq(s, n + 1, n) = <<>>
      BY <1>0, SubSeqEmpty
    <3>2. rest = SubSeq(s, e + 1, n) /\ ~ (e < n)
      BY <3>1, <2>4, <1>0, <1>2
    <3>3. CommandAt(s, rest, made)
      BY <3>2, <2>2, <1>5 DEF CommandAt, R
    <3> QED BY <3>3, <1>4, <1>8
  <2> QED BY <2>3, <2>4, <1>0
<1>9. CASE f # g
  <2> DEFINE word == Token(command, Blank)
             left2 == Rest(command, Blank)
  <2>1. f < g /\ g \in f + 1 .. n
    BY <1>0, <1>5, <1>9
  <2>2. \A i \in f + 1 .. g : s[i] \in Argument
    <3> TAKE i \in f + 1 .. g
    <3>1. i \in a + 1 .. e /\ i \in 1 .. n
      BY <1>0, <1>5
    <3>2. s[i] # "|" /\ s[i] # Blank /\ s[i] \in TextWord
      BY <3>1, <1>2, <1>4, ElementOfSeq
    <3> QED BY <3>2 DEF TextWord, Blank
  <2>3. R[g].chain = Longer(Begun(R[f]), SubSeq(s, f + 1, g)) /\ R[g].open
    BY <2>1, <2>2, <1>5, WordRead DEF R
  <2> DEFINE longer == Longer(made, word)
  <2>4. longer = R[g].chain /\ word # <<>> /\ left2 = SubSeq(s, g + 2, e)
    BY <2>3, <1>4, <1>7, <1>9
  <2> HIDE DEF word, left2, longer
  <2>5. CASE g < e
    <3>1. /\ g + 1 \in g + 1 .. n /\ g + 1 \in 0 .. n /\ e \in g + 1 .. n /\ (g + 1) + 1 = g + 2
          /\ \A i \in g + 1 .. g + 1 : i = g + 1
      BY <1>0, <1>5, <2>5
    <3>2. \A i \in g + 1 .. g + 1 : s[i] = Blank
      BY <3>1, <2>5, <1>4
    <3>3. R[g + 1].chain = Begun(R[g]) /\ R[g + 1].open
      BY <3>1, <3>2, <1>5, BlanksRead DEF R
    <3>4. longer = Begun(R[g + 1]) /\ left2 = SubSeq(s, (g + 1) + 1, e)
      BY <3>1, <3>3, <2>3, <2>4 DEF Begun
    <3>5. \A i \in (g + 1) + 1 .. e : s[i] # "|"
      <4>1. \A i \in (g + 1) + 1 .. e : i \in a + 1 .. e
        BY <1>0, <1>5
      <4> QED BY <4>1, <1>2
    <3> DEFINE b == g + 1
    <3>6. /\ b \in 0 .. n /\ e \in b .. n /\ left2 = SubSeq(s, b + 1, e)
          /\ \A i \in b + 1 .. e : s[i] # "|"
          /\ longer = Begun(R[b]) /\ R[b].open
      BY <3>1, <3>3, <3>4, <3>5
    <3> HIDE DEF b
    <3>7. ArgumentAt(s, rest, left2, longer)
      BY <3>6, <1>2 DEF ArgumentAt, R
    <3> QED BY <3>7, <2>4 DEF word, left2, longer
  <2>6. CASE g = e
    <3>1. SubSeq(s, e + 2, e) = <<>> /\ SubSeq(s, e + 1, e) = <<>>
      BY <1>0, SubSeqEmpty
    <3>2. /\ e \in 0 .. n /\ e \in e .. n /\ left2 = SubSeq(s, e + 1, e)
          /\ \A i \in e + 1 .. e : s[i] # "|"
      BY <3>1, <2>4, <2>6, <1>0, <1>5
    <3>3. longer = Begun(R[e]) /\ R[e].open
      BY <2>3, <2>4, <2>6 DEF Begun
    <3>4. ArgumentAt(s, rest, left2, longer)
      BY <3>2, <3>3, <1>2 DEF ArgumentAt, R
    <3> QED BY <3>4, <2>4 DEF word, left2, longer
  <2> QED BY <2>5, <2>6, <1>0, <1>5
<1> QED BY <1>8, <1>9

\* What a command prints is a sequence of numbers.
LEMMA PrintsSeq ==
  ASSUME NEW command, NEW input \in Seq(Nat)
  PROVE  Prints(command, input) \in Seq(Nat)
<1>1. Items \in Seq(Nat) /\ <<>> \in Seq(Nat)
  BY ProcChainAssumption, EmptySeq
<1>2. input # <<>> => <<Head(input)>> \in Seq(Nat)
  <2>1. input # <<>> => Head(input) \in Nat
    BY HeadTailProperties
  <2> QED BY <2>1
<1>3. CASE command = <<>>
  BY <1>1, <1>3 DEF Prints
<1>4. CASE command # <<>> /\ command[1] \in {"writer", "copier"}
  BY <1>1, <1>4 DEF Prints
<1>5. CASE command # <<>> /\ command[1] = "taker"
  BY <1>1, <1>2, <1>5 DEF Prints
<1>6. CASE command # <<>> /\ command[1] \notin {"writer", "copier", "taker"}
  BY <1>1, <1>6 DEF Prints
<1> QED BY <1>3, <1>4, <1>5, <1>6

\* The recursion that Output is.
LEMMA OutputIs ==
  ASSUME text \in Seq(TextWord)
  PROVE  /\ Asked \in Seq(Seq(Argument)) /\ Output[0] = <<>>
         /\ \A k \in 1 .. Len(Asked) : Output[k] = Prints(Asked[k], Output[k - 1])
         /\ \A k \in 0 .. Len(Asked) : Output[k] \in Seq(Nat)
<1> DEFINE n == Len(Asked)
           S == Seq(Nat)
           base == <<>>
           step(k, input) == Prints(Asked[k], input)
           R == CHOOSE f : f = [k \in 0 .. n |-> IF k = 0 THEN base ELSE step(k, f[k - 1])]
<1>0. n \in Nat /\ base \in S /\ Asked \in Seq(Seq(Argument))
  <2>1. AskedBy(text)[Len(text)] \in Parsed
    <3>1. Len(text) \in 0 .. Len(text)
      BY LenProperties
    <3> QED BY <3>1, AskedByIs
  <2>2. Asked \in Seq(Seq(Argument))
    BY <2>1 DEF Asked, Parsed
  <2> QED BY <2>2, LenProperties, EmptySeq
<1>1. \A k \in 1 .. n, r \in S : step(k, r) \in S
  BY PrintsSeq
<1> HIDE DEF step, S, n, base
<1>2. \E f \in [0 .. n -> S] :
         f = [i \in 0 .. n |-> IF i = 0 THEN base ELSE step(i, f[i - 1])]
  <2> DEFINE G == [i \in 1 .. n |-> [r \in S |-> step(i, r)]]
  <2>1. G \in [1 .. n -> [S -> S]] /\ base \in S /\ n \in Nat
    BY <1>0, <1>1
  <2>2. \A i \in 1 .. n, r \in S : G[i][r] = step(i, r)
    OBVIOUS
  <2> HIDE DEF G, R
  <2>3. PICK f \in [0 .. n -> S] : f[0] = base /\ \A i \in 1 .. n : f[i] = G[i][f[i - 1]]
    BY <2>1, RecursionHasValue, SMTT(60)
  <2>4. \A i \in 0 .. n : f[i] = IF i = 0 THEN base ELSE step(i, f[i - 1])
    <3> TAKE i \in 0 .. n
    <3>1. CASE i = 0
      BY <3>1, <2>3
    <3>2. CASE i # 0
      <4>1. i \in 1 .. n /\ i - 1 \in 0 .. n
        BY <3>2, <2>1
      <4>2. f[i - 1] \in S /\ f[i] = G[i][f[i - 1]]
        BY <4>1, <2>3
      <4> QED BY <4>1, <4>2, <3>2, <2>2
    <3> QED BY <3>1, <3>2
  <2>5. f = [i \in 0 .. n |-> IF i = 0 THEN base ELSE step(i, f[i - 1])]
    BY <2>3, <2>4
  <2> QED BY <2>3, <2>5
<1>3. R = [i \in 0 .. n |-> IF i = 0 THEN base ELSE step(i, R[i - 1])]
  BY <1>2
<1>4. Output = R
  BY DEF Output, R, n, base, step
<1> HIDE DEF R
<1>5. R[0] = base /\ \A i \in 1 .. n : i - 1 \in 0 .. n /\ R[i] = step(i, R[i - 1])
  <2>1. \A i \in 0 .. n : R[i] = IF i = 0 THEN base ELSE step(i, R[i - 1])
    BY <1>3
  <2>2. 0 \in 0 .. n /\ \A i \in 1 .. n : i \in 0 .. n /\ i # 0 /\ i - 1 \in 0 .. n
    BY <1>0
  <2> QED BY <2>1, <2>2
<1> DEFINE P == {i \in 0 .. n : R[i] \in S}
<1>6. \A i \in 0 .. n : i \in P
  <2>1. 0 \in P /\ 0 \in Nat
    BY <1>0, <1>5
  <2>2. ASSUME NEW i \in 0 .. n - 1, i \in P PROVE i + 1 \in P
    <3>1. i + 1 \in 1 .. n /\ i + 1 - 1 = i /\ i + 1 \in 0 .. n
      BY <1>0
    <3>2. R[i + 1] = step(i + 1, R[i])
      BY <3>1, <1>5
    <3>3. R[i] \in S
      BY <2>2
    <3> QED BY <3>1, <3>2, <3>3, <1>1
  <2> HIDE DEF P
  <2> QED BY <2>1, <2>2, <1>0, StepByStep
<1>7. \A i \in 0 .. n : R[i] \in S
  BY <1>6
<1> QED BY <1>0, <1>4, <1>5, <1>7 DEF base, step, n, S

\* Where create_chain is in the text, and that nothing else has happened yet.
Parses ==
    /\ text \in Seq(TextWord)
    /\ at[Shell] = "command" => CommandAt(text, tokens.text, chain)
    /\ at[Shell] = "argument" => ArgumentAt(text, tokens.text, tokens.command, chain)
    /\ at[Shell] \notin {"command", "argument"} => chain = Asked

\* The place of create_chain when it is called.
LEMMA ParsesInit == TextsAreTexts /\ ChainInit => Parses
<1> SUFFICES ASSUME TextsAreTexts, ChainInit PROVE Parses
  OBVIOUS
<1>1. text \in Seq(TextWord) /\ tokens.text = text /\ chain = <<>>
  BY DEF TextsAreTexts, ChainInit
<1>2. at[Shell] = "command"
  BY DEF ChainInit, Process, Shell
<1>3. CommandAt(text, text, <<>>)
  BY <1>1, TextBegins
<1> QED BY <1>1, <1>2, <1>3 DEF Parses

\* The steps of create_chain keep its place in the text.
LEMMA ParsesNext ==
  ASSUME ChainInv, Parses, NextCommand \/ NextArgument
  PROVE  Parses'
<1>0. at[Shell] \in {"command", "argument"} /\ text' = text /\ DOMAIN at = Process /\ Shell \in Process
  BY DEF NextCommand, NextArgument, ChainInv, ChainTypeOK, Process, Shell
<1>1. CASE NextCommand
  <2>1. CommandAt(text, tokens.text, chain) /\ text \in Seq(TextWord) /\ at[Shell] = "command"
    BY <1>1 DEF Parses, NextCommand
  <2>2. CASE Token(tokens.text, "|") = <<>>
    <3>1. at' = [at EXCEPT ![Shell] = "pipe"] /\ UNCHANGED <<tokens, chain>>
      BY <1>1, <2>2 DEF NextCommand
    <3>2. chain = Asked
      BY <2>1, <2>2, CommandCut DEF Asked
    <3>3. at'[Shell] = "pipe"
      BY <3>1, <1>0
    <3>4. chain' = Asked'
      BY <1>0, <3>1, <3>2 DEF Asked
    <3> QED BY <3>3, <3>4, <2>1, <1>0 DEF Parses
  <2>3. CASE Token(tokens.text, "|") # <<>>
    <3>1. /\ at' = [at EXCEPT ![Shell] = "argument"]
          /\ tokens' = [text |-> Rest(tokens.text, "|"), command |-> Token(tokens.text, "|")]
          /\ chain' = Append(chain, <<>>)
      BY <1>1, <2>3 DEF NextCommand
    <3>2. ArgumentAt(text, Rest(tokens.text, "|"), Token(tokens.text, "|"), Append(chain, <<>>))
      BY <2>1, <2>3, CommandCut
    <3>3. at'[Shell] = "argument"
      BY <3>1, <1>0
    <3>4. ArgumentAt(text', tokens'.text, tokens'.command, chain')
      BY <3>1, <3>2, <1>0
    <3> QED BY <3>3, <3>4, <2>1, <1>0 DEF Parses
  <2> QED BY <2>2, <2>3
<1>2. CASE NextArgument
  <2> DEFINE word  == Token(tokens.command, Blank)
             after == Rest(tokens.command, Blank)
  <2>1. /\ ArgumentAt(text, tokens.text, tokens.command, chain) /\ text \in Seq(TextWord)
        /\ at[Shell] = "argument"
    BY <1>2 DEF Parses, NextArgument
  <2>2. /\ word = <<>> => CommandAt(text, tokens.text, chain)
        /\ word # <<>> => ArgumentAt(text, tokens.text, after, Longer(chain, word))
    BY <2>1, WordCut
  <2>3. word = Token(tokens.command, " ") /\ after = Rest(tokens.command, " ")
    BY DEF Blank
  <2> HIDE DEF word, after
  <2>4. CASE word = <<>>
    <3>1. at' = [at EXCEPT ![Shell] = "command"] /\ UNCHANGED <<tokens, chain>>
      BY <1>2, <2>3, <2>4 DEF NextArgument
    <3>2. at'[Shell] = "command"
      BY <3>1, <1>0
    <3>3. CommandAt(text', tokens'.text, chain')
      BY <3>1, <2>2, <2>4, <1>0
    <3> QED BY <3>2, <3>3, <2>1, <1>0 DEF Parses
  <2>5. CASE word # <<>>
    <3>1. /\ chain' = [chain EXCEPT ![Len(chain)] = @ \o word]
          /\ tokens' = [tokens EXCEPT !.command = after] /\ at' = at
      BY <1>2, <2>3, <2>5 DEF NextArgument
    <3>2. tokens'.text = tokens.text /\ tokens'.command = after
      BY <3>1 DEF ChainInv, WordsOK
    <3>3. chain' = Longer(chain, word)
      BY <3>1 DEF Longer
    <3>4. ArgumentAt(text', tokens'.text, tokens'.command, chain')
      BY <3>2, <3>3, <2>2, <2>5, <1>0
    <3> QED BY <3>1, <3>4, <2>1, <1>0 DEF Parses
  <2> QED BY <2>4, <2>5
<1> QED BY <1>1, <1>2

\* The other steps leave text and chain alone.
LEMMA ParsesStays ==
  ASSUME Parses, UNCHANGED <<text, tokens, chain>>,
         at[Shell] \notin {"command", "argument"}, at'[Shell] \notin {"command", "argument"}
  PROVE  Parses'
<1>1. chain' = Asked'
  BY DEF Parses, Asked
<1> QED BY <1>1 DEF Parses

----------------------------------------------------------------------------
(* Sequences that are cut and joined *)

\* Concatenation is associative, in the form that the steps below cite.
LEMMA Joins == \A x, y, z \in Seq(Nat) : (x \o y) \o z = x \o (y \o z)
<1> SUFFICES ASSUME NEW x \in Seq(Nat), NEW y \in Seq(Nat), NEW z \in Seq(Nat)
             PROVE  (x \o y) \o z = x \o (y \o z)
  OBVIOUS
<1> QED BY ConcatAssociative, SMTT(60)

\* The first element goes from one sequence to the end of another.
LEMMA HeadMoves ==
  ASSUME NEW x \in Seq(Nat), NEW l \in Seq(Nat), l # <<>>
  PROVE  /\ Head(l) \in Nat /\ Tail(l) \in Seq(Nat) /\ <<Head(l)>> \in Seq(Nat)
         /\ Append(x, Head(l)) \in Seq(Nat)
         /\ Append(x, Head(l)) = x \o <<Head(l)>>
         /\ (x \o <<Head(l)>>) \o Tail(l) = x \o l
         /\ l = <<Head(l)>> \o Tail(l)
<1>1. Head(l) \in Nat /\ Tail(l) \in Seq(Nat) /\ <<Head(l)>> \in Seq(Nat)
  <2>1. Head(l) \in Nat /\ Tail(l) \in Seq(Nat)
    BY HeadTailProperties
  <2> QED BY <2>1
<1>2. l = <<Head(l)>> \o Tail(l)
  <2>1. Len(l) \in Nat \ {0}
    BY EmptySeq
  <2> DEFINE n == Len(l)
  <2>2. 1 \in 1 .. n /\ n \in 1 .. n
    BY <2>1
  <2>3. SubSeq(l, 1, n) = <<l[1]>> \o SubSeq(l, 1 + 1, n)
    BY <2>2, SubSeqRecursiveFirst
  <2>4. SubSeq(l, 1, n) = l /\ Tail(l) = SubSeq(l, 2, n)
    BY SubSeqFull, TailIsSubSeq
  <2>5. Head(l) = l[1] /\ 1 + 1 = 2
    OBVIOUS
  <2> QED BY <2>3, <2>4, <2>5
<1> DEFINE h == <<Head(l)>>
           t == Tail(l)
<1>3. Append(x, Head(l)) \in Seq(Nat) /\ Append(x, Head(l)) = x \o h
  BY <1>1, AppendProperties, AppendIsConcat
<1>4. (x \o h) \o t = x \o l
  <2>1. h \in Seq(Nat) /\ t \in Seq(Nat) /\ h \o t = l
    BY <1>1, <1>2
  <2> HIDE DEF h, t
  <2>2. (x \o h) \o t = x \o (h \o t)
    BY <2>1, Joins
  <2> QED BY <2>1, <2>2
<1> QED BY <1>1, <1>2, <1>3, <1>4

\* An element that is appended is appended to the whole.
LEMMA JoinsAppend ==
  ASSUME NEW x \in Seq(Nat), NEW y \in Seq(Nat), NEW h \in Nat
  PROVE  Append(x \o y, h) = x \o Append(y, h) /\ Append(y, h) \in Seq(Nat)
<1> DEFINE z == <<h>>
<1>1. z \in Seq(Nat) /\ x \o y \in Seq(Nat) /\ Append(y, h) \in Seq(Nat)
  BY ConcatProperties, AppendProperties
<1>2. Append(y, h) = y \o z /\ Append(x \o y, h) = (x \o y) \o z
  BY <1>1, AppendIsConcat
<1> HIDE DEF z
<1>3. (x \o y) \o z = x \o (y \o z)
  BY <1>1, ConcatAssociative, SMTT(60)
<1> QED BY <1>1, <1>2, <1>3

\* A sequence that is cut in two, behind another one.
LEMMA CutJoins ==
  ASSUME NEW x \in Seq(Nat), NEW s \in Seq(Nat), NEW n \in 1 .. Len(s)
  PROVE  /\ SubSeq(s, 1, n) \in Seq(Nat) /\ SubSeq(s, n + 1, Len(s)) \in Seq(Nat)
         /\ x \o SubSeq(s, 1, n) \in Seq(Nat)
         /\ (x \o SubSeq(s, 1, n)) \o SubSeq(s, n + 1, Len(s)) = x \o s
<1> DEFINE a == SubSeq(s, 1, n)
           b == SubSeq(s, n + 1, Len(s))
<1>1. a \in Seq(Nat) /\ b \in Seq(Nat)
  BY CutSeq
<1>2. a \o b = s
  <2>1. Len(s) \in Nat
    BY LenProperties
  <2>2. 1 \in 1 .. Len(s) + 1 /\ n \in 1 - 1 .. Len(s) /\ Len(s) \in n .. Len(s)
    BY <2>1
  <2>3. a \o b = SubSeq(s, 1, Len(s))
    BY <2>2, ConcatAdjacentSubSeq
  <2> QED BY <2>3, SubSeqFull
<1> HIDE DEF a, b
<1>3. x \o a \in Seq(Nat)
  BY <1>1, ConcatProperties
<1>4. (x \o a) \o b = x \o (a \o b)
  BY <1>1, Joins
<1> QED BY <1>1, <1>2, <1>3, <1>4 DEF a, b

\* x is what t begins with.
Begins(x, t) == \E u \in Seq(Nat) : t = x \o u

\* Beginnings of beginnings; a beginning is a prefix.
LEMMA BeginsIs ==
  ASSUME NEW x \in Seq(Nat), NEW t \in Seq(Nat)
  PROVE  /\ Begins(<<>>, t) /\ Begins(t, t)
         /\ \A l \in Seq(Nat) : Begins(x \o l, t) => Begins(x, t)
         /\ Begins(x, t) => IsPrefix(x, t)
<1>1. <<>> \o t = t /\ t \o <<>> = t /\ <<>> \in Seq(Nat)
  BY ConcatEmptySeq, EmptySeq
<1>2. Begins(<<>>, t) /\ Begins(t, t)
  BY <1>1 DEF Begins
<1>3. ASSUME NEW l \in Seq(Nat), Begins(x \o l, t) PROVE Begins(x, t)
  <2>1. PICK u \in Seq(Nat) : t = (x \o l) \o u
    BY <1>3 DEF Begins
  <2>2. (x \o l) \o u = x \o (l \o u) /\ l \o u \in Seq(Nat)
    BY ConcatAssociative, ConcatProperties, SMTT(60)
  <2> QED BY <2>1, <2>2 DEF Begins
<1>4. ASSUME Begins(x, t) PROVE IsPrefix(x, t)
  <2>1. PICK u \in Seq(Nat) : t = x \o u
    BY <1>4 DEF Begins
  <2>2. /\ Len(t) = Len(x) + Len(u) /\ Len(x) \in Nat /\ Len(u) \in Nat
        /\ \A i \in 1 .. Len(x) + Len(u) : t[i] = IF i <= Len(x) THEN x[i] ELSE u[i - Len(x)]
    BY <2>1, ConcatProperties, LenProperties
  <2> DEFINE n == Len(x)
             a == SubSeq(x, 1, n)
             b == SubSeq(t, 1, n)
  <2>3. n \in Nat /\ n <= Len(t) /\ \A i \in 1 .. n : t[i] = x[i]
    BY <2>2
  <2>4. a = x
    BY SubSeqFull
  <2>5. b \in Seq(Nat) /\ Len(b) = n /\ \A i \in 1 .. n : b[i] = t[i]
    <3>1. 1 \in 1 .. Len(t) + 1 /\ n \in 1 - 1 .. Len(t) /\ n - 1 + 1 = n
          /\ \A i \in 1 .. n : 1 + i - 1 = i
      BY <2>2, <2>3
    <3> HIDE DEF n
    <3>2. b \in Seq(Nat) /\ Len(b) = n - 1 + 1 /\ \A i \in 1 .. n - 1 + 1 : b[i] = t[1 + i - 1]
      BY <3>1, PartOfSeq
    <3> QED BY <3>1, <3>2
  <2> HIDE DEF b
  <2>6. b = x
    BY <2>3, <2>5, SeqEqual
  <2> QED BY <2>3, <2>4, <2>6 DEF IsPrefix, b
<1> QED BY <1>2, <1>3, <1>4

\* A sequence that goes on from one element.
LEMMA BeginsOne ==
  ASSUME NEW z \in Nat, NEW t \in Seq(Nat), Begins(<<z>>, t)
  PROVE  t # <<>> /\ Head(t) = z
<1> DEFINE x == <<z>>
<1>1. x \in Seq(Nat) /\ Len(x) = 1 /\ x[1] = z
  OBVIOUS
<1> HIDE DEF x
<1>2. PICK u \in Seq(Nat) : t = x \o u
  BY DEF Begins, x
<1>3. /\ Len(t) = Len(x) + Len(u) /\ Len(u) \in Nat
      /\ \A i \in 1 .. Len(x) + Len(u) : t[i] = IF i <= Len(x) THEN x[i] ELSE u[i - Len(x)]
  BY <1>1, <1>2, ConcatProperties, LenProperties
<1>4. Len(t) >= 1 /\ t[1] = z
  BY <1>1, <1>3
<1>5. t # <<>>
  BY <1>4, EmptySeq
<1> QED BY <1>4, <1>5

\* One element in two parts is in one of them.
LEMMA OneInTwo ==
  ASSUME NEW x \in Seq(Nat), NEW l \in Seq(Nat), NEW z, x \o l = <<z>>
  PROVE  (x = <<>> /\ l = <<z>>) \/ (x = <<z>> /\ l = <<>>)
<1>1. Len(x) \in Nat /\ Len(l) \in Nat /\ Len(x \o l) = Len(x) + Len(l)
  BY ConcatProperties, LenProperties
<1>2. Len(x) + Len(l) = 1
  <2>1. Len(<<z>>) = 1
    OBVIOUS
  <2> QED BY <2>1, <1>1
<1>3. CASE Len(x) = 0
  <2>1. x = <<>>
    BY <1>3, EmptySeq
  <2> QED BY <2>1, ConcatEmptySeq
<1>4. CASE Len(l) = 0
  <2>1. l = <<>>
    BY <1>4, EmptySeq
  <2> QED BY <2>1, ConcatEmptySeq
<1> QED BY <1>1, <1>2, <1>3, <1>4

----------------------------------------------------------------------------
(* Which children have been born *)

Parsing == at[Shell] \in {"command", "argument"}

\* While the argument is read there is nothing; then a child for every link up to
\* the one the shell is at, without a failure.
Forks ==
    /\ Parsing => /\ \A p \in Link : at[p] = "unborn" /\ pipe[p] = <<>> /\ left[p] = <<>>
                  /\ out = <<>> /\ failed = {}
    /\ \A p \in Link : at[p] # "unborn" => p < link \/ (p = link /\ at[Shell] = "close")
    /\ failed = {} => \A p \in Link :
           p < link \/ (p = link /\ at[Shell] = "close") => at[p] # "unborn"
    /\ failed = {} /\ at[Shell] = "done" => link = Len(chain) + 1

\* Nobody is born when the shell starts.
LEMMA ForksInit == ChainInit => Forks
<1> SUFFICES ASSUME ChainInit PROVE Forks
  OBVIOUS
<1>1. /\ at[Shell] = "command" /\ \A p \in Link : at[p] = "unborn"
      /\ \A p \in Link : pipe[p] = <<>> /\ left[p] = <<>>
      /\ out = <<>> /\ failed = {} /\ link = 1
  BY DEF ChainInit, Process, Shell, Link
<1>2. \A p \in Link : p \in Int /\ ~ (p < 1)
  BY DEF Link
<1> QED BY <1>1, <1>2 DEF Forks, Parsing

\* A step of the shell that no child is born by.
LEMMA ForksStay ==
  ASSUME Forks, ~ Parsing, ~ Parsing', \A p \in Link : at'[p] = at[p], link' = link,
         failed' = {} => failed = {}, UNCHANGED chain,
         at'[Shell] # "close" \/ failed' # {},
         at[Shell] = "close" => at'[Shell] = "close",
         failed' = {} /\ at'[Shell] = "done" => link = Len(chain) + 1
  PROVE  Forks'
BY DEF Forks

\* A step of a child.
LEMMA ForksChild ==
  ASSUME Forks, NEW c \in Link, at[c] # "unborn", at'[c] # "unborn",
         \A p \in Process : p # c => at'[p] = at[p], UNCHANGED <<chain, link, failed>>
  PROVE  Forks'
<1>1. at'[Shell] = at[Shell] /\ Shell \notin Link /\ \A p \in Link : p # c => at'[p] = at[p]
  BY DEF Shell, Link, Process
<1>2. ~ Parsing /\ ~ Parsing'
  BY <1>1 DEF Forks, Parsing
<1> QED BY <1>1, <1>2 DEF Forks

\* The shell forks the children one by one, without a gap.
LEMMA ForksNext ==
  ASSUME ChainInv, Fits, Forks, [ChainNext]_chainVars
  PROVE  Forks'
<1>0. /\ DOMAIN at = Process /\ Shell \in Process /\ Shell \notin Link
      /\ \A p \in Link : p \in Process /\ p \in Nat
      /\ link \in Nat /\ Len(chain) \in Nat /\ link <= Len(chain) + 1
  BY ShellFacts DEF Shell, Link, Process
<1>1. CASE UNCHANGED chainVars
  BY <1>1 DEF chainVars, Forks, Parsing
<1>2. CASE NextCommand \/ NextArgument
  <2>1. /\ UNCHANGED <<link, pipe, left, out, failed>> /\ Parsing /\ link = 1
        /\ \A p \in Link : at'[p] = at[p]
        /\ at'[Shell] \in {"command", "argument", "pipe"}
    BY <1>0, <1>2 DEF NextCommand, NextArgument, Parsing, ChainInv, ShellHolds
  <2>2. \A p \in Link : ~ (p < 1)
    BY DEF Link
  <2> QED BY <2>1, <2>2 DEF Forks, Parsing
<1>3. CASE MakePipe \/ CloseWriteEnd
  <2>1. /\ UNCHANGED <<chain, link, failed>> /\ at[Shell] = "pipe"
        /\ \A p \in Link : at'[p] = at[p]
        /\ at'[Shell] \in {"fork", "read"}
    BY <1>0, <1>3 DEF MakePipe, CloseWriteEnd
  <2> QED BY <2>1, ForksStay DEF Parsing
<1>4. CASE PipeFails
  <2>1. /\ UNCHANGED <<chain, link>> /\ at[Shell] = "pipe" /\ failed' # {}
        /\ \A p \in Link : at'[p] = at[p]
        /\ at'[Shell] = "done"
    BY <1>0, <1>4 DEF PipeFails, End
  <2> QED BY <2>1, ForksStay DEF Parsing
<1>5. CASE ForkFails
  <2>1. /\ UNCHANGED <<chain, link>> /\ at[Shell] = "fork" /\ failed' # {}
        /\ \A p \in Link : at'[p] = at[p]
        /\ at'[Shell] = "close"
    BY <1>0, <1>5 DEF ForkFails
  <2> QED BY <2>1, ForksStay DEF Parsing
<1>6. CASE Fork
  <2>1. /\ UNCHANGED <<chain, link, failed>> /\ at[Shell] = "fork" /\ link \in Link
        /\ at' = [at EXCEPT ![Shell] = "close", ![link] = "stdin"]
    BY <1>6, ShellFacts DEF Fork, ChainInv, ShellHolds
  <2>2. /\ at'[Shell] = "close" /\ at'[link] = "stdin"
        /\ \A p \in Link : p # link => at'[p] = at[p]
    BY <2>1, <1>0
  <2> QED BY <2>1, <2>2 DEF Forks, Parsing
<1>7. CASE ClosePrev
  <2>1. /\ UNCHANGED <<chain, failed>> /\ at[Shell] = "close" /\ link' = link + 1
        /\ \A p \in Link : at'[p] = at[p]
        /\ at'[Shell] = "pipe"
    BY <1>0, <1>7 DEF ClosePrev
  <2>2. \A p \in Link : p < link + 1 <=> p < link \/ p = link
    BY <1>0
  <2> QED BY <2>1, <2>2 DEF Forks, Parsing
<1>8. CASE ShellReads
  BY <1>8, ForksStay DEF ShellReads, Parsing
<1>9. CASE ShellEnds
  <2>1. /\ UNCHANGED <<chain, link, failed>> /\ at[Shell] = "read" /\ link = Len(chain) + 1
        /\ \A p \in Link : at'[p] = at[p]
        /\ at'[Shell] = "done"
    BY <1>0, <1>9 DEF ShellEnds, End, ChainInv, ShellHolds
  <2> QED BY <2>1, ForksStay DEF Parsing
<1>10. ASSUME NEW p \in Link, ChildStep(p) PROVE Forks'
  <2>1. UNCHANGED <<chain, link, failed>> /\ at[p] # "unborn"
    BY <1>10 DEF ChildStep, ChildStdin, ChildStdout, Exec, ReadPipe, WritePipe, BrokenPipe,
                 Exit
  <2>2. PICK a : a # "unborn" /\ at' = [at EXCEPT ![p] = a]
    <3>1. at = [at EXCEPT ![p] = at[p]]
      BY <1>0 DEF ChainInv, ChainTypeOK
    <3> QED BY <3>1, <2>1, <1>10 DEF ChildStep, ChildStdin, ChildStdout, Exec, ReadPipe,
                                     WritePipe, BrokenPipe, Exit, End
  <2>3. at'[p] # "unborn" /\ \A q \in Process : q # p => at'[q] = at[q]
    BY <2>2, <1>0
  <2> QED BY <2>1, <2>3, ForksChild
<1> QED BY <1>1, <1>2, <1>3, <1>4, <1>5, <1>6, <1>7, <1>8, <1>9, <1>10
     DEF ChainNext, ShellStep, RunChain, ChainEnded

----------------------------------------------------------------------------
(* What has gone through the pipes *)

Before == {"unborn", "stdin", "stdout", "exec"}

\* What a command has written so far (x) and has still to write (l), by its
\* program, whether it is the first, and its place.
Told(command, first, place, x, l) ==
    /\ place \in Before => x = <<>> /\ l = <<>>
    /\ command = "writer" /\ place \notin Before => x \o l = Items
    /\ command \notin {"writer", "copier", "taker"} => x = <<>> /\ l = <<>>
    /\ first /\ command # "writer" => x = <<>> /\ l = <<>>
    /\ place = "last" => command = "taker" /\ \E z \in Nat : x \o l = <<z>>
    /\ command = "taker" /\ place = "run" => x = <<>> /\ l = <<>>
    /\ command = "taker" => (x = <<>> /\ l = <<>>) \/ \E z \in Nat : x \o l = <<z>>

\* What a command has read, when w[p] is what command p has written so far, and
\* what has been read from the pipe of command k.
Got(p, w)      == IF Command(p) \in {"copier", "taker"} THEN w[p] \o left[p] ELSE <<>>
Received(k, w) == IF k = Len(chain) THEN out ELSE Got(k + 1, w)

\* Nothing is lost and nothing is added between two commands.
Flow(w) ==
    /\ w \in [Link -> Seq(Nat)]
    /\ Len(chain) = 0 => out = <<>>
    /\ \A k \in Link : k <= Len(chain) =>
           /\ w[k] = Received(k, w) \o pipe[k]
           /\ Told(Command(k), k = 1, at[k], w[k], left[k])

\* Nobody reads from command p any more.
Gone(p) == IF p = Len(chain) THEN at[Shell] = "done" ELSE at[p + 1] = "done"

\* Without a failure a command that has ended has written all that it prints,
\* or all that somebody wanted.
Complete(w) ==
    failed = {} =>
       /\ \A p \in Link : p <= Len(chain) /\ at[p] = "done" => w[p] = Output[p] \/ Gone(p)
       /\ at[Shell] = "done" => out = Output[Len(chain)]

Delivers == ~ Parsing => \E w \in [Link -> Seq(Nat)] : Flow(w) /\ Complete(w)

\* Facts about links, processes and the table of commands.
LEMMA FlowFacts ==
  ASSUME ChainInv, Fits, Forks
  PROVE  /\ Len(chain) \in Nat /\ Shell \notin Link /\ Shell \in Process /\ DOMAIN at = Process
         /\ left \in [Link -> Seq(Nat)] /\ pipe \in [Link -> Seq(Nat)] /\ out \in Seq(Nat)
         /\ Items \in Seq(Nat) /\ <<>> \in Seq(Nat)
         /\ \A k \in 1 .. Len(chain) : k \in Link
         /\ \A p \in Link : /\ p \in Nat /\ p \in Process /\ p # Shell /\ p >= 1
                            /\ p < Len(chain) => p + 1 \in Link /\ p + 1 <= Len(chain)
                                                 /\ p # Len(chain)
                            /\ p # 1 => p - 1 \in Link /\ (p - 1) + 1 = p
                                        /\ (p <= Len(chain) => p - 1 < Len(chain))
                            /\ at[p] # "unborn" => p <= Len(chain)
                            /\ p <= Len(chain) => chain[p] \in Seq(Argument)
<1>1. Len(chain) \in Nat /\ MAX_CHAIN_LINKS_COUNT \in Nat /\ Len(chain) <= MAX_CHAIN_LINKS_COUNT
      /\ link \in Nat /\ link <= Len(chain) + 1
  BY ShellFacts, ProcChainAssumption DEF Fits
<1>2. Shell \notin Link /\ Shell \in Process /\ DOMAIN at = Process
      /\ \A k \in 1 .. Len(chain) : k \in Link
  BY <1>1, ShellFacts DEF Shell, Link
<1>3. left \in [Link -> Seq(Nat)] /\ pipe \in [Link -> Seq(Nat)] /\ out \in Seq(Nat)
      /\ Items \in Seq(Nat) /\ <<>> \in Seq(Nat)
  BY ProcChainAssumption, EmptySeq DEF ChainInv, ChainTypeOK, WordsOK
<1>4. ASSUME NEW p \in Link
      PROVE  /\ p \in Nat /\ p \in Process /\ p # Shell /\ p >= 1
             /\ p < Len(chain) => p + 1 \in Link /\ p + 1 <= Len(chain) /\ p # Len(chain)
             /\ p # 1 => p - 1 \in Link /\ (p - 1) + 1 = p
                         /\ (p <= Len(chain) => p - 1 < Len(chain))
  BY <1>1 DEF Link, Process, Shell
<1>5. ASSUME NEW p \in Link, at[p] # "unborn" PROVE p <= Len(chain)
  <2>1. CASE p < link
    BY <2>1, <1>1, <1>4
  <2>2. CASE p = link /\ at[Shell] = "close"
    <3>1. link <= Len(chain)
      BY <2>2 DEF ChainInv, ShellHolds
    <3> QED BY <3>1, <2>2
  <2> QED BY <2>1, <2>2, <1>5 DEF Forks
<1>6. ASSUME NEW p \in Link, p <= Len(chain) PROVE chain[p] \in Seq(Argument)
  <2>1. p \in 1 .. Len(chain)
    BY <1>1, <1>4, <1>6
  <2>2. chain \in Seq(Seq(Argument))
    BY DEF ChainInv, ChainTypeOK
  <2> QED BY <2>1, <2>2, ElementOfSeq
<1> QED BY <1>1, <1>2, <1>3, <1>4, <1>5, <1>6

\* What a command prints, by its program.
LEMMA PrintsBy ==
  ASSUME NEW p, NEW input
  PROVE  /\ Command(p) = "writer" => Prints(chain[p], input) = Items
         /\ Command(p) = "copier" => Prints(chain[p], input) = input
         /\ Command(p) = "taker" =>
               Prints(chain[p], input) = IF input = <<>> THEN <<>> ELSE <<Head(input)>>
         /\ Command(p) \notin {"writer", "copier", "taker"} => Prints(chain[p], input) = <<>>
<1> DEFINE c == chain[p]
<1>1. CASE c = <<>>
  <2>1. Command(p) = "missing" /\ Prints(c, input) = <<>>
    BY <1>1 DEF Prints, Command
  <2> QED BY <2>1
<1>2. CASE c # <<>>
  <2>1. Command(p) = c[1]
    BY <1>2 DEF Command
  <2> HIDE DEF c
  <2>2. c[1] = "writer" => Prints(c, input) = Items
    BY <1>2 DEF Prints
  <2>3. c[1] = "copier" => Prints(c, input) = input
    BY <1>2 DEF Prints
  <2>4. c[1] = "taker" => Prints(c, input) = IF input = <<>> THEN <<>> ELSE <<Head(input)>>
    BY <1>2 DEF Prints
  <2>5. c[1] \notin {"writer", "copier", "taker"} => Prints(c, input) = <<>>
    BY <1>2 DEF Prints
  <2> QED BY <2>1, <2>2, <2>3, <2>4, <2>5 DEF c
<1> QED BY <1>1, <1>2

\* What has been written is the beginning of what there is to write.
LEMMA ToldBegins ==
  ASSUME NEW p, NEW place, NEW x \in Seq(Nat), NEW l \in Seq(Nat), NEW input \in Seq(Nat),
         Told(Command(p), p = 1, place, x, l),
         Command(p) \in {"copier", "taker"} /\ p # 1 => Begins(x \o l, input)
  PROVE  Begins(x, Prints(chain[p], input))
<1>0. /\ Items \in Seq(Nat) /\ <<>> \in Seq(Nat) /\ Prints(chain[p], input) \in Seq(Nat)
      /\ l \in Seq(Nat) /\ x \in Seq(Nat) /\ input \in Seq(Nat)
  BY ProcChainAssumption, EmptySeq, PrintsSeq
<1>1. CASE x = <<>>
  BY <1>0, <1>1, BeginsIs
<1>2. CASE x # <<>> /\ Command(p) = "writer"
  <2>1. Items = x \o l
    BY <1>2 DEF Told
  <2>2. Begins(x, Items)
    BY <2>1, <1>0 DEF Begins
  <2> QED BY <2>2, <1>2, PrintsBy
<1>3. CASE x # <<>> /\ Command(p) = "copier"
  <2>1. Begins(x \o l, input)
    BY <1>3 DEF Told
  <2>2. Begins(x, input)
    BY <2>1, <1>0, BeginsIs
  <2> QED BY <2>2, <1>3, PrintsBy
<1>4. CASE x # <<>> /\ Command(p) = "taker"
  <2>1. PICK z \in Nat : x \o l = <<z>>
    BY <1>4 DEF Told
  <2>2. x = <<z>>
    <3>1. (x = <<>> /\ l = <<z>>) \/ (x = <<z>> /\ l = <<>>)
      BY <2>1, OneInTwo
    <3> QED BY <3>1, <1>4
  <2>3. Begins(<<z>>, input)
    BY <2>1, <1>4 DEF Told
  <2>4. input # <<>> /\ Head(input) = z
    BY <2>3, <1>0, BeginsOne
  <2>5. Prints(chain[p], input) = x
    BY <2>2, <2>4, <1>4, PrintsBy
  <2> QED BY <2>5, <1>0, BeginsIs
<1>5. CASE x # <<>> /\ Command(p) \notin {"writer", "copier", "taker"}
  BY <1>5 DEF Told
<1> QED BY <1>1, <1>2, <1>3, <1>4, <1>5

\* A command that ends by itself has written all of it.
LEMMA ToldAll ==
  ASSUME NEW p, NEW place, NEW x \in Seq(Nat), NEW input \in Seq(Nat),
         Told(Command(p), p = 1, place, x, <<>>), p = 1 => input = <<>>,
         \/ place = "run" /\ Command(p) = "writer"
         \/ place = "run" /\ Command(p) \in {"copier", "taker"} /\ (p # 1 => x \o <<>> = input)
         \/ place = "last" /\ (p # 1 => Begins(x \o <<>>, input))
  PROVE  x = Prints(chain[p], input)
<1>0. <<>> \in Seq(Nat) /\ x \o <<>> = x
  BY EmptySeq, ConcatEmptySeq
<1>1. CASE place = "run" /\ Command(p) = "writer"
  <2>1. x = Items
    BY <1>0, <1>1 DEF Told, Before
  <2> QED BY <2>1, <1>1, PrintsBy
<1>2. CASE place = "run" /\ Command(p) = "copier" /\ (p # 1 => x = input)
  <2>1. x = input
    BY <1>2 DEF Told
  <2> QED BY <2>1, <1>2, PrintsBy
<1>3. CASE place = "run" /\ Command(p) = "taker" /\ (p # 1 => x = input)
  <2>1. x = <<>> /\ input = <<>>
    BY <1>3 DEF Told
  <2> QED BY <2>1, <1>3, PrintsBy
<1>4. CASE place = "last" /\ (p # 1 => Begins(x, input))
  <2>1. Command(p) = "taker"
    BY <1>4 DEF Told
  <2>2. PICK z \in Nat : x = <<z>>
    BY <1>0, <1>4 DEF Told
  <2>3. p # 1
    <3>1. <<z>> # <<>>
      OBVIOUS
    <3> QED BY <3>1, <2>1, <2>2 DEF Told
  <2>4. input # <<>> /\ Head(input) = z
    <3>1. Begins(<<z>>, input)
      BY <2>2, <2>3, <1>4
    <3> QED BY <3>1, BeginsOne
  <2> QED BY <2>1, <2>2, <2>4, PrintsBy
<1> QED BY <1>0, <1>1, <1>2, <1>3, <1>4

----------------------------------------------------------------------------
(* What has been written and read, of what there is *)

\* The sequences that Flow relates.
LEMMA FlowTypes ==
  ASSUME ChainInv, Fits, Forks, NEW w, Flow(w), NEW p \in Link
  PROVE  /\ w[p] \in Seq(Nat) /\ left[p] \in Seq(Nat) /\ pipe[p] \in Seq(Nat)
         /\ w[p] \o left[p] \in Seq(Nat) /\ Got(p, w) \in Seq(Nat)
         /\ p <= Len(chain) =>
               /\ Received(p, w) \in Seq(Nat) /\ w[p] = Received(p, w) \o pipe[p]
               /\ Told(Command(p), p = 1, at[p], w[p], left[p])
<1>1. ASSUME NEW q \in Link
      PROVE  /\ w[q] \in Seq(Nat) /\ left[q] \in Seq(Nat) /\ pipe[q] \in Seq(Nat)
             /\ w[q] \o left[q] \in Seq(Nat) /\ Got(q, w) \in Seq(Nat)
  <2>1. w[q] \in Seq(Nat) /\ left[q] \in Seq(Nat) /\ pipe[q] \in Seq(Nat) /\ <<>> \in Seq(Nat)
    BY FlowFacts DEF Flow
  <2>2. w[q] \o left[q] \in Seq(Nat)
    BY <2>1, ConcatProperties
  <2> QED BY <2>1, <2>2 DEF Got
<1>2. p <= Len(chain) => Received(p, w) \in Seq(Nat)
  BY <1>1, FlowFacts DEF Received
<1> QED BY <1>1, <1>2 DEF Flow

\* What a command reads is the beginning of what the command before it prints,
\* and so is what it writes of what it prints itself.
LEMMA FlowBegins ==
  ASSUME ChainInv, Fits, Forks, Parses, ~ Parsing, NEW w, Flow(w)
  PROVE  \A k \in Link : k <= Len(chain) =>
            Begins(w[k], Output[k]) /\ Begins(Received(k, w), Output[k])
<1> DEFINE n == Len(chain)
<1>0. /\ n \in Nat /\ chain = Asked /\ Output[0] = <<>>
      /\ \A k \in 1 .. n : Output[k] = Prints(chain[k], Output[k - 1])
      /\ \A k \in 0 .. n : Output[k] \in Seq(Nat)
      /\ \A k \in 1 .. n : k \in Link
  <2>1. text \in Seq(TextWord) /\ chain = Asked
    BY DEF Parses, Parsing
  <2>2. /\ Output[0] = <<>>
        /\ \A k \in 1 .. Len(Asked) : Output[k] = Prints(Asked[k], Output[k - 1])
        /\ \A k \in 0 .. Len(Asked) : Output[k] \in Seq(Nat)
    BY <2>1, OutputIs
  <2> QED BY <2>1, <2>2, FlowFacts
<1>1. ASSUME NEW k \in Link, k <= n, Begins(w[k], Output[k])
      PROVE  Begins(Received(k, w), Output[k])
  <2>1. Received(k, w) \in Seq(Nat) /\ pipe[k] \in Seq(Nat) /\ w[k] = Received(k, w) \o pipe[k]
    BY <1>1, FlowTypes
  <2>2. Output[k] \in Seq(Nat)
    <3>1. k \in 0 .. n
      BY <1>0, <1>1, FlowFacts
    <3> QED BY <3>1, <1>0
  <2> QED BY <2>1, <2>2, <1>1, BeginsIs
<1> DEFINE P == {i \in 0 .. n : i # 0 => Begins(w[i], Output[i])}
<1>2. 0 \in P /\ 0 \in Nat
  BY <1>0
<1>3. ASSUME NEW i \in 0 .. n - 1, i \in P PROVE i + 1 \in P
  <2> DEFINE p == i + 1
  <2>1. /\ p \in 1 .. n /\ p \in 0 .. n /\ p - 1 = i /\ p \in Link /\ p <= n /\ i \in 0 .. n
        /\ p = 1 <=> i = 0
    <3>1. p \in 1 .. n /\ p \in 0 .. n /\ p - 1 = i /\ p <= n /\ i \in 0 .. n /\ (p = 1 <=> i = 0)
      BY <1>0
    <3> QED BY <3>1, <1>0
  <2>2. Output[p] = Prints(chain[p], Output[i]) /\ Output[i] \in Seq(Nat)
    BY <2>1, <1>0
  <2>3. ASSUME Command(p) \in {"copier", "taker"}, p # 1
        PROVE  Begins(w[p] \o left[p], Output[i])
    <3>1. i \in 1 .. n /\ i \in Link /\ i # n /\ i <= n
      BY <2>1, <2>3, <1>0
    <3>2. Begins(Received(i, w), Output[i])
      BY <3>1, <1>1, <1>3
    <3>3. Received(i, w) = w[p] \o left[p]
      BY <3>1, <2>3 DEF Received, Got
    <3> QED BY <3>2, <3>3
  <2> HIDE DEF p
  <2>4. /\ w[p] \in Seq(Nat) /\ left[p] \in Seq(Nat)
        /\ Told(Command(p), p = 1, at[p], w[p], left[p])
    BY <2>1, FlowTypes
  <2>5. Begins(w[p], Prints(chain[p], Output[i]))
    BY <2>2, <2>3, <2>4, ToldBegins
  <2> QED BY <2>1, <2>2, <2>5 DEF p
<1>4. \A i \in 0 .. n : i \in P
  <2> HIDE DEF P, n
  <2> QED BY <1>0, <1>2, <1>3, StepByStep
<1>5. ASSUME NEW k \in Link, k <= n PROVE Begins(w[k], Output[k])
  <2>1. k \in 0 .. n /\ k # 0
    BY <1>0, <1>5, FlowFacts
  <2> QED BY <2>1, <1>4
<1> QED BY <1>1, <1>5

\* Whoever has been born and has not ended has the write end of its pipe.
LEMMA NoWriters ==
  ASSUME ChainInv, NEW p \in Link, Writers(p) = {}, at[p] # "unborn"
  PROVE  at[p] = "done"
<1>1. p \in Process /\ ChildHolds(p) /\ p \notin Writers(p)
  BY ChildFacts
<1>2. \A s \in Slot : fd[p][s] # WriteEnd(p)
  BY <1>1 DEF Writers, HasOpen
<1>3. fd[p]["curr1"] # WriteEnd(p)
  BY <1>2 DEF Slot
<1> QED BY <1>1, <1>3 DEF ChildHolds, Holds

\* While nobody has ended that reads from a running command, somebody can.
LEMMA NoReaders ==
  ASSUME ChainInv, Fits, Forks, failed = {}, NEW p \in Link, at[p] # "unborn", Readers(p) = {}
  PROVE  Gone(p)
<1>0. /\ p \in Nat /\ p <= Len(chain) /\ p # 0 /\ Len(chain) \in Nat /\ link \in Nat
      /\ p < link \/ (p = link /\ at[Shell] = "close")
      /\ p < Len(chain) => p + 1 \in Link
  BY FlowFacts, ShellFacts DEF Forks
<1>1. \A s \in Slot : fd[Shell][s] # ReadEnd(p) /\ (p + 1 \in Link => fd[p + 1][s] # ReadEnd(p))
  BY FlowFacts DEF Readers, HasOpen
<1>2. /\ fd[Shell]["curr0"] # ReadEnd(p) /\ fd[Shell]["prev0"] # ReadEnd(p)
      /\ p + 1 \in Link => fd[p + 1]["prev0"] # ReadEnd(p)
  BY <1>1 DEF Slot
<1>3. p = link => FALSE
  BY <1>0, <1>2 DEF ChainInv, ShellHolds, Holds
<1>4. p < link
  BY <1>0, <1>3
<1>5. ReadOf(p) = ReadEnd(p)
  BY <1>0 DEF ReadOf
<1>6. ~ Parsing
  BY <1>0, <1>4 DEF Parsing, ChainInv, ShellHolds
<1>7. CASE p = Len(chain)
  <2>1. link = Len(chain) + 1
    <3>1. link <= Len(chain) + 1
      BY ShellFacts
    <3> QED BY <3>1, <1>0, <1>4, <1>7
  <2>2. link - 1 = p /\ ~ (link <= Len(chain))
    BY <2>1, <1>0, <1>7
  <2>3. ASSUME at[Shell] \in {"pipe", "read"} PROVE FALSE
    BY <2>2, <2>3, <1>2, <1>5 DEF ChainInv, ShellHolds, Holds
  <2>4. at[Shell] = "done"
    BY <2>2, <2>3, <1>6 DEF Parsing, ChainInv, ShellHolds
  <2> QED BY <2>4, <1>7 DEF Gone
<1>8. CASE p < Len(chain)
  <2> DEFINE c == p + 1
  <2>1. c \in Link /\ c - 1 = p /\ p # Len(chain)
    BY <1>0, <1>8
  <2>2. at[c] # "unborn"
    <3>1. CASE c < link \/ (c = link /\ at[Shell] = "close")
      BY <3>1, <2>1 DEF Forks
    <3>2. CASE c = link /\ at[Shell] # "close"
      <4>1. link - 1 = p
        BY <2>1, <3>2
      <4>2. ASSUME at[Shell] \in {"pipe", "read", "fork"} PROVE FALSE
        BY <4>1, <4>2, <1>2, <1>5 DEF ChainInv, ShellHolds, Holds
      <4>3. at[Shell] = "done"
        BY <4>2, <3>2, <1>6 DEF Parsing, ChainInv, ShellHolds
      <4>4. link = Len(chain) + 1
        BY <4>3 DEF Forks
      <4> QED BY <4>1, <4>4, <1>0, <1>8
    <3>3. c <= link
      BY <1>0, <1>4
    <3> QED BY <3>1, <3>2, <3>3, <1>0
  <2>3. at[c] = "done"
    <3>1. ChildHolds(c) /\ fd[c]["prev0"] # ReadEnd(p)
      BY <2>1, <1>2, ChildFacts
    <3>2. ReadOf(c - 1) = ReadEnd(p)
      BY <2>1, <1>5
    <3> QED BY <3>1, <3>2, <2>2 DEF ChildHolds, Holds
  <2> QED BY <2>1, <2>3 DEF Gone
<1> QED BY <1>0, <1>7, <1>8

\* What a command that ends by itself has written is what it prints.
LEMMA ExitPrints ==
  ASSUME ChainInv, Fits, Forks, Parses, ~ Parsing, failed = {},
         NEW w, Flow(w), Complete(w), NEW p \in Link, Exit(p)
  PROVE  w[p] = Output[p]
<1> DEFINE n == Len(chain)
           input == Output[p - 1]
           q == p - 1
<1>0. /\ left[p] = <<>> /\ p <= n /\ p \in 1 .. n /\ n \in Nat /\ at[p] \in {"run", "last"}
      /\ p # 1 => q \in Link /\ q + 1 = p /\ q < n /\ q <= n /\ q # n /\ q < p /\ p > 1
      /\ q \in 0 .. n
  <2>1. left[p] = <<>> /\ at[p] \in {"run", "last"}
    BY DEF Exit
  <2>2. p <= n /\ p \in Nat /\ p >= 1 /\ n \in Nat
        /\ (p # 1 => q \in Link /\ q + 1 = p /\ q < n)
    BY <2>1, FlowFacts
  <2> QED BY <2>1, <2>2
<1>1. /\ Output[p] = Prints(chain[p], input) /\ input \in Seq(Nat) /\ (p = 1 => input = <<>>)
  <2>1. text \in Seq(TextWord) /\ chain = Asked
    BY DEF Parses, Parsing
  <2>2. /\ Output[0] = <<>>
        /\ \A k \in 1 .. Len(Asked) : Output[k] = Prints(Asked[k], Output[k - 1])
        /\ \A k \in 0 .. Len(Asked) : Output[k] \in Seq(Nat)
    BY <2>1, OutputIs
  <2>3. Output[p] = Prints(chain[p], input) /\ input \in Seq(Nat)
    BY <2>1, <2>2, <1>0
  <2> QED BY <2>2, <2>3
<1>2. ASSUME p # 1, Command(p) \in {"copier", "taker"}
      PROVE  /\ Received(q, w) = w[p] \o <<>>
             /\ w[q] = (w[p] \o <<>>) \o pipe[q] /\ Begins(w[p] \o <<>>, Output[q])
  <2>1. Received(q, w) = w[p] \o <<>>
    BY <1>0, <1>2 DEF Received, Got
  <2>2. w[q] = Received(q, w) \o pipe[q]
    BY <1>0, <1>2, FlowTypes
  <2>3. Begins(Received(q, w), Output[q])
    BY <1>0, <1>2, FlowBegins
  <2> QED BY <2>1, <2>2, <2>3
<1>3. ASSUME p # 1, at[p] = "run", Command(p) \in {"copier", "taker"}
      PROVE  w[p] \o <<>> = input
  <2>1. pipe[q] = <<>> /\ Writers(q) = {}
    BY <1>0, <1>3 DEF Exit, AtEof
  <2>2. at[q] # "unborn"
    <3>1. p < link \/ p = link
      BY <1>0 DEF Forks
    <3>2. q < link
      BY <3>1, <1>0, <1>3, ShellFacts
    <3> QED BY <3>2, <1>0, <1>3 DEF Forks
  <2>3. at[q] = "done"
    BY <2>1, <2>2, <1>0, <1>3, NoWriters
  <2>4. ~ Gone(q)
    BY <1>0, <1>3 DEF Gone
  <2>5. w[q] = Output[q]
    BY <2>3, <2>4, <1>0, <1>3 DEF Complete
  <2>6. w[q] = w[p] \o <<>>
    <3>1. w[p] \o <<>> \in Seq(Nat)
      BY <1>0, FlowTypes
    <3>2. (w[p] \o <<>>) \o <<>> = w[p] \o <<>>
      BY <3>1, ConcatEmptySeq
    <3> QED BY <3>2, <2>1, <1>2, <1>3
  <2> QED BY <2>5, <2>6
<1>4. /\ Told(Command(p), p = 1, at[p], w[p], <<>>) /\ w[p] \in Seq(Nat)
  <2>1. Told(Command(p), p = 1, at[p], w[p], left[p]) /\ w[p] \in Seq(Nat)
    BY <1>0, FlowTypes
  <2> QED BY <2>1, <1>0
<1>5. at[p] = "last" => Command(p) = "taker"
  BY <1>4 DEF Told
<1>6. \/ at[p] = "run" /\ Command(p) = "writer"
      \/ at[p] = "run" /\ Command(p) \in {"copier", "taker"} /\ (p # 1 => w[p] \o <<>> = input)
      \/ at[p] = "last" /\ (p # 1 => Begins(w[p] \o <<>>, input))
  <2>1. \/ at[p] = "run" /\ Command(p) = "writer"
        \/ at[p] = "run" /\ Command(p) \in {"copier", "taker"}
        \/ at[p] = "last"
    BY DEF Exit, Reads
  <2> QED BY <2>1, <1>2, <1>3, <1>5
<1> HIDE DEF input, q, n
<1>7. w[p] = Prints(chain[p], input)
  BY <1>1, <1>4, <1>6, ToldAll
<1> QED BY <1>1, <1>7

\* What the shell has printed when it sees the end of the last pipe.
LEMMA ShellPrints ==
  ASSUME ChainInv, Fits, Forks, Parses, failed = {},
         NEW w, Flow(w), Complete(w), ShellEnds
  PROVE  out = Output[Len(chain)]
<1> DEFINE n == Len(chain)
<1>0. n \in Nat /\ at[Shell] = "read" /\ link = n + 1 /\ ~ Parsing
      /\ (n > 0 => n \in Link /\ pipe[n] = <<>> /\ Writers(n) = {})
  BY ShellFacts DEF ShellEnds, ChainInv, ShellHolds, Parsing
<1>1. CASE n = 0
  <2>1. out = <<>>
    BY <1>1 DEF Flow
  <2>2. Output[0] = <<>>
    <3>1. text \in Seq(TextWord)
      BY DEF Parses
    <3> QED BY <3>1, OutputIs
  <2> QED BY <2>1, <2>2, <1>1
<1>2. CASE n # 0
  <2>1. n \in Link /\ pipe[n] = <<>> /\ Writers(n) = {} /\ n < link
    BY <1>0, <1>2
  <2>2. at[n] # "unborn"
    BY <2>1 DEF Forks
  <2>3. at[n] = "done"
    BY <2>1, <2>2, NoWriters
  <2>4. ~ Gone(n)
    BY <1>0 DEF Gone
  <2>5. w[n] = Output[n]
    <3>1. n <= n
      BY <1>0
    <3> QED BY <3>1, <2>1, <2>3, <2>4 DEF Complete
  <2>6. w[n] = out \o <<>>
    <3>1. Received(n, w) = out /\ n <= n
      BY <1>0 DEF Received
    <3> HIDE DEF n
    <3>2. w[n] = Received(n, w) \o pipe[n]
      BY <3>1, <2>1, FlowTypes DEF n
    <3> QED BY <3>1, <3>2, <2>1
  <2>7. out \o <<>> = out
    BY FlowFacts, ConcatEmptySeq
  <2> QED BY <2>5, <2>6, <2>7
<1> QED BY <1>1, <1>2

----------------------------------------------------------------------------
(* The steps *)

\* A step of the shell that moves nothing.
LEMMA FlowShell ==
  ASSUME NEW w, Flow(w), UNCHANGED <<chain, pipe, left, out>>,
         \A p \in Link : at'[p] = at[p]
  PROVE  Flow(w)'
BY DEF Flow, Received, Got, Command

\* A step of the shell that moves nothing, and what the commands have written.
LEMMA CompleteShell ==
  ASSUME ChainInv, Fits, Forks, NEW w, Complete(w), UNCHANGED <<text, chain, out>>,
         \A p \in Link : at'[p] = at[p], failed' = {} => failed = {},
         at[Shell] = "done" => at'[Shell] = "done",
         failed' = {} /\ at'[Shell] = "done" => out = Output[Len(chain)]
  PROVE  Complete(w)'
<1>1. Output' = Output
  BY DEF Output, Asked
<1>2. ASSUME NEW p \in Link, p <= Len(chain), Gone(p) PROVE Gone(p)'
  <2>1. p # Len(chain) => p + 1 \in Link
    BY <1>2, FlowFacts
  <2> QED BY <2>1, <1>2 DEF Gone
<1> QED BY <1>1, <1>2 DEF Complete

\* A step of a child that moves nothing in the pipes.
LEMMA FlowChild ==
  ASSUME ChainInv, Fits, Forks, NEW w, Flow(w), NEW c \in Link, UNCHANGED <<chain, pipe, out>>,
         \A p \in Link : p # c => at'[p] = at[p] /\ left'[p] = left[p],
         Command(c) \in {"copier", "taker"} => left'[c] = left[c],
         Told(Command(c), c = 1, at'[c], w[c], left'[c])
  PROVE  Flow(w)'
<1>1. \A p : Command(p)' = Command(p)
  BY DEF Command
<1>2. \A p \in Link : Got(p, w)' = Got(p, w)
  BY <1>1 DEF Got
<1>3. ASSUME NEW k \in Link, k <= Len(chain)
      PROVE  /\ w[k] = Received(k, w)' \o pipe'[k]
             /\ Told(Command(k), k = 1, at'[k], w[k], left'[k])
  <2>1. k # Len(chain) => k + 1 \in Link
    BY <1>3, FlowFacts
  <2> QED BY <2>1, <1>2, <1>3 DEF Received, Flow
<1> QED BY <1>1, <1>3 DEF Flow

\* A step of a child that moves nothing, and what the commands have written.
LEMMA CompleteChild ==
  ASSUME ChainInv, Fits, Forks, NEW w, NEW v, Complete(w),
         UNCHANGED <<text, chain, out, failed>>, at'[Shell] = at[Shell],
         NEW c \in Link, at[c] # "done",
         \A p \in Link : p # c => at'[p] = at[p] /\ v[p] = w[p],
         failed = {} /\ at'[c] = "done" => v[c] = Output[c] \/ Gone(c)
  PROVE  Complete(v)'
<1>1. Output' = Output
  BY DEF Output, Asked
<1>2. ASSUME NEW p \in Link, p <= Len(chain), Gone(p) PROVE Gone(p)'
  <2>1. p # Len(chain) => p + 1 \in Link
    BY <1>2, FlowFacts
  <2>2. p # Len(chain) => at[p + 1] = "done"
    BY <1>2 DEF Gone
  <2>3. p # Len(chain) => p + 1 # c /\ at'[p + 1] = "done"
    BY <2>1, <2>2
  <2> QED BY <2>3, <1>2 DEF Gone
<1>3. ASSUME NEW p \in Link, p <= Len(chain), at'[p] = "done", failed = {}
      PROVE  v[p] = Output[p] \/ Gone(p)'
  <2>1. CASE p = c
    BY <2>1, <1>2, <1>3
  <2>2. CASE p # c
    BY <2>2, <1>2, <1>3 DEF Complete
  <2> QED BY <2>1, <2>2
<1> QED BY <1>1, <1>3 DEF Complete


\* A command takes one element of its input.
LEMMA FlowRead ==
  ASSUME ChainInv, Fits, Forks, NEW w, Flow(w), NEW p \in Link, ReadPipe(p)
  PROVE  Flow(w)'
<1> DEFINE q == p - 1
           s == pipe[q]
           h == <<Head(s)>>
<1>0. /\ at[p] = "run" /\ Command(p) \in {"copier", "taker"} /\ left[p] = <<>> /\ p > 1
      /\ s # <<>> /\ left' = [left EXCEPT ![p] = h] /\ pipe' = [pipe EXCEPT ![q] = Tail(s)]
      /\ at' = [at EXCEPT ![p] = IF Command(p) = "taker" THEN "last" ELSE "run"]
      /\ UNCHANGED <<chain, link, fd, out, failed>>
  BY DEF ReadPipe, Reads
<1>1. /\ p <= Len(chain) /\ q \in Link /\ q + 1 = p /\ q < Len(chain) /\ p # 1 /\ q # p
      /\ q # Len(chain) /\ q <= Len(chain) /\ p \in Nat
      /\ s \in Seq(Nat) /\ w[p] \in Seq(Nat)
  <2>1. p <= Len(chain) /\ p # 1 /\ p \in Nat /\ Len(chain) \in Nat
    BY <1>0, FlowFacts
  <2>2. q \in Link /\ q + 1 = p /\ q < Len(chain)
    BY <2>1, FlowFacts
  <2>3. w[p] \in Seq(Nat)
    BY FlowTypes
  <2>4. pipe[q] \in Seq(Nat)
    BY <2>2, FlowTypes
  <2> QED BY <2>1, <2>2, <2>3, <2>4
<1>2. Head(s) \in Nat /\ (w[p] \o h) \o Tail(s) = w[p] \o s
  BY <1>0, <1>1, HeadMoves
<1>3. /\ left'[p] = h /\ \A k \in Link : k # p => left'[k] = left[k]
      /\ pipe'[q] = Tail(s) /\ \A k \in Link : k # q => pipe'[k] = pipe[k]
      /\ at'[p] = IF Command(p) = "taker" THEN "last" ELSE "run"
      /\ \A k \in Link : k # p => at'[k] = at[k]
  <2>1. left \in [Link -> Seq(Nat)] /\ pipe \in [Link -> Seq(Nat)] /\ DOMAIN at = Process
        /\ \A k \in Link : k \in Process
    BY FlowFacts
  <2> QED BY <2>1, <1>0, <1>1
<1>4. \A k : Command(k)' = Command(k)
  BY <1>0 DEF Command
<1>5. /\ Got(p, w)' = w[p] \o h
      /\ \A k \in Link : k # p => Got(k, w)' = Got(k, w)
  <2>1. Command(p)' \in {"copier", "taker"}
    BY <1>0, <1>4
  <2>2. Got(p, w)' = w[p] \o left'[p]
    BY <2>1 DEF Got
  <2>3. ASSUME NEW k \in Link, k # p PROVE Got(k, w)' = Got(k, w)
    <3>1. Command(k)' = Command(k) /\ left'[k] = left[k]
      BY <2>3, <1>3, <1>4
    <3> QED BY <3>1 DEF Got
  <2> QED BY <2>2, <2>3, <1>3
<1>6. ASSUME NEW k \in Link, k <= Len(chain)
      PROVE  w[k] = Received(k, w)' \o pipe'[k]
  <2>1. CASE k = q
    <3>1. Received(k, w)' = w[p] \o h /\ pipe'[k] = Tail(s)
      BY <2>1, <1>0, <1>1, <1>3, <1>5 DEF Received
    <3>2. w[k] = (w[p] \o <<>>) \o s
      <4>1. w[q] = Received(q, w) \o pipe[q]
        BY <1>1, FlowTypes
      <4>2. Received(q, w) = Got(p, w)
        BY <1>1 DEF Received
      <4>3. Got(p, w) = w[p] \o <<>>
        BY <1>0 DEF Got
      <4> QED BY <4>1, <4>2, <4>3, <2>1
    <3>3. w[p] \o <<>> = w[p]
      BY <1>1, ConcatEmptySeq
    <3> QED BY <3>1, <3>2, <3>3, <1>2
  <2>2. CASE k # q
    <3>1. k # Len(chain) => k + 1 \in Link /\ k + 1 # p
      BY <2>2, <1>1, <1>6, FlowFacts
    <3>2. Received(k, w)' = Received(k, w)
      BY <3>1, <1>0, <1>5 DEF Received
    <3> QED BY <2>2, <3>2, <1>3, <1>6 DEF Flow
  <2> QED BY <2>1, <2>2
<1> HIDE DEF q
<1>7. Told(Command(p), p = 1, at'[p], w[p], left'[p])
  <2>1. Told(Command(p), p = 1, at[p], w[p], left[p])
    BY <1>1, FlowTypes
  <2>2. CASE Command(p) = "copier"
    BY <2>1, <2>2, <1>0, <1>1, <1>3 DEF Told, Before
  <2>3. CASE Command(p) = "taker"
    <3>1. w[p] = <<>>
      BY <2>1, <2>3, <1>0 DEF Told
    <3>2. w[p] \o h = h
      <4>1. h \in Seq(Nat)
        BY <1>2
      <4> QED BY <4>1, <3>1, ConcatEmptySeq
    <3>3. \E z \in Nat : w[p] \o left'[p] = <<z>>
      BY <3>2, <1>2, <1>3
    <3>4. at'[p] = "last"
      BY <2>3, <1>3
    <3> HIDE DEF h, s
    <3> QED BY <3>3, <3>4, <2>3, <1>1 DEF Told, Before
  <2> QED BY <2>2, <2>3, <1>0
<1>8. ASSUME NEW k \in Link, k <= Len(chain)
      PROVE  Told(Command(k), k = 1, at'[k], w[k], left'[k])
  <2>1. CASE k = p
    BY <2>1, <1>7
  <2>2. CASE k # p
    BY <2>2, <1>3, <1>8 DEF Flow
  <2> QED BY <2>1, <2>2
<1> QED BY <1>0, <1>4, <1>6, <1>8 DEF Flow

\* A command writes one element.
LEMMA FlowWrite ==
  ASSUME ChainInv, Fits, Forks, NEW w, Flow(w), NEW p \in Link, WritePipe(p)
  PROVE  \E v \in [Link -> Seq(Nat)] :
            Flow(v)' /\ \A k \in Link : k # p => v[k] = w[k]
<1> SUFFICES ASSUME NEW l, l = left[p], NEW h, h = Head(l), NEW x, x = w[p],
                    NEW more, more = Append(x, h), NEW v, v = [w EXCEPT ![p] = more]
             PROVE  \E y \in [Link -> Seq(Nat)] :
                       Flow(y)' /\ \A k \in Link : k # p => y[k] = w[k]
  OBVIOUS
<1>0. /\ at[p] \in {"run", "last"} /\ l # <<>>
      /\ left' = [left EXCEPT ![p] = Tail(l)] /\ pipe' = [pipe EXCEPT ![p] = Append(pipe[p], h)]
      /\ UNCHANGED <<chain, link, at, fd, out, failed>>
  BY DEF WritePipe
<1>1. /\ p <= Len(chain) /\ l \in Seq(Nat) /\ x \in Seq(Nat) /\ w \in [Link -> Seq(Nat)]
      /\ pipe[p] \in Seq(Nat) /\ Received(p, w) \in Seq(Nat) /\ x = Received(p, w) \o pipe[p]
      /\ Told(Command(p), p = 1, at[p], x, l)
  <2>1. p <= Len(chain) /\ w \in [Link -> Seq(Nat)]
    BY <1>0, FlowFacts DEF Flow
  <2> QED BY <2>1, FlowTypes
<1>2. /\ h \in Nat /\ more \in Seq(Nat) /\ Tail(l) \in Seq(Nat) /\ more \o Tail(l) = x \o l
  <2>1. /\ Head(l) \in Nat /\ Tail(l) \in Seq(Nat) /\ Append(x, Head(l)) \in Seq(Nat)
        /\ Append(x, Head(l)) = x \o <<Head(l)>>
        /\ (x \o <<Head(l)>>) \o Tail(l) = x \o l
    BY <1>0, <1>1, HeadMoves
  <2> QED BY <2>1
<1>3. more = Received(p, w) \o Append(pipe[p], h)
  <2>1. ASSUME NEW r \in Seq(Nat), NEW y \in Seq(Nat), NEW e \in Nat
        PROVE  Append(r \o y, e) = r \o Append(y, e)
    BY JoinsAppend
  <2>2. Append(Received(p, w) \o pipe[p], h) = Received(p, w) \o Append(pipe[p], h)
    BY <2>1, <1>1, <1>2, ZenonT(60)
  <2> QED BY <2>2, <1>1
<1>4. /\ left'[p] = Tail(l) /\ \A k \in Link : k # p => left'[k] = left[k]
      /\ pipe'[p] = Append(pipe[p], h) /\ \A k \in Link : k # p => pipe'[k] = pipe[k]
  <2>1. left \in [Link -> Seq(Nat)] /\ pipe \in [Link -> Seq(Nat)]
    BY FlowFacts
  <2> QED BY <2>1, <1>0
<1>5. /\ v \in [Link -> Seq(Nat)] /\ v[p] = more /\ \A k \in Link : k # p => v[k] = w[k]
  BY <1>1, <1>2
<1>6. \A k : Command(k)' = Command(k)
  BY <1>0 DEF Command
<1>7. \A k \in Link : Got(k, v)' = Got(k, w)
  <2> TAKE k \in Link
  <2>1. CASE k = p
    <3>1. v[p] \o left'[p] = w[p] \o left[p]
      BY <1>2, <1>4, <1>5
    <3>2. Command(k)' = Command(k)
      BY <1>6
    <3> QED BY <2>1, <3>1, <3>2 DEF Got
  <2>2. CASE k # p
    <3>1. Command(k)' = Command(k) /\ v[k] \o left'[k] = w[k] \o left[k]
      BY <2>2, <1>4, <1>5, <1>6
    <3> QED BY <3>1 DEF Got
  <2> QED BY <2>1, <2>2
<1>8. ASSUME NEW k \in Link, k <= Len(chain)
      PROVE  v[k] = Received(k, v)' \o pipe'[k]
  <2>1. Received(k, v)' = Received(k, w)
    <3>1. k # Len(chain) => k + 1 \in Link
      BY <1>8, FlowFacts
    <3> QED BY <3>1, <1>0, <1>7 DEF Received
  <2>2. CASE k = p
    BY <2>1, <2>2, <1>3, <1>4, <1>5
  <2>3. CASE k # p
    BY <2>1, <2>3, <1>4, <1>5, <1>8 DEF Flow
  <2> QED BY <2>2, <2>3
<1>9. Told(Command(p), p = 1, at'[p], v[p], left'[p])
  <2>1. Told(Command(p), p = 1, at[p], more, Tail(l))
    BY <1>0, <1>1, <1>2 DEF Told, Before
  <2> QED BY <2>1, <1>0, <1>4, <1>5
<1>10. ASSUME NEW k \in Link, k <= Len(chain)
       PROVE  Told(Command(k), k = 1, at'[k], v[k], left'[k])
  <2>1. CASE k = p
    BY <2>1, <1>9
  <2>2. CASE k # p
    BY <2>2, <1>0, <1>4, <1>5, <1>10 DEF Flow
  <2> QED BY <2>1, <2>2
<1>11. Flow(v)'
  BY <1>0, <1>5, <1>6, <1>8, <1>10 DEF Flow
<1> QED BY <1>5, <1>11

\* The shell takes from the last pipe and prints.
LEMMA FlowShellReads ==
  ASSUME ChainInv, Fits, Forks, NEW w, Flow(w), ShellReads
  PROVE  Flow(w)'
<1> DEFINE n == Len(chain)
           s == pipe[n]
<1>0. n > 0 /\ UNCHANGED <<chain, link, at, fd, left, failed>>
  BY DEF ShellReads
<1>1. PICK i \in 1 .. Len(s) :
         /\ out' = out \o SubSeq(s, 1, i)
         /\ pipe' = [pipe EXCEPT ![n] = SubSeq(s, i + 1, Len(s))]
  BY DEF ShellReads
<1>2. n \in Link /\ n \in Nat /\ pipe \in [Link -> Seq(Nat)] /\ out \in Seq(Nat) /\ n <= n
  BY <1>0, ShellFacts, FlowFacts
<1>3. w[n] = out \o s
  BY <1>2 DEF Flow, Received
<1> HIDE DEF n
<1>4. s \in Seq(Nat)
  BY <1>2
<1> HIDE DEF s
<1>5. (out \o SubSeq(s, 1, i)) \o SubSeq(s, i + 1, Len(s)) = out \o s
  BY <1>2, <1>4, CutJoins
<1>6. /\ pipe'[n] = SubSeq(s, i + 1, Len(s)) /\ \A k \in Link : k # n => pipe'[k] = pipe[k]
  BY <1>1, <1>2
<1>7. \A k \in Link : Got(k, w)' = Got(k, w) /\ Command(k)' = Command(k)
  BY <1>0 DEF Got, Command
<1>8. ASSUME NEW k \in Link, k <= Len(chain)
      PROVE  w[k] = Received(k, w)' \o pipe'[k]
  <2>1. CASE k = n
    <3>1. Received(k, w)' = out'
      BY <2>1, <1>0 DEF Received, n
    <3> QED BY <2>1, <3>1, <1>1, <1>3, <1>5, <1>6
  <2>2. CASE k # n
    <3>1. k + 1 \in Link
      BY <2>2, <1>8, FlowFacts DEF n
    <3>2. Received(k, w)' = Received(k, w)
      BY <2>2, <3>1, <1>0, <1>7 DEF Received, n
    <3> QED BY <2>2, <3>2, <1>6, <1>8 DEF Flow
  <2> QED BY <2>1, <2>2
<1> QED BY <1>0, <1>7, <1>8 DEF Flow, n


\* When the argument has been read nothing has been written.
LEMMA FlowStarts ==
  ASSUME ChainInv, Fits, Forks, NextCommand \/ NextArgument
  PROVE  Delivers'
<1> SUFFICES ASSUME NEW w, w = [k \in Link |-> <<>>], at'[Shell] \notin {"command", "argument"}
             PROVE  w \in [Link -> Seq(Nat)] /\ Flow(w)' /\ Complete(w)'
  BY DEF Delivers, Parsing
<1>0. /\ UNCHANGED <<chain, link, pipe, left, out, failed>> /\ at'[Shell] = "pipe"
      /\ at' = [at EXCEPT ![Shell] = "pipe"] /\ Shell \notin Link
      /\ \A p \in Link : at'[p] = at[p]
  <2>1. DOMAIN at = Process /\ Shell \in Process /\ Shell \notin Link
        /\ \A p \in Link : p \in Process
    BY FlowFacts
  <2>2. UNCHANGED <<link, pipe, left, out, failed>>
    BY DEF NextCommand, NextArgument
  <2>3. \/ at' = [at EXCEPT ![Shell] = "pipe"] /\ UNCHANGED chain
        \/ at' = [at EXCEPT ![Shell] = "argument"]
        \/ at' = [at EXCEPT ![Shell] = "command"]
        \/ at' = at /\ at[Shell] = "argument"
    BY DEF NextCommand, NextArgument
  <2>4. at' = [at EXCEPT ![Shell] = "pipe"] /\ UNCHANGED chain
    BY <2>1, <2>3
  <2> QED BY <2>1, <2>2, <2>4
<1>1. /\ \A p \in Link : at'[p] = "unborn" /\ pipe'[p] = <<>> /\ left'[p] = <<>> /\ w[p] = <<>>
      /\ out' = <<>>
  BY <1>0 DEF Forks, Parsing, NextCommand, NextArgument
<1>2. <<>> \in Seq(Nat) /\ <<>> \o <<>> = <<>>
  BY EmptySeq
<1>3. w \in [Link -> Seq(Nat)]
  BY <1>2
<1>4. ASSUME NEW p \in Link PROVE Got(p, w)' = <<>>
  BY <1>1, <1>2 DEF Got
<1>5. ASSUME NEW k \in Link, k <= Len(chain)'
      PROVE  w[k] = Received(k, w)' \o pipe'[k] /\ Told(Command(k)', k = 1, at'[k], w[k], left'[k])
  <2>1. k # Len(chain)' => k + 1 \in Link
    BY <1>0, <1>5, FlowFacts
  <2>2. Received(k, w)' = <<>>
    BY <2>1, <1>1, <1>4 DEF Received
  <2>3. Told(Command(k)', k = 1, "unborn", <<>>, <<>>)
    BY DEF Told, Before
  <2> QED BY <2>2, <2>3, <1>1, <1>2
<1>6. Flow(w)'
  BY <1>1, <1>3, <1>5 DEF Flow
<1>7. Complete(w)'
  BY <1>0, <1>1 DEF Complete
<1> QED BY <1>3, <1>6, <1>7


\* The steps of run_chain in the shell.
LEMMA DeliversShell ==
  ASSUME ChainInv, Fits, Forks, Parses, Delivers, RunChain, UNCHANGED <<text, tokens>>
  PROVE  Delivers'
<1>0. /\ DOMAIN at = Process /\ Shell \in Process /\ Shell \notin Link
      /\ \A p \in Link : p \in Process /\ p # Shell
      /\ at[Shell] \in {"pipe", "fork", "close", "read"} /\ ~ Parsing /\ UNCHANGED <<chain, text>>
  <2>1. at[Shell] \in {"pipe", "fork", "close", "read"} /\ UNCHANGED chain
    BY DEF RunChain, MakePipe, PipeFails, Fork, ForkFails, ClosePrev, CloseWriteEnd, ShellReads,
           ShellEnds
  <2> QED BY <2>1, FlowFacts DEF Parsing
<1>1. PICK w \in [Link -> Seq(Nat)] : Flow(w) /\ Complete(w)
  BY <1>0 DEF Delivers
<1>2. CASE MakePipe \/ PipeFails \/ ForkFails \/ ClosePrev \/ CloseWriteEnd \/ ShellEnds
  <2>1. /\ UNCHANGED <<chain, pipe, left, out>> /\ \A p \in Link : at'[p] = at[p]
        /\ failed' = {} => failed = {}
    BY <1>0, <1>2 DEF MakePipe, PipeFails, ForkFails, ClosePrev, CloseWriteEnd, ShellEnds, End
  <2>2. failed' = {} /\ at'[Shell] = "done" => out = Output[Len(chain)]
    <3>1. CASE ShellEnds
      <4>1. failed' = {} => failed = {}
        BY <2>1
      <4> QED BY <3>1, <4>1, <1>1, ShellPrints
    <3>2. CASE PipeFails
      BY <3>2 DEF PipeFails
    <3>3. CASE MakePipe \/ ForkFails \/ ClosePrev \/ CloseWriteEnd
      <4>1. at'[Shell] # "done"
        BY <3>3, <1>0 DEF MakePipe, ForkFails, ClosePrev, CloseWriteEnd
      <4> QED BY <4>1
    <3> QED BY <1>2, <3>1, <3>2, <3>3
  <2>3. at[Shell] # "done"
    BY <1>0
  <2>4. Flow(w)'
    BY <1>1, <2>1, FlowShell
  <2>5. Complete(w)'
    BY <1>0, <1>1, <2>1, <2>2, <2>3, CompleteShell
  <2> QED BY <1>1, <2>4, <2>5 DEF Delivers
<1>3. CASE Fork
  <2>1. /\ UNCHANGED <<chain, pipe, left, out, failed>> /\ link \in Link
        /\ at' = [at EXCEPT ![Shell] = "close", ![link] = "stdin"]
        /\ at[Shell] = "fork" /\ link <= Len(chain)
    BY <1>3, ShellFacts DEF Fork, ChainInv, ShellHolds
  <2>2. /\ at'[Shell] = "close" /\ at'[link] = "stdin"
        /\ \A p \in Link : p # link => at'[p] = at[p]
    BY <2>1, <1>0
  <2>3. at[link] = "unborn"
    <3>1. ~ (link < link) /\ at[Shell] # "close"
      BY <2>1, ShellFacts
    <3> QED BY <3>1, <2>1 DEF Forks
  <2>4. Told(Command(link), link = 1, at'[link], w[link], left'[link])
    <3>1. Told(Command(link), link = 1, at[link], w[link], left[link])
      BY <1>1, <2>1, FlowTypes
    <3> QED BY <3>1, <2>1, <2>2, <2>3 DEF Told, Before
  <2>5. Flow(w)'
    <3>1. ASSUME NEW c \in Link, c = link PROVE Flow(w)'
      BY <3>1, <1>1, <2>1, <2>2, <2>4, FlowChild
    <3> QED BY <3>1, <2>1
  <2>6. Complete(w)'
    <3>1. Output' = Output
      BY <1>0 DEF Output, Asked
    <3>2. ASSUME NEW p \in Link, p <= Len(chain), Gone(p) PROVE Gone(p)'
      <4>1. p # Len(chain) => p + 1 \in Link
        BY <3>2, FlowFacts
      <4>2. p # Len(chain)
        BY <3>2, <2>1 DEF Gone
      <4>3. at[p + 1] = "done"
        BY <3>2, <4>2 DEF Gone
      <4>4. at'[p + 1] = "done"
        BY <4>1, <4>2, <4>3, <2>2, <2>3
      <4> QED BY <4>2, <4>4, <2>1 DEF Gone
    <3>3. ASSUME NEW p \in Link, p <= Len(chain), at'[p] = "done", failed = {}
          PROVE  w[p] = Output[p] \/ Gone(p)'
      <4>1. p # link /\ at[p] = "done"
        BY <3>3, <2>2
      <4> QED BY <4>1, <3>2, <3>3, <1>1 DEF Complete
    <3> QED BY <3>1, <3>3, <2>1, <2>2 DEF Complete
  <2> QED BY <1>1, <2>5, <2>6 DEF Delivers
<1>4. CASE ShellReads
  <2>1. UNCHANGED <<chain, link, at, fd, left, failed>> /\ at[Shell] = "read"
    BY <1>4 DEF ShellReads
  <2>2. Flow(w)'
    BY <1>1, <1>4, FlowShellReads
  <2>3. Complete(w)'
    <3>1. Output' = Output
      BY <1>0 DEF Output, Asked
    <3>2. \A p : Gone(p)' = Gone(p)
      BY <2>1 DEF Gone
    <3> QED BY <3>1, <3>2, <1>1, <2>1 DEF Complete
  <2> QED BY <1>1, <2>2, <2>3 DEF Delivers
<1> QED BY <1>2, <1>3, <1>4 DEF RunChain

\* The steps of a child.
LEMMA DeliversChild ==
  ASSUME ChainInv, Fits, Forks, Parses, Delivers, NEW p \in Link, ChildStep(p)
  PROVE  Delivers'
<1>0. /\ DOMAIN at = Process /\ Shell \in Process /\ Shell \notin Link /\ Shell # p
      /\ \A q \in Link : q \in Process /\ q # Shell
      /\ left \in [Link -> Seq(Nat)] /\ left[p] \in Seq(Nat)
      /\ UNCHANGED <<chain, text, tokens, link, out, failed>>
  <2>1. UNCHANGED <<chain, text, tokens, link, out, failed>>
    BY DEF ChildStep, ChildStdin, ChildStdout, Exec, ReadPipe, WritePipe, BrokenPipe, Exit
  <2> QED BY <2>1, FlowFacts
<1>1. at[p] \in {"stdin", "stdout", "exec", "run", "last"}
  BY DEF ChildStep, ChildStdin, ChildStdout, Exec, ReadPipe, WritePipe, BrokenPipe, Exit
<1>2. ~ Parsing /\ p <= Len(chain)
  BY <1>1, FlowFacts DEF Forks
<1>3. PICK w \in [Link -> Seq(Nat)] : Flow(w) /\ Complete(w)
  BY <1>2 DEF Delivers
<1>4. Told(Command(p), p = 1, at[p], w[p], left[p])
  BY <1>2, <1>3, FlowTypes
<1>5. CASE ChildStdin(p) \/ ChildStdout(p)
  <2>1. PICK a \in {"stdout", "exec"} :
           at' = [at EXCEPT ![p] = a] /\ UNCHANGED <<pipe, left>> /\ at[p] \in Before
    BY <1>5 DEF ChildStdin, ChildStdout, Before
  <2>2. at'[p] = a /\ at'[Shell] = at[Shell] /\ \A q \in Link : q # p => at'[q] = at[q]
    BY <2>1, <1>0
  <2>3. Told(Command(p), p = 1, at'[p], w[p], left'[p])
    BY <1>4, <2>1, <2>2 DEF Told, Before
  <2>4. Flow(w)'
    BY <1>0, <1>3, <2>1, <2>2, <2>3, FlowChild
  <2>5. Complete(w)'
    BY <1>0, <1>1, <1>3, <2>2, CompleteChild
  <2> QED BY <1>3, <2>4, <2>5 DEF Delivers
<1>6. CASE Exec(p) /\ Command(p) # "missing"
  <2>1. /\ at[p] = "exec" /\ at' = [at EXCEPT ![p] = "run"] /\ UNCHANGED pipe
        /\ left' = [left EXCEPT ![p] = IF Command(p) = "writer" THEN Items ELSE <<>>]
    BY <1>6 DEF Exec
  <2>2. /\ at'[p] = "run" /\ at'[Shell] = at[Shell] /\ \A q \in Link : q # p => at'[q] = at[q]
        /\ left'[p] = IF Command(p) = "writer" THEN Items ELSE <<>>
        /\ \A q \in Link : q # p => left'[q] = left[q]
    BY <2>1, <1>0
  <2>3. w[p] = <<>> /\ left[p] = <<>>
    BY <1>4, <2>1 DEF Told, Before
  <2>4. Told(Command(p), p = 1, at'[p], w[p], left'[p])
    <3>1. CASE Command(p) = "writer"
      <4>1. <<>> \o Items = Items
        BY FlowFacts, ConcatEmptySeq
      <4> QED BY <3>1, <4>1, <2>2, <2>3 DEF Told, Before
    <3>2. CASE Command(p) # "writer"
      BY <3>2, <2>2, <2>3 DEF Told, Before
    <3> QED BY <3>1, <3>2
  <2>5. Flow(w)'
    BY <1>0, <1>3, <2>1, <2>2, <2>3, <2>4, FlowChild
  <2>6. Complete(w)'
    BY <1>0, <1>1, <1>3, <2>2, CompleteChild
  <2> QED BY <1>3, <2>5, <2>6 DEF Delivers
<1>7. ASSUME End(p), UNCHANGED <<pipe, left>>,
             failed = {} => w[p] = Output[p] \/ Gone(p),
             Told(Command(p), p = 1, "done", w[p], left[p])
      PROVE  Delivers'
  <2>1. at'[p] = "done" /\ at'[Shell] = at[Shell] /\ \A q \in Link : q # p => at'[q] = at[q]
    BY <1>0, <1>7 DEF End
  <2>2. Flow(w)'
    BY <1>0, <1>3, <1>7, <2>1, FlowChild
  <2>3. Complete(w)'
    BY <1>0, <1>1, <1>3, <1>7, <2>1, CompleteChild
  <2> QED BY <1>3, <2>2, <2>3 DEF Delivers
<1>8. CASE Exec(p) /\ Command(p) = "missing"
  <2>1. w[p] = <<>> /\ left[p] = <<>>
    BY <1>4, <1>8 DEF Told, Exec, Before
  <2>2. Output[p] = <<>>
    <3>1. chain = Asked /\ text \in Seq(TextWord) /\ p \in 1 .. Len(chain)
      BY <1>2, FlowFacts DEF Parses, Parsing
    <3>2. Output[p] = Prints(chain[p], Output[p - 1])
      BY <3>1, OutputIs
    <3> QED BY <3>2, <1>8, PrintsBy
  <2>3. Told(Command(p), p = 1, "done", w[p], left[p])
    BY <2>1, <1>8 DEF Told
  <2> QED BY <1>7, <1>8, <2>1, <2>2, <2>3 DEF Exec
<1>9. at[p] \in {"run", "last"} => Told(Command(p), p = 1, "done", w[p], left[p])
  BY <1>4 DEF Told, Before
<1>10. CASE BrokenPipe(p)
  <2>1. failed = {} => Gone(p)
    BY <1>10, <1>1, NoReaders DEF BrokenPipe
  <2> QED BY <1>7, <1>9, <1>10, <2>1 DEF BrokenPipe
<1>11. CASE Exit(p)
  <2>1. failed = {} => w[p] = Output[p]
    BY <1>2, <1>3, <1>11, ExitPrints
  <2>2. at[p] \in {"run", "last"} /\ UNCHANGED <<pipe, left>> /\ End(p)
    BY <1>11 DEF Exit
  <2> QED BY <1>7, <1>9, <2>1, <2>2
<1>12. CASE ReadPipe(p)
  <2>1. /\ at' = [at EXCEPT ![p] = IF Command(p) = "taker" THEN "last" ELSE "run"]
    BY <1>12 DEF ReadPipe
  <2>2. at'[p] # "done" /\ at'[Shell] = at[Shell] /\ \A q \in Link : q # p => at'[q] = at[q]
    BY <2>1, <1>0
  <2>3. Flow(w)'
    BY <1>3, <1>12, FlowRead
  <2>4. Complete(w)'
    BY <1>0, <1>1, <1>3, <2>2, CompleteChild
  <2> QED BY <1>3, <2>3, <2>4 DEF Delivers
<1>13. CASE WritePipe(p)
  <2>1. UNCHANGED at
    BY <1>13 DEF WritePipe
  <2>2. PICK v \in [Link -> Seq(Nat)] : Flow(v)' /\ \A k \in Link : k # p => v[k] = w[k]
    BY <1>3, <1>13, FlowWrite
  <2>3. Complete(v)'
    BY <1>0, <1>1, <1>3, <2>1, <2>2, CompleteChild
  <2> QED BY <2>2, <2>3 DEF Delivers
<1> QED BY <1>5, <1>6, <1>8, <1>10, <1>11, <1>12, <1>13 DEF ChildStep

FlowInv == ChainInv /\ Parses /\ Forks /\ Delivers

\* Every step keeps the invariant.
LEMMA FlowNext ==
  ASSUME FlowInv, Fits, [ChainNext]_chainVars
  PROVE  FlowInv'
<1> USE DEF FlowInv
<1>1. ChainInv' /\ Forks'
  BY ChainNextInv, ForksNext
<1>2. CASE UNCHANGED chainVars
  <2>1. UNCHANGED <<text, tokens, chain, at>>
    BY <1>2 DEF chainVars
  <2>2. Parses'
    BY <2>1 DEF Parses, Asked
  <2>3. Delivers'
    <3>1. /\ UNCHANGED <<chain, pipe, left, out, failed, at>> /\ Output' = Output
          /\ Parsing' <=> Parsing
      BY <1>2 DEF chainVars, Output, Asked, Parsing
    <3>2. CASE Parsing
      BY <3>1, <3>2 DEF Delivers
    <3>3. CASE ~ Parsing
      <4>1. PICK w \in [Link -> Seq(Nat)] : Flow(w) /\ Complete(w)
        BY <3>3 DEF Delivers
      <4>2. Flow(w)'
        BY <4>1, <3>1, FlowShell
      <4>3. \A p \in Link : Gone(p)' <=> Gone(p)
        BY <3>1 DEF Gone
      <4>4. Complete(w)'
        BY <4>1, <4>3, <3>1 DEF Complete
      <4> QED BY <4>1, <4>2, <4>4 DEF Delivers
    <3> QED BY <3>2, <3>3
  <2> QED BY <1>1, <2>2, <2>3
<1>3. CASE NextCommand \/ NextArgument
  BY <1>1, <1>3, ParsesNext, FlowStarts
<1>4. CASE RunChain /\ UNCHANGED <<text, tokens>>
  <2>1. /\ UNCHANGED chain /\ at[Shell] \notin {"command", "argument"}
        /\ at'[Shell] \notin {"command", "argument"}
    <3>1. Shell \in Process /\ DOMAIN at = Process /\ (link \in Link => link # Shell)
      BY FlowFacts
    <3>2. at[Shell] = "fork" => link \in Link
      BY ShellFacts DEF ChainInv, ShellHolds
    <3> QED BY <1>4, <3>1, <3>2 DEF RunChain, MakePipe, PipeFails, Fork, ForkFails, ClosePrev,
               CloseWriteEnd, ShellReads, ShellEnds, End
  <2>2. Parses'
    BY <1>4, <2>1, ParsesStays
  <2> QED BY <1>1, <1>4, <2>2, DeliversShell
<1>5. ASSUME NEW p \in Link, ChildStep(p) PROVE FlowInv'
  <2>1. UNCHANGED <<text, tokens, chain>>
    BY <1>5 DEF ChildStep, ChildStdin, ChildStdout, Exec, ReadPipe, WritePipe, BrokenPipe, Exit
  <2>2. at[p] # "unborn"
    BY <1>5 DEF ChildStep, ChildStdin, ChildStdout, Exec, ReadPipe, WritePipe, BrokenPipe, Exit
  <2>3. ~ Parsing
    BY <2>2 DEF Forks
  <2>4. at'[Shell] = at[Shell]
    <3>1. Shell \in Process /\ DOMAIN at = Process /\ p # Shell
      BY FlowFacts
    <3> QED BY <1>5, <3>1 DEF ChildStep, ChildStdin, ChildStdout, Exec, ReadPipe, WritePipe,
                              BrokenPipe, Exit, End
  <2>5. Parses'
    BY <2>1, <2>3, <2>4, ParsesStays DEF Parsing
  <2> QED BY <1>1, <1>5, <2>5, DeliversChild
<1> QED BY <1>2, <1>3, <1>4, <1>5 DEF ChainNext, ShellStep, ChainEnded

\* The invariant says what is printed.
LEMMA FlowOutput == FlowInv /\ Fits => OutputRight
<1> SUFFICES ASSUME FlowInv, Fits PROVE OutputRight
  OBVIOUS
<1> USE DEF FlowInv
<1>1. /\ text \in Seq(TextWord) /\ (~ Parsing => chain = Asked)
  BY DEF Parses, Parsing
<1>2. \A k \in 0 .. Len(Asked) : Output[k] \in Seq(Nat)
  BY <1>1, OutputIs
<1>3. Len(Asked) \in Nat /\ Output[Len(Asked)] \in Seq(Nat)
  <2>1. Asked \in Seq(Seq(Argument))
    BY <1>1, OutputIs
  <2>2. Len(Asked) \in 0 .. Len(Asked) /\ Len(Asked) \in Nat
    BY <2>1, LenProperties
  <2> QED BY <2>2, <1>2
<1>4. Begins(out, Output[Len(Asked)])
  <2>1. CASE Parsing
    <3>1. out = <<>>
      BY <2>1 DEF Forks
    <3> QED BY <3>1, <1>3, BeginsIs
  <2>2. CASE ~ Parsing
    <3>1. PICK w \in [Link -> Seq(Nat)] : Flow(w) /\ Complete(w)
      BY <2>2 DEF Delivers
    <3>2. CASE Len(chain) = 0
      <4>1. out = <<>>
        BY <3>1, <3>2 DEF Flow
      <4> QED BY <4>1, <1>3, BeginsIs
    <3>3. CASE Len(chain) # 0
      <4> DEFINE n == Len(chain)
      <4>1. n \in Link /\ n <= n /\ Received(n, w) = out
        BY <3>3, FlowFacts DEF Received
      <4>2. Begins(Received(n, w), Output[n])
        BY <4>1, <3>1, <2>2, FlowBegins
      <4> QED BY <4>1, <4>2, <2>2, <1>1
    <3> QED BY <3>2, <3>3
  <2> QED BY <2>1, <2>2
<1>5. IsPrefix(out, Output[Len(Asked)])
  BY <1>3, <1>4, FlowFacts, BeginsIs
<1>6. failed = {} /\ at[Shell] = "done" => out = Output[Len(Asked)]
  <2> SUFFICES ASSUME failed = {}, at[Shell] = "done" PROVE out = Output[Len(Asked)]
    OBVIOUS
  <2>1. ~ Parsing
    BY DEF Parsing
  <2>2. PICK w \in [Link -> Seq(Nat)] : Flow(w) /\ Complete(w)
    BY <2>1 DEF Delivers
  <2> QED BY <2>1, <2>2, <1>1 DEF Complete
<1> QED BY <1>1, <1>5, <1>6 DEF OutputRight, Parsing

\* The shell runs the commands of its argument and what they print arrives, in
\* order and whole, unless a pipe or a fork failed, and then the beginning of it:
\* for every argument whose commands fit the table (create_chain, chainy.c:26-87,
\* and run_chain, :89-146).
THEOREM WhatIsAskedIsPrinted ==
  ASSUME TextsAreTexts
  PROVE  ChainSpec /\ []Fits => []OutputRight
<1>1. ChainInit => FlowInv
  <2>1. ASSUME ChainInit PROVE Delivers
    BY <2>1 DEF ChainInit, Delivers, Parsing, Process, Shell
  <2> QED BY <2>1, ChainInitInv, ParsesInit, ForksInit DEF FlowInv
<1>2. FlowInv /\ Fits /\ [ChainNext]_chainVars => FlowInv'
  BY FlowNext
<1>3. FlowInv /\ Fits => OutputRight
  BY FlowOutput
<1> QED BY <1>1, <1>2, <1>3, PTL DEF ChainSpec
=============================================================================
