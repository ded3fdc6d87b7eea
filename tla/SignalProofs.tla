---------------------------- MODULE SignalProofs ----------------------------
(***************************************************************************)
(* What a process alone in its directory reads from signalfd() is the log  *)
(* of its signals, in order and each once, for any number of signals and   *)
(* any size of the file system; and wait.h loses no wake-up, for any set   *)
(* of threads and any values of the word.                                  *)
(***************************************************************************)
EXTENDS SignalFd, FutexWait, NatFacts, SequenceTheorems, TLAPS

SigSpec == SigInit /\ [][SigNext]_sigVars

\* No other process opens a file of that name.
Alone == \A p, q \in Proc : p = q

HandlerFrame == [sig : Sig, at : {"get", "end", "write", "set"}, back : Nat]

SigTypeOK ==
    /\ sig_pc \in [Proc -> {"open", "failed", "unlink", "install", "main", "dead"}]
    /\ file \in Seq(Seq(Proc \X Sig)) /\ name \in Nat
    /\ signal_fd \in [Proc -> Nat]
    /\ offset \in [Proc -> Nat] /\ handled \in [Proc -> Nat]
    /\ pending \in [Proc -> SUBSET Sig]
    /\ kills \in [Proc -> Nat]
    /\ frames \in [Proc -> {<<>>} \cup {<<f>> : f \in HandlerFrame}]

\* A handler runs only where the file is open; at its write the offset is the
\* end of the file.
InFile(p) ==
    /\ signal_fd[p] = NoFile => handled[p] = 0 /\ frames[p] = <<>> /\ offset[p] = 0
    /\ signal_fd[p] # NoFile => signal_fd[p] \in 1 .. Len(file)
    /\ frames[p] # <<>> /\ frames[p][1].at = "write" => offset[p] = Len(Contents(p))

\* Before its open there is no file, after it there is one.
Opened(p) ==
    /\ sig_pc[p] = "open" => file = <<>> /\ name = NoFile /\ signal_fd[p] = NoFile
    /\ sig_pc[p] \in {"unlink", "install", "main"} => signal_fd[p] # NoFile

SigInv == SigTypeOK /\ \A p \in Proc : InFile(p) /\ Opened(p)

\* What the abstract log and its reader see of a process.
LogOf(p) == IF signal_fd[p] = NoFile THEN <<>>
            ELSE [i \in DOMAIN Contents(p) |-> Contents(p)[i][2]]

NextOf(p) == IF frames[p] = <<>> \/ Head(frames[p]).at = "get" THEN offset[p]
             ELSE Head(frames[p]).back

Arrives(p) == \E s \in Sig : LogOf(p)' = Append(LogOf(p), s) /\ NextOf(p)' = NextOf(p)

Taken(p) == NextOf(p) < Len(LogOf(p)) /\ NextOf(p)' = NextOf(p) + 1 /\ LogOf(p)' = LogOf(p)

Quiet(p) == LogOf(p)' = LogOf(p) /\ NextOf(p)' = NextOf(p)

----------------------------------------------------------------------------

\* At the beginning nothing is open and nothing logged.
LEMMA SigInitInv == SigInit => SigInv /\ \A p \in Proc : LogOf(p) = <<>> /\ NextOf(p) = 0
<1> SUFFICES ASSUME SigInit
             PROVE  SigInv /\ \A p \in Proc : LogOf(p) = <<>> /\ NextOf(p) = 0
  OBVIOUS
<1>1. <<>> \in Seq(Seq(Proc \X Sig))
  BY EmptySeq
<1> QED BY <1>1
        DEF SigInit, SigInv, SigTypeOK, InFile, Opened, LogOf, NextOf, NoFile

\* A running handler is the only one, and its frame the one a handler changes.
LEMMA OneFrame ==
  ASSUME SigTypeOK, NEW p \in Proc, frames[p] # <<>>
  PROVE  /\ Frame(p) \in HandlerFrame /\ frames[p] = <<Frame(p)>>
         /\ frames[p][1] = Frame(p) /\ Head(frames[p]) = Frame(p)
         /\ Len(frames[p]) = 1
         /\ \A f \in HandlerFrame : SetFrame(p, f) => frames' = [frames EXCEPT ![p] = <<f>>]
<1>1. PICK f \in HandlerFrame : frames[p] = <<f>>
  BY DEF SigTypeOK
<1>2. Len(<<f>>) = 1 /\ <<f>>[1] = f /\ Head(<<f>>) = f
  OBVIOUS
<1>3. Frame(p) = f
  BY <1>1, <1>2 DEF Frame, Last
<1>4. ASSUME NEW g \in HandlerFrame, SetFrame(p, g)
      PROVE  frames' = [frames EXCEPT ![p] = <<g>>]
  <2>1. frames' = [frames EXCEPT ![p] = [frames[p] EXCEPT ![1] = g]]
    BY <1>1, <1>2, <1>4 DEF SetFrame
  <2>2. [<<f>> EXCEPT ![1] = g] = <<g>>
    OBVIOUS
  <2> QED BY <2>1, <2>2, <1>1
<1> QED BY <1>1, <1>2, <1>3, <1>4

\* The program opens an empty file, and reads on from where the log was read to.
LEMMA ProgramStep ==
  ASSUME Alone, SigInv, NEW p \in Proc, Program(p)
  PROVE  SigInv' /\ (Taken(p) \/ Quiet(p))
<1> USE DEF SigInv, Runs
<1>0. \A q \in Proc : q = p
  BY DEF Alone
<1>1. CASE Open(p)
  <2>1. file = <<>> /\ name = NoFile /\ signal_fd[p] = NoFile /\ Len(<<>>) = 0
    BY <1>1 DEF Open, Opened
  <2>2. /\ file' = <<<<>>>> /\ name' = 1 /\ signal_fd' = [signal_fd EXCEPT ![p] = 1]
        /\ sig_pc' = [sig_pc EXCEPT ![p] = "unlink"]
        /\ UNCHANGED <<offset, handled, pending, kills, frames>>
    <3>1. file' = Append(file, <<>>) /\ name' = Len(file) + 1
          /\ signal_fd' = [signal_fd EXCEPT ![p] = Len(file) + 1]
      BY <1>1, <2>1 DEF Open
    <3> QED BY <3>1, <2>1, <1>1 DEF Open
  <2>3. file' \in Seq(Seq(Proc \X Sig)) /\ Len(file') = 1 /\ file'[1] = <<>>
    <3>1. <<>> \in Seq(Proc \X Sig)
      BY EmptySeq
    <3> QED BY <3>1, <2>2
  <2>4. SigTypeOK'
    BY <2>2, <2>3 DEF SigTypeOK
  <2>5. frames[p] = <<>> /\ frames'[p] = <<>> /\ signal_fd'[p] = 1
    BY <1>1, <2>2 DEF Open, SigTypeOK
  <2>6. InFile(p)' /\ Opened(p)'
    BY <2>2, <2>3, <2>5 DEF InFile, Opened, SigTypeOK, NoFile
  <2>7. Quiet(p)
    <3>1. LogOf(p) = <<>>
      BY <2>1 DEF LogOf
    <3>2. LogOf(p)' = [i \in DOMAIN file'[1] |-> file'[1][i][2]]
      BY <2>5 DEF LogOf, Contents, NoFile
    <3>3. LogOf(p)' = <<>>
      BY <3>2, <2>3
    <3>4. NextOf(p)' = NextOf(p)
      BY <2>2, <2>5 DEF NextOf
    <3> QED BY <3>1, <3>3, <3>4 DEF Quiet
  <2> QED BY <2>4, <2>6, <2>7, <1>0
<1>2. CASE OpenFails(p)
  <2>1. SigTypeOK'
    BY <1>2 DEF OpenFails, SigTypeOK
  <2> QED BY <2>1, <1>0, <1>2
          DEF OpenFails, SigTypeOK, InFile, Opened, Quiet, LogOf, NextOf, Contents
<1>3. CASE Unlink(p)
  <2>1. SigTypeOK'
    BY <1>3 DEF Unlink, SigTypeOK, NoFile
  <2> QED BY <2>1, <1>0, <1>3
          DEF Unlink, SigTypeOK, InFile, Opened, Quiet, LogOf, NextOf, Contents
<1>4. CASE Install(p)
  <2>1. SigTypeOK'
    BY <1>4 DEF Install, SigTypeOK
  <2> QED BY <2>1, <1>0, <1>4
          DEF Install, SigTypeOK, InFile, Opened, Quiet, LogOf, NextOf, Contents
<1>5. CASE Read(p)
  <2>1. SigTypeOK'
    BY <1>5 DEF Read, SigTypeOK
  <2>2. signal_fd[p] # NoFile /\ offset'[p] = offset[p] + 1 /\ frames[p] = <<>>
    BY <1>5 DEF Read, Opened, SigTypeOK
  <2>3. Contents(p) \in Seq(Proc \X Sig)
    BY <2>2, ElementOfSeq DEF InFile, SigTypeOK, Contents
  <2>4. Len(LogOf(p)) = Len(Contents(p))
    BY <2>2, <2>3 DEF LogOf
  <2>5. Taken(p)
    BY <2>2, <2>4, <1>5 DEF Read, Taken, NextOf, LogOf, Contents
  <2> QED BY <2>1, <2>2, <2>5, <1>0, <1>5 DEF Read, SigTypeOK, InFile, Opened, Contents
<1> QED BY <1>1, <1>2, <1>3, <1>4, <1>5 DEF Program

\* A handler starts only where none runs: the mask keeps all signals away.
LEMMA SignalStep ==
  ASSUME Alone, SigInv, NEW p \in Proc, Signal(p)
  PROVE  SigInv' /\ Quiet(p)
<1> USE DEF SigInv
<1>0. \A q \in Proc : q = p
  BY DEF Alone
<1>1. CASE \E s \in Sig : SendSignal(p, s)
  <2>1. SigTypeOK'
    BY <1>1 DEF SendSignal, SigTypeOK
  <2> QED BY <2>1, <1>0, <1>1
          DEF SendSignal, SigTypeOK, InFile, Opened, Quiet, LogOf, NextOf, Contents
<1>2. CASE Deliver(p)
  <2> DEFINE due == pending[p] \ Blocked(p)
             s   == Min(due)
  <2>1. due # {} /\ due \in SUBSET Sig
    BY <1>2 DEF Deliver, SigTypeOK
  <2>2. frames[p] = <<>>
    BY <2>1 DEF Blocked
  <2>3. s \in Sig
    <3>1. due \in SUBSET Nat
      BY <2>1 DEF Sig
    <3> HIDE DEF due
    <3>2. s \in due
      BY <2>1, <3>1, MinIsLeast
    <3> QED BY <2>1, <3>2
  <2>4. /\ pending' = [pending EXCEPT ![p] = @ \ {s}]
        /\ \/ /\ s <= handled[p]
              /\ frames' = [frames EXCEPT ![p] =
                                Append(@, [sig |-> s, at |-> "get", back |-> 0])]
              /\ UNCHANGED sig_pc
           \/ /\ sig_pc' = [sig_pc EXCEPT ![p] = "dead"]
              /\ UNCHANGED frames
        /\ UNCHANGED <<file, name, signal_fd, offset, handled, kills>>
    BY <1>2 DEF Deliver
  <2> HIDE DEF s, due
  <2>5. CASE /\ s <= handled[p] /\ UNCHANGED sig_pc
             /\ frames' = [frames EXCEPT ![p] =
                                Append(@, [sig |-> s, at |-> "get", back |-> 0])]
    <3> DEFINE f == [sig |-> s, at |-> "get", back |-> 0]
    <3>1. f \in HandlerFrame
      BY <2>3 DEF HandlerFrame
    <3>2. frames' = [frames EXCEPT ![p] = <<f>>]
      BY <2>2, <2>5
    <3>3. frames'[p] = <<f>> /\ f.at = "get" /\ Head(<<f>>) = f /\ <<f>>[1] = f
      BY <3>2 DEF SigTypeOK
    <3> HIDE DEF f
    <3>4. SigTypeOK'
      <4>1. pending' \in [Proc -> SUBSET Sig]
        BY <2>4 DEF SigTypeOK
      <4>2. frames' \in [Proc -> {<<>>} \cup {<<g>> : g \in HandlerFrame}]
        BY <3>1, <3>2 DEF SigTypeOK
      <4> QED BY <4>1, <4>2, <2>4, <2>5 DEF SigTypeOK
    <3>5. s # 0
      BY <2>3 DEF Sig
    <3>6. signal_fd[p] # NoFile
      <4>1. s \in Nat \ {0} /\ s <= handled[p]
        BY <2>3, <2>5 DEF Sig
      <4>2. handled[p] # 0
        BY <4>1
      <4> QED BY <4>2 DEF InFile
    <3>7. InFile(p)' /\ Opened(p)'
      BY <2>4, <2>5, <3>3, <3>6 DEF InFile, Opened
    <3>8. Quiet(p)
      BY <2>2, <2>4, <3>3 DEF Quiet, LogOf, NextOf, Contents
    <3> QED BY <3>4, <3>7, <3>8, <1>0
  <2>6. CASE sig_pc' = [sig_pc EXCEPT ![p] = "dead"] /\ UNCHANGED frames
    <3>1. SigTypeOK'
      BY <2>4, <2>6 DEF SigTypeOK
    <3> QED BY <3>1, <1>0, <2>4, <2>6
            DEF SigTypeOK, InFile, Opened, Quiet, LogOf, NextOf, Contents
  <2> QED BY <2>4, <2>5, <2>6
<1> QED BY <1>1, <1>2 DEF Signal

\* A number at the end of the file is one at the end of the log.
LEMMA LogGrows ==
  ASSUME NEW all \in Seq(Proc \X Sig), NEW e \in Proc \X Sig
  PROVE  [i \in DOMAIN Append(all, e) |-> Append(all, e)[i][2]] =
            Append([i \in DOMAIN all |-> all[i][2]], e[2])
<1> DEFINE log == [i \in DOMAIN all |-> all[i][2]]
           new == [i \in DOMAIN Append(all, e) |-> Append(all, e)[i][2]]
<1>1. /\ Len(all) \in Nat /\ DOMAIN all = 1 .. Len(all)
      /\ \A i \in 1 .. Len(all) : all[i] \in Proc \X Sig
  BY LenProperties, ElementOfSeq
<1>2. /\ Append(all, e) \in Seq(Proc \X Sig) /\ Len(Append(all, e)) = Len(all) + 1
      /\ DOMAIN Append(all, e) = 1 .. Len(all) + 1
      /\ \A i \in 1 .. Len(all) : Append(all, e)[i] = all[i]
      /\ Append(all, e)[Len(all) + 1] = e
  BY <1>1, AppendProperties, LenProperties
<1>3. log \in Seq(Sig) /\ Len(log) = Len(all)
  BY <1>1, IsASeq
<1>4. new \in Seq(Sig) /\ Len(new) = Len(all) + 1
  <2>1. \A i \in 1 .. Len(all) + 1 : Append(all, e)[i] \in Proc \X Sig
    BY <1>2, ElementOfSeq
  <2> QED BY <2>1, <1>1, <1>2, IsASeq
<1>5. /\ Append(log, e[2]) \in Seq(Sig) /\ Len(Append(log, e[2])) = Len(all) + 1
      /\ \A i \in 1 .. Len(all) : Append(log, e[2])[i] = log[i]
      /\ Append(log, e[2])[Len(all) + 1] = e[2]
  BY <1>3, AppendProperties
<1>6. \A i \in 1 .. Len(all) + 1 : new[i] = Append(log, e[2])[i]
  <2> TAKE i \in 1 .. Len(all) + 1
  <2>1. CASE i \in 1 .. Len(all)
    BY <2>1, <1>1, <1>2, <1>5
  <2>2. CASE i = Len(all) + 1
    BY <2>2, <1>2, <1>5
  <2> QED BY <2>1, <2>2, <1>1
<1> HIDE DEF log, new
<1>7. new = Append(log, e[2])
  BY <1>4, <1>5, <1>6, SeqEqual
<1> QED BY <1>7 DEF log, new

\* The handler writes at the end of the file, and what the program will read
\* next is in its frame until it is the offset again.
LEMMA HandlerStep ==
  ASSUME Alone, SigInv, NEW p \in Proc, Handler(p)
  PROVE  SigInv' /\ (Arrives(p) \/ Quiet(p))
<1> USE DEF SigInv, InHandler
<1>0. \A q \in Proc : q = p
  BY DEF Alone
<1>a. frames[p] # <<>>
  BY DEF Handler, GetOffset, SeekEnd, Write, SetOffset
<1>b. /\ Frame(p) \in HandlerFrame /\ frames[p] = <<Frame(p)>>
      /\ frames[p][1] = Frame(p) /\ Head(frames[p]) = Frame(p)
      /\ \A f \in HandlerFrame : SetFrame(p, f) => frames' = [frames EXCEPT ![p] = <<f>>]
  BY <1>a, OneFrame
<1>c. signal_fd[p] # NoFile /\ signal_fd[p] \in 1 .. Len(file)
  BY <1>a DEF InFile
<1>d. Contents(p) \in Seq(Proc \X Sig) /\ Len(Contents(p)) \in Nat
  <2>1. file \in Seq(Seq(Proc \X Sig))
    BY DEF SigTypeOK
  <2> QED BY <2>1, <1>c, ElementOfSeq, LenProperties DEF Contents
<1>e. ASSUME NEW f \in HandlerFrame, SetFrame(p, f)
      PROVE  /\ frames' \in [Proc -> {<<>>} \cup {<<g>> : g \in HandlerFrame}]
             /\ frames'[p] = <<f>> /\ frames'[p] # <<>>
             /\ frames'[p][1] = f /\ Head(frames'[p]) = f
  <2>1. frames' = [frames EXCEPT ![p] = <<f>>]
    BY <1>b, <1>e
  <2>2. frames \in [Proc -> {<<>>} \cup {<<g>> : g \in HandlerFrame}]
    BY DEF SigTypeOK
  <2>3. frames' \in [Proc -> {<<>>} \cup {<<g>> : g \in HandlerFrame}]
    BY <2>1, <2>2
  <2>4. frames'[p] = <<f>>
    BY <2>1, <2>2
  <2> QED BY <2>3, <2>4
<1>1. CASE GetOffset(p)
  <2> DEFINE f == [Frame(p) EXCEPT !.at = "end", !.back = offset[p]]
  <2>1. f \in HandlerFrame /\ f.at = "end" /\ f.back = offset[p] /\ Frame(p).at = "get"
    BY <1>1, <1>b DEF GetOffset, HandlerFrame, SigTypeOK
  <2>2. SetFrame(p, f)
    BY <1>1 DEF GetOffset
  <2> HIDE DEF f
  <2>3. SigTypeOK'
    BY <1>1, <1>e, <2>1, <2>2 DEF GetOffset, SigTypeOK
  <2>4. Quiet(p)
    BY <1>1, <1>a, <1>b, <1>e, <2>1, <2>2 DEF GetOffset, Quiet, LogOf, NextOf, Contents
  <2> QED BY <2>3, <2>4, <1>0, <1>1, <1>c, <1>e, <2>1, <2>2
          DEF GetOffset, InFile, Opened
<1>2. CASE SeekEnd(p)
  <2> DEFINE f == [Frame(p) EXCEPT !.at = "write"]
  <2>1. /\ f \in HandlerFrame /\ f.at = "write" /\ f.back = Frame(p).back
        /\ Frame(p).at = "end"
    BY <1>2, <1>b DEF SeekEnd, HandlerFrame
  <2>2. SetFrame(p, f)
    BY <1>2 DEF SeekEnd
  <2> HIDE DEF f
  <2>3. SigTypeOK' /\ offset'[p] = Len(Contents(p))
    BY <1>2, <1>d, <1>e, <2>1, <2>2 DEF SeekEnd, SigTypeOK
  <2>4. Quiet(p)
    BY <1>2, <1>a, <1>b, <1>e, <2>1, <2>2 DEF SeekEnd, Quiet, LogOf, NextOf, Contents
  <2> QED BY <2>3, <2>4, <1>0, <1>2, <1>c, <1>e, <2>1, <2>2
          DEF SeekEnd, InFile, Opened, Contents
<1>3. CASE Write(p)
  <2> DEFINE f == [Frame(p) EXCEPT !.at = "set"]
             e == <<p, Frame(p).sig>>
  <2>1. /\ f \in HandlerFrame /\ f.at = "set" /\ f.back = Frame(p).back
        /\ Frame(p).at = "write" /\ e \in Proc \X Sig /\ e[2] = Frame(p).sig
        /\ Frame(p).sig \in Sig
    BY <1>3, <1>b DEF Write, HandlerFrame
  <2>2. SetFrame(p, f)
    BY <1>3 DEF Write
  <2> HIDE DEF f
  <2>3. offset[p] = Len(Contents(p))
    BY <1>a, <1>b, <2>1 DEF InFile
  <2>4. NextOf(p)' = NextOf(p)
    BY <1>a, <1>b, <1>e, <2>1, <2>2 DEF NextOf
  <2>5. CASE offset[p] < Room
    <3>1. /\ file' = [file EXCEPT ![signal_fd[p]] = Append(Contents(p), e)]
          /\ offset' = [offset EXCEPT ![p] = @ + 1]
          /\ UNCHANGED <<sig_pc, name, signal_fd, handled, pending, kills>>
      <4>1. ~ (offset[p] < Len(Contents(p)))
        BY <2>3, <1>d
      <4> QED BY <4>1, <2>5, <1>3 DEF Write, Contents
    <3> HIDE DEF e
    <3>2. Append(Contents(p), e) \in Seq(Proc \X Sig)
      BY <2>1, <1>d, AppendProperties
    <3>3. /\ file' \in Seq(Seq(Proc \X Sig)) /\ Len(file') = Len(file)
          /\ file'[signal_fd[p]] = Append(Contents(p), e)
      <4>1. file \in Seq(Seq(Proc \X Sig))
        BY DEF SigTypeOK
      <4>2. /\ [file EXCEPT ![signal_fd[p]] = Append(Contents(p), e)] \in Seq(Seq(Proc \X Sig))
            /\ Len([file EXCEPT ![signal_fd[p]] = Append(Contents(p), e)]) = Len(file)
            /\ [file EXCEPT ![signal_fd[p]] = Append(Contents(p), e)][signal_fd[p]] =
                  Append(Contents(p), e)
        BY <4>1, <1>c, <3>2, ExceptSeq
      <4> QED BY <4>2, <3>1
    <3>4. SigTypeOK'
      <4>1. offset' \in [Proc -> Nat]
        BY <3>1 DEF SigTypeOK
      <4> QED BY <4>1, <1>e, <2>1, <2>2, <3>1, <3>3 DEF SigTypeOK
    <3>5. LogOf(p)' = Append(LogOf(p), Frame(p).sig)
      <4>1. LogOf(p)' = [i \in DOMAIN Append(Contents(p), e) |-> Append(Contents(p), e)[i][2]]
        BY <1>c, <3>1, <3>3 DEF LogOf, Contents
      <4>2. LogOf(p) = [i \in DOMAIN Contents(p) |-> Contents(p)[i][2]]
        BY <1>c DEF LogOf
      <4> QED BY <4>1, <4>2, <1>d, <2>1, LogGrows
    <3>6. Arrives(p)
      BY <2>1, <2>4, <3>5 DEF Arrives
    <3> QED BY <3>1, <3>3, <3>4, <3>6, <1>0, <1>c, <1>e, <2>1, <2>2 DEF InFile, Opened
  <2>6. CASE ~ offset[p] < Room
    <3>1. UNCHANGED <<file, offset, sig_pc, name, signal_fd, handled, pending, kills>>
      BY <2>6, <1>3 DEF Write
    <3>2. SigTypeOK'
      BY <1>e, <2>1, <2>2, <3>1 DEF SigTypeOK
    <3>3. Quiet(p)
      BY <2>4, <3>1 DEF Quiet, LogOf, Contents
    <3> QED BY <3>1, <3>2, <3>3, <1>0, <1>c, <1>e, <2>1, <2>2 DEF InFile, Opened
  <2> QED BY <2>5, <2>6
<1>4. CASE SetOffset(p)
  <2>1. Frame(p).at = "set" /\ Frame(p).back \in Nat
    BY <1>4, <1>b DEF SetOffset, HandlerFrame
  <2>2. frames' = [frames EXCEPT ![p] = <<>>]
    <3>1. Front(<<Frame(p)>>) = <<>>
      <4>1. Len(<<Frame(p)>>) = 1
        OBVIOUS
      <4>2. Front(<<Frame(p)>>) = SubSeq(<<Frame(p)>>, 1, 0)
        BY <4>1 DEF Front
      <4> QED BY <4>2, SubSeqEmpty
    <3> QED BY <3>1, <1>4, <1>b DEF SetOffset
  <2>3. SigTypeOK' /\ frames'[p] = <<>> /\ offset'[p] = Frame(p).back
    BY <1>4, <2>1, <2>2 DEF SetOffset, SigTypeOK
  <2>4. Quiet(p)
    BY <1>4, <1>a, <1>b, <2>1, <2>3 DEF SetOffset, Quiet, LogOf, NextOf, Contents
  <2> QED BY <2>3, <2>4, <1>0, <1>4, <1>c DEF SetOffset, InFile, Opened
<1> QED BY <1>1, <1>2, <1>3, <1>4 DEF Handler

----------------------------------------------------------------------------

\* SigInv is an inductive invariant of a process that is alone.
THEOREM SignalFdInvariant == ASSUME Alone PROVE SigSpec => []SigInv
<1>1. SigInv /\ [SigNext]_sigVars => SigInv'
  <2>1. SigInv /\ UNCHANGED sigVars => SigInv'
    BY DEF SigInv, SigTypeOK, InFile, Opened, Contents, sigVars
  <2> QED BY <2>1, ProgramStep, HandlerStep, SignalStep DEF SigNext
<1> QED BY <1>1, SigInitInv, PTL DEF SigSpec

\* A process that is alone reads its signals in the order in which they were
\* logged and each once, although the handler moves the offset it reads at.
THEOREM SignalsReadInOrder == ASSUME Alone PROVE SigSpec => ReadInOrder
<1> DEFINE log  == [p \in Proc |-> LogOf(p)]
           next == [p \in Proc |-> NextOf(p)]
<1>1. SigInit => Log!LInit
  BY SigInitInv DEF Log!LInit, LogOf, NextOf
<1>2. SigInv /\ [SigNext]_sigVars =>
        [\E p \in Proc : Log!Arrive(p) \/ Log!Take(p)]_<<log, next>>
  <2>1. ASSUME NEW p \in Proc, \A q \in Proc : q = p, Arrives(p)
        PROVE  Log!Arrive(p)
    <3>1. PICK s \in Sig : LogOf(p)' = Append(LogOf(p), s) /\ NextOf(p)' = NextOf(p)
      BY <2>1 DEF Arrives
    <3>2. log' = [log EXCEPT ![p] = Append(log[p], s)]
      BY <2>1, <3>1
    <3>3. next' = next
      BY <2>1, <3>1
    <3> QED BY <3>2, <3>3 DEF Log!Arrive, LogOf, NextOf
  <2>2. ASSUME NEW p \in Proc, \A q \in Proc : q = p, Taken(p)
        PROVE  Log!Take(p)
    BY <2>2 DEF Log!Take, Taken, LogOf, NextOf
  <2>3. ASSUME NEW p \in Proc, \A q \in Proc : q = p, Quiet(p)
        PROVE  UNCHANGED <<log, next>>
    BY <2>3 DEF Quiet
  <2>4. ASSUME SigInv, UNCHANGED sigVars PROVE UNCHANGED <<log, next>>
    BY <2>4 DEF sigVars, LogOf, NextOf, Contents
  <2>5. ASSUME SigInv, NEW p \in Proc, Program(p) \/ Handler(p) \/ Signal(p)
        PROVE  Arrives(p) \/ Taken(p) \/ Quiet(p)
    BY <2>5, ProgramStep, HandlerStep, SignalStep
  <2> HIDE DEF log, next
  <2> QED BY <2>1, <2>2, <2>3, <2>4, <2>5 DEF SigNext, Alone
<1>3. log = [p \in Proc |-> LogOf(p)] /\ next = [p \in Proc |-> NextOf(p)]
  OBVIOUS
<1> QED BY SignalFdInvariant, <1>1, <1>2, PTL DEF SigSpec, ReadInOrder, Log!LSpec, LogOf, NextOf

----------------------------------------------------------------------------
(* The futex *)

\* NoLostWakeup is not inductive alone: a notify_one may wake another thread
\* than the stale one.  OneWaits says what excludes it.
\* Where notify_one is used, one thread waits at a time.
OneWaits ==
    notifies = "one" =>
        \A v, w \in Waiter : waiter[v] # "away" /\ waiter[w] # "away" => v = w

FutexInv == FutexTypeOK /\ OneWaits /\ NoLostWakeup

\* The invariant holds before any thread waits.
LEMMA FutexInitInv == FutexInit => FutexInv
  BY FutexWaitAssumption
     DEF FutexInit, FutexInv, FutexTypeOK, OneWaits, NoLostWakeup, Stale

\* Steps of a waiting thread leave the word and the setters alone.  It falls
\* asleep only where the kernel finds its old value in the word.
LEMMA WaiterInv ==
  ASSUME FutexInv, NEW w \in Waiter,
         atomic_wait(w) \/ WaiterStep(w) \/ Interrupted(w)
  PROVE  FutexInv'
<1> USE DEF FutexInv, FutexTypeOK
<1>1. CASE atomic_wait(w)
  BY <1>1 DEF atomic_wait, OneWaits, NoLostWakeup, Stale
<1>2. CASE Load(w)
  BY <1>2 DEF Load, OneWaits, NoLostWakeup, Stale
<1>3. CASE PlatformWait(w)
  BY <1>3 DEF PlatformWait, OneWaits, NoLostWakeup, Stale
<1>4. CASE Interrupted(w)
  BY <1>4 DEF Interrupted, OneWaits, NoLostWakeup, Stale
<1> QED BY <1>1, <1>2, <1>3, <1>4 DEF WaiterStep

\* A setter that changes the word owes a notification; one that notifies
\* leaves no stale thread asleep.
LEMMA SetterInv ==
  ASSUME FutexInv, NEW s \in Setter, Store(s) \/ Notification(s)
  PROVE  FutexInv'
<1> USE DEF FutexInv, FutexTypeOK
<1>1. CASE Store(s)
  BY <1>1 DEF Store, OneWaits, NoLostWakeup
<1>2. CASE atomic_notify_one(s)
  <2>1. FutexTypeOK' /\ OneWaits'
    BY <1>2 DEF atomic_notify_one, Wake, Sleepers, OneWaits
  <2>2. ~ \E w \in Waiter : waiter'[w] = "asleep"
    BY <1>2 DEF atomic_notify_one, Wake, Sleepers, OneWaits
  <2> QED BY <2>1, <2>2 DEF NoLostWakeup, Stale
<1>3. CASE atomic_notify_all(s)
  <2>1. FutexTypeOK' /\ OneWaits'
    BY <1>3 DEF atomic_notify_all, Wake, Sleepers, OneWaits
  <2>2. ~ \E w \in Waiter : waiter'[w] = "asleep"
    BY <1>3 DEF atomic_notify_all, Wake, Sleepers
  <2> QED BY <2>1, <2>2 DEF NoLostWakeup, Stale
<1> QED BY <1>1, <1>2, <1>3 DEF Notification

\* FutexInv is an inductive invariant of the specification.
THEOREM FutexInvariant == FutexSpec => []FutexInv
<1>1. FutexInv /\ UNCHANGED futexVars => FutexInv'
  BY DEF FutexInv, FutexTypeOK, OneWaits, NoLostWakeup, Stale, futexVars
<1>2. FutexInv /\ [FutexNext]_futexVars => FutexInv'
  BY <1>1, WaiterInv, SetterInv DEF FutexNext
<1> QED BY FutexInitInv, <1>2, PTL DEF FutexSpec

\* wait.h loses no wake-up, whatever the threads and the values of the word.
THEOREM NoWakeupLost == FutexSpec => []NoLostWakeup
<1>1. FutexInv => NoLostWakeup
  BY DEF FutexInv
<1> QED BY FutexInvariant, <1>1, PTL
=============================================================================
