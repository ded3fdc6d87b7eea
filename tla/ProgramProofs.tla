--------------------------- MODULE ProgramProofs ----------------------------
(***************************************************************************)
(* Proofs about the programs that work on files and on what they keep in   *)
(* memory: the pages of the file allocator through every kill, what tailf  *)
(* prints, what a Bloom filter finds, what rm removes and mkdir makes,     *)
(* whom find_lca names, and what minigrep finds.                           *)
(***************************************************************************)
EXTENDS FileAllocator, Tailf, BloomFilter, FsUtils, Lca, Minigrep,
        NatFacts, SequenceTheorems, TLAPS

----------------------------------------------------------------------------
(* the file allocator: its counter, reservations and data are right for    *)
(* any number of pages, clients and sizes, through every kill.  What the   *)
(* properties lack to be inductive is Local: what the process knows while  *)
(* it is inside falloc_init or falloc_acquire_page.                        *)

\* The pages the mask says are used.
UsedPages == {i \in Index : GetPageBit(i)}

\* A file that was never opened is empty, and so is one that this process has
\* created and not mapped yet; the counter is 0 until the pages are counted;
\* the page being acquired is marked, and its client has none yet.
Local ==
    /\ ~ exists => pc = "down"
    /\ ~ exists \/ (~ existed /\ pc \in {"opened", "sized", "mapped"}) =>
          \A c \in Client : held[c] = NoPage
    /\ pc = "mapped" => count = 0
    /\ pc = "acquired" => /\ found \in Index /\ GetPageBit(found)
                          /\ user \in Client /\ held[user] = NoPage

\* A page that ends inside the file is whole: its last bytes are written and
\* kept with the others.
WholeInside == \A i \in Index : i # N - 1 => tail[i] = body[i]

Inv == /\ TypeOK
       /\ Local
       /\ CountAccurate
       /\ HeldPagesReserved
       /\ DataSurvives
       /\ WholeInside
       /\ NoDescriptorLeak

----------------------------------------------------------------------------
(* Facts about the mask *)

\* Shift and mask by the word's width name every page's bit once.
LEMMA BitInjective ==
  ASSUME NEW i \in Nat, NEW j \in Nat, Bit(i) = Bit(j)
  PROVE  i = j
<1>1. i \div WordBits = j \div WordBits /\ i % WordBits = j % WordBits
  BY DEF Bit
<1> DEFINE q == i \div WordBits
           r == i % WordBits
<1>2. i = WordBits * q + r /\ j = WordBits * q + r
  BY <1>1, FileAllocatorAssumption
<1> QED BY <1>2, FileAllocatorAssumption

\* A page's bit lies in a word of the mask.
LEMMA BitType ==
  ASSUME NEW i \in Index
  PROVE  Bit(i) \in Nat \X (0 .. WordBits - 1)
<1>1. i \in Nat /\ WordBits \in Nat \ {0}
  BY FileAllocatorAssumption DEF Index
<1>2. i \div WordBits \in Nat
  BY <1>1
<1>3. i % WordBits \in 0 .. WordBits - 1
  BY <1>1
<1> QED BY <1>2, <1>3 DEF Bit

\* The used pages can be counted, and there are at most N.
LEMMA UsedPagesFinite ==
  IsFiniteSet(UsedPages) /\ Cardinality(UsedPages) \in 0 .. N
<1>1. IsFiniteSet(Index) /\ Cardinality(Index) = N
  BY FS_Interval, FileAllocatorAssumption DEF Index
<1>2. UsedPages \in SUBSET Index
  BY DEF UsedPages
<1>3. IsFiniteSet(UsedPages) /\ Cardinality(UsedPages) <= N
  BY <1>1, <1>2, FS_Subset
<1> QED BY <1>3, FS_CardinalityType, FileAllocatorAssumption

\* Marking a free page makes one more used page.
LEMMA MarkOne ==
  ASSUME NEW i \in FreePages, mask' = mask \cup {Bit(i)}
  PROVE  /\ UsedPages' = UsedPages \cup {i}
         /\ Cardinality(UsedPages') = Cardinality(UsedPages) + 1
<1>1. i \in Index /\ i \notin UsedPages
  BY DEF FreePages, UsedPages
<1>2. ASSUME NEW j \in Index PROVE j \in UsedPages' <=> j \in UsedPages \cup {i}
  <2>1. j \in Nat /\ i \in Nat
    BY <1>1, FileAllocatorAssumption DEF Index
  <2> QED BY <2>1, <1>1, BitInjective DEF UsedPages, GetPageBit
<1>3. UsedPages' = UsedPages \cup {i}
  BY <1>1, <1>2 DEF UsedPages
<1> QED BY <1>1, <1>3, UsedPagesFinite, FS_AddElement

\* Unmarking a used page makes one used page less, and touches no other.
LEMMA UnmarkOne ==
  ASSUME NEW i \in UsedPages, mask' = mask \ {Bit(i)}
  PROVE  /\ UsedPages' = UsedPages \ {i}
         /\ Cardinality(UsedPages') = Cardinality(UsedPages) - 1
<1>1. i \in Index
  BY DEF UsedPages
<1>2. ASSUME NEW j \in Index PROVE j \in UsedPages' <=> j \in UsedPages \ {i}
  <2>1. j \in Nat /\ i \in Nat
    BY <1>1, FileAllocatorAssumption DEF Index
  <2> QED BY <2>1, <1>1, BitInjective DEF UsedPages, GetPageBit
<1>3. UsedPages' = UsedPages \ {i}
  BY <1>1, <1>2 DEF UsedPages
<1> QED BY <1>3, UsedPagesFinite, FS_RemoveElement

\* base_addr is never at a page boundary, so no mapping is ever taken down.
LEMMA NeverUnmaps == ~ UnmapSucceeds
<1>1. PAGE_MASK_SIZE \in 1 .. PAGE_SIZE - 1 /\ PAGE_SIZE \in Nat \ {0}
  BY FileAllocatorAssumption
<1>2. PAGE_MASK_SIZE % PAGE_SIZE = PAGE_MASK_SIZE
  BY <1>1
<1> QED BY <1>1, <1>2 DEF UnmapSucceeds

\* What CountAccurate says, in terms of UsedPages.
LEMMA CountsUsedPages ==
  CountAccurate <=> (pc \in {"up", "acquired"} => count = Cardinality(UsedPages))
BY DEF CountAccurate, UsedPages

\* A step that leaves the mask alone leaves the used pages alone.
LEMMA SameMask ==
  ASSUME UNCHANGED mask
  PROVE  UsedPages' = UsedPages /\ \A i \in Index : GetPageBit(i)' = GetPageBit(i)
BY DEF UsedPages, GetPageBit

\* Every page but the last one ends inside the file.
LEMMA OnlyLastPageSticksOut ==
  ASSUME NEW i \in Index, i # N - 1
  PROVE  PageEnd(i) <= FileSize
<1>1. i \in Nat /\ i + 2 <= N /\ N \in Nat /\ PAGE_SIZE \in Nat
  BY FileAllocatorAssumption DEF Index
<1>2. PICK k \in Nat : N = i + 2 + k
  <2>1. N - (i + 2) \in Nat /\ N = i + 2 + (N - (i + 2))
    BY <1>1
  <2> QED BY <2>1
<1>3. k * PAGE_SIZE \in Nat
  BY <1>1
<1>4. N * PAGE_SIZE = (i + 1) * PAGE_SIZE + PAGE_SIZE + k * PAGE_SIZE
  BY <1>1, <1>2
<1> QED BY <1>1, <1>3, <1>4, FileAllocatorAssumption DEF PageEnd, FileSize

----------------------------------------------------------------------------
(* The invariant, action by action *)

\* Before the first run there is no file.
LEMMA InitInv == Init => Inv
<1> SUFFICES ASSUME Init PROVE Inv
  OBVIOUS
<1> USE FileAllocatorAssumption DEF Init
<1>1. TypeOK
  <2>1. exists \in BOOLEAN /\ existed \in BOOLEAN /\ base \in BOOLEAN
    OBVIOUS
  <2>2. count \in 0 .. N
    OBVIOUS
  <2> QED BY <2>1, <2>2 DEF TypeOK
<1>2. Local /\ CountAccurate /\ DataSurvives /\ WholeInside /\ NoDescriptorLeak
  BY DEF Local, CountAccurate, DataSurvives, WholeInside, NoDescriptorLeak
<1>3. HeldPagesReserved
  BY <1>1 DEF HeldPagesReserved
<1> QED BY <1>1, <1>2, <1>3 DEF Inv

\* The steps of falloc_init before the mask is scanned, falloc_destroy, the
\* end of the process and the kernel leave mask, pages and clients alone.
LEMMA OutsideInv ==
  ASSUME Inv, Open \/ InitFails \/ Truncate \/ Map \/ Destroy \/ Kill \/ Writeback
  PROVE  Inv'
<1> USE DEF Inv, Open, InitFails, Truncate, Map, Destroy, Kill, Writeback, file
<1>1. TypeOK'
  <2>1. (exists \in BOOLEAN /\ existed \in BOOLEAN /\ base \in BOOLEAN)'
    BY DEF TypeOK
  <2>2. (tail \in [Index -> Data])'
    BY FileAllocatorAssumption DEF TypeOK
  <2>3. (fds \in Nat /\ maps \in Nat)'
    BY NeverUnmaps DEF TypeOK, NoDescriptorLeak
  <2>4. (count \in 0 .. N)'
    BY FileAllocatorAssumption DEF TypeOK
  <2>5. (pc \in {"down", "opened", "sized", "mapped", "up", "acquired"})'
    BY DEF TypeOK
  <2>6. (found \in Index \cup {NoPage} /\ user \in Client \cup {NoPage})'
    BY DEF TypeOK
  <2> QED BY <2>1, <2>2, <2>3, <2>4, <2>5, <2>6 DEF TypeOK
<1>2. UNCHANGED <<mask, body, held, wrote>>
  OBVIOUS
<1>3. Local'
  BY <1>2, SameMask DEF Local, TypeOK
<1>4. CountAccurate'
  BY <1>2, SameMask, CountsUsedPages
     DEF CountAccurate, UsedPages, GetPageBit
<1>5. HeldPagesReserved'
  BY <1>1, <1>2 DEF HeldPagesReserved, GetPageBit
<1>6. DataSurvives'
  BY <1>2 DEF DataSurvives
<1>7. NoDescriptorLeak'
  BY DEF NoDescriptorLeak
<1>8. WholeInside'
  <2>1. CASE Writeback
    BY <2>1, OnlyLastPageSticksOut, FileAllocatorAssumption
       DEF WholeInside, TypeOK, Index, PageEnd, FileSize
  <2>2. CASE UNCHANGED tail
    BY <2>2 DEF WholeInside
  <2> QED BY <2>1, <2>2
<1> QED BY <1>1, <1>3, <1>4, <1>5, <1>6, <1>7, <1>8

\* Scanning: the used pages of an old file are counted from 0, and nobody
\* holds a page of a new one, whose mask is cleared.
LEMMA ScanInv ==
  ASSUME Inv, Scan
  PROVE  Inv'
<1> USE DEF Inv, Scan
<1>1. count' = Cardinality(UsedPages') /\ mask' \in SUBSET mask
  <2>1. CASE existed
    <3>1. count' = 0 + Cardinality(UsedPages)
      BY <2>1 DEF Local, UsedPages
    <3> QED BY <2>1, <3>1, SameMask, UsedPagesFinite
  <2>2. CASE ~ existed
    <3>1. UsedPages' = {}
      BY <2>2 DEF UsedPages, GetPageBit
    <3> QED BY <2>2, <3>1, FS_EmptySet DEF Local
  <2> QED BY <2>1, <2>2 DEF TypeOK
<1>2. Cardinality(UsedPages') \in 0 .. N
  <2>1. CASE existed
    BY <2>1, SameMask, UsedPagesFinite
  <2>2. CASE ~ existed
    <3>1. UsedPages' = {}
      BY <2>2 DEF UsedPages, GetPageBit
    <3> QED BY <3>1, FS_EmptySet, FileAllocatorAssumption
  <2> QED BY <2>1, <2>2 DEF TypeOK
<1>3. TypeOK'
  BY <1>1, <1>2 DEF TypeOK
<1>4. Local'
  BY DEF Local
<1>5. CountAccurate'
  BY <1>1 DEF CountAccurate, UsedPages, GetPageBit
<1>6. HeldPagesReserved'
  BY <1>3 DEF HeldPagesReserved, Local, GetPageBit
<1>7. DataSurvives' /\ WholeInside' /\ NoDescriptorLeak'
  BY DEF DataSurvives, WholeInside, NoDescriptorLeak
<1> QED BY <1>3, <1>4, <1>5, <1>6, <1>7

\* falloc_acquire_page marks a page nobody holds: a held page is marked.
LEMMA AcquireInv ==
  ASSUME Inv, NEW c \in Client, Acquire(c)
  PROVE  Inv'
<1> USE DEF Inv, Acquire
<1>1. PICK i \in FreePages : mask' = mask \cup {Bit(i)} /\ found' = i
  OBVIOUS
<1>2. i \in Index /\ ~ GetPageBit(i)
  BY <1>1 DEF FreePages
<1>3. GetPageBit(i)' /\ \A j \in Index : GetPageBit(j) => GetPageBit(j)'
  BY <1>1 DEF GetPageBit
<1>4. count' = Cardinality(UsedPages') /\ count' \in 0 .. N
  <2>1. Cardinality(UsedPages') = Cardinality(UsedPages) + 1
    BY <1>1, MarkOne
  <2>2. UsedPages' \in SUBSET Index /\ IsFiniteSet(Index) /\ Cardinality(Index) = N
    BY FS_Interval, FileAllocatorAssumption DEF UsedPages, Index
  <2>3. Cardinality(UsedPages') <= N
    BY <2>2, FS_Subset
  <2> QED BY <2>1, <2>3, UsedPagesFinite, CountsUsedPages, FileAllocatorAssumption
<1>5. mask' \in SUBSET (Nat \X (0 .. WordBits - 1))
  BY <1>1, <1>2, BitType DEF TypeOK
<1>6. TypeOK'
  BY <1>1, <1>2, <1>4, <1>5 DEF TypeOK
<1>7. Local'
  BY <1>1, <1>2, <1>3 DEF Local
<1>8. CountAccurate'
  BY <1>4 DEF CountAccurate, UsedPages, GetPageBit
<1>9. HeldPagesReserved'
  <2>1. \A d \in Client : held[d] # NoPage => held[d] \in Index /\ held[d] # i
    BY <1>2 DEF HeldPagesReserved, TypeOK
  <2>2. \A d \in Client : held[d] # NoPage => GetPageBit(held[d])'
    BY <1>3, <2>1 DEF HeldPagesReserved
  <2>3. \A d \in Client : held'[d] # found'
    BY <1>1, <1>2, <2>1, FileAllocatorAssumption DEF Index
  <2>4. \A d \in Client : held'[d] # NoPage => GetPageBit(held[d])'
    BY <2>2
  <2> QED BY <1>6, <2>3, <2>4 DEF HeldPagesReserved, GetPageBit
<1>10. DataSurvives' /\ WholeInside' /\ NoDescriptorLeak'
  BY DEF DataSurvives, WholeInside, NoDescriptorLeak
<1> QED BY <1>6, <1>7, <1>8, <1>9, <1>10

\* A client gets the page that was marked for it, as it is.
LEMMA AcquireReturnsInv ==
  ASSUME Inv, AcquireReturns
  PROVE  Inv'
<1> USE DEF Inv, AcquireReturns, file
<1>1. user \in Client /\ found \in Index /\ found # NoPage
  BY FileAllocatorAssumption DEF Local, Index
<1>2. held' = [held EXCEPT ![user] = found] /\ wrote' = [wrote EXCEPT ![user] = body[found]]
  OBVIOUS
<1>3. TypeOK'
  BY <1>1 DEF TypeOK
<1>4. Local'
  BY DEF Local
<1>5. CountAccurate'
  BY DEF CountAccurate, GetPageBit
<1>6. HeldPagesReserved'
  <2>1. \A c \in Client : held'[c] # NoPage => GetPageBit(held'[c])
    BY <1>1 DEF TypeOK, Local, HeldPagesReserved
  <2>2. \A c, d \in Client : held'[c] = held'[d] /\ held'[c] # NoPage => c = d
    BY <1>1 DEF TypeOK, HeldPagesReserved
  <2> QED BY <1>3, <2>1, <2>2 DEF HeldPagesReserved, GetPageBit
<1>7. DataSurvives'
  BY <1>1 DEF TypeOK, DataSurvives
<1>8. WholeInside' /\ NoDescriptorLeak'
  BY DEF WholeInside, NoDescriptorLeak
<1> QED BY <1>3, <1>4, <1>5, <1>6, <1>7, <1>8

\* falloc_release_page unmarks the page of one client; the others hold other
\* pages, with other bits.
LEMMA ReleaseInv ==
  ASSUME Inv, NEW c \in Client, Release(c)
  PROVE  Inv'
<1> USE DEF Inv, Release
<1> DEFINE i == held[c]
<1>1. i \in Index /\ i \in UsedPages /\ mask' = mask \ {Bit(i)}
  BY DEF TypeOK, HeldPagesReserved, UsedPages
<1>2. Cardinality(UsedPages') = Cardinality(UsedPages) - 1
  BY <1>1, UnmarkOne
<1>3. UsedPages' = UsedPages \ {i}
  BY <1>1, UnmarkOne
<1>4. count' = Cardinality(UsedPages') /\ count' \in 0 .. N
  <2>1. Cardinality(UsedPages) \in 0 .. N
    BY UsedPagesFinite
  <2>2. count = Cardinality(UsedPages)
    BY CountsUsedPages
  <2>3. IsFiniteSet(UsedPages')
    BY <1>3, UsedPagesFinite, FS_RemoveElement
  <2>4. Cardinality(UsedPages') \in Nat
    BY <2>3, FS_CardinalityType
  <2> HIDE DEF Inv
  <2> QED BY <1>2, <2>1, <2>2, <2>4, FileAllocatorAssumption
<1>5. TypeOK'
  BY <1>1, <1>4 DEF TypeOK
<1>6. Local'
  BY DEF Local, TypeOK
<1>7. CountAccurate'
  BY <1>4 DEF CountAccurate, UsedPages, GetPageBit
<1>8. HeldPagesReserved'
  <2>1. ASSUME NEW d \in Client, held'[d] # NoPage
        PROVE  d # c /\ held'[d] = held[d] /\ held[d] # i /\ GetPageBit(held[d])'
    <3>1. d # c /\ held'[d] = held[d]
      BY <2>1 DEF TypeOK
    <3>2. held[d] # i /\ held[d] \in UsedPages
      BY <2>1, <3>1 DEF HeldPagesReserved, TypeOK, UsedPages
    <3> QED BY <1>3, <3>1, <3>2 DEF UsedPages
  <2>2. (\A d \in Client : held[d] # NoPage => GetPageBit(held[d]))'
    BY <2>1 DEF GetPageBit
  <2>3. \A d, e \in Client : held'[d] = held'[e] /\ held'[d] # NoPage => d = e
    BY <2>1 DEF HeldPagesReserved
  <2> QED BY <1>5, <2>2, <2>3 DEF HeldPagesReserved, GetPageBit
<1>9. DataSurvives' /\ WholeInside' /\ NoDescriptorLeak'
  BY DEF DataSurvives, WholeInside, NoDescriptorLeak, TypeOK
<1> QED BY <1>5, <1>6, <1>7, <1>8, <1>9

\* A client writes to its own page, which is nobody else's.
LEMMA WriteInv ==
  ASSUME Inv, NEW c \in Client, Write(c)
  PROVE  Inv'
<1> USE DEF Inv, Write
<1>1. PICK d \in Data : /\ body' = [body EXCEPT ![held[c]] = d]
                        /\ tail' = [tail EXCEPT ![held[c]] = d]
                        /\ wrote' = [wrote EXCEPT ![c] = d]
  OBVIOUS
<1>2. TypeOK'
  BY <1>1 DEF TypeOK
<1>3. Local' /\ NoDescriptorLeak'
  BY DEF Local, NoDescriptorLeak
<1>4. CountAccurate'
  BY DEF CountAccurate, GetPageBit
<1>5. HeldPagesReserved'
  BY <1>2 DEF HeldPagesReserved, GetPageBit
<1>6. DataSurvives'
  BY <1>1 DEF DataSurvives, HeldPagesReserved, TypeOK
<1>7. WholeInside'
  BY <1>1 DEF WholeInside, TypeOK
<1> QED BY <1>2, <1>3, <1>4, <1>5, <1>6, <1>7

----------------------------------------------------------------------------
(* Theorems *)

\* Inv is an inductive invariant of the allocator.
THEOREM AllocatorInvariant == Spec => []Inv
<1>1. Inv /\ UNCHANGED vars => Inv'
  <2> SUFFICES ASSUME Inv, UNCHANGED vars PROVE Inv'
    OBVIOUS
  <2> USE DEF Inv, vars
  <2>1. TypeOK' /\ Local' /\ NoDescriptorLeak'
    BY DEF TypeOK, Local, NoDescriptorLeak, GetPageBit
  <2>2. CountAccurate' /\ DataSurvives' /\ WholeInside'
    BY DEF CountAccurate, DataSurvives, WholeInside, GetPageBit
  <2>3. HeldPagesReserved'
    BY <2>1 DEF HeldPagesReserved, GetPageBit
  <2> QED BY <2>1, <2>2, <2>3
<1>2. Inv /\ [Next]_vars => Inv'
  BY <1>1, OutsideInv, ScanInv, AcquireInv, ReleaseInv, WriteInv,
     AcquireReturnsInv DEF Next
<1> QED BY InitInv, <1>2, PTL DEF Spec

\* curr_page_count is the number of pages in use whenever a caller can read
\* it, after any sequence of calls and kills.
THEOREM CounterIsRight == Spec => []CountAccurate
<1>1. Inv => CountAccurate
  BY DEF Inv
<1> QED BY AllocatorInvariant, <1>1, PTL

\* No page has two owners and no owned page is ever given away.
THEOREM PagesStayReserved == Spec => []HeldPagesReserved
<1>1. Inv => HeldPagesReserved
  BY DEF Inv
<1> QED BY AllocatorInvariant, <1>1, PTL

\* What a client wrote to its page stays there, but for the bytes that lie
\* beyond the file.
THEOREM DataIsKept == Spec => []DataSurvives
<1>1. Inv => DataSurvives
  BY DEF Inv
<1> QED BY AllocatorInvariant, <1>1, PTL

\* falloc_init closes its descriptor on every error, falloc_destroy on the way out.
THEOREM DescriptorsAreClosed == Spec => []NoDescriptorLeak
<1>1. Inv => NoDescriptorLeak
  BY DEF Inv
<1> QED BY AllocatorInvariant, <1>1, PTL

\* README.md:16 promises that data on allocated pages outlives the allocator,
\* which a run refutes for the last page (WholePageSurvives).
InsidePagesSurvive ==
    \A c \in Client : held[c] \notin {NoPage, N - 1} =>
        body[held[c]] = wrote[c] /\ tail[held[c]] = wrote[c]

\* It is kept for every other page: body and tail hold what the owner wrote,
\* through destroy, kill and write-back.
THEOREM AllButLastPageOutlive == Spec => []InsidePagesSurvive
<1>1. Inv => InsidePagesSurvive
  BY DEF Inv, TypeOK, DataSurvives, WholeInside, InsidePagesSurvive
<1> QED BY AllocatorInvariant, <1>1, PTL

----------------------------------------------------------------------------
(* tailf *)

TailfSpec == TailfInit /\ [][TailfNext]_tailfVars

\* What was read from the file before the bytes that are still to be printed.
Printed == IF tailf.pc = "end" THEN tailf.offset - tailf.bytes_read ELSE tailf.offset

TailfTypeOK ==
    /\ log \in Seq(Characters) /\ data \in Buffer
    /\ tailf \in [pc : {"open", "read", "end", "exit", "crashed"},
                  offset : Nat, bytes_read : 0 .. kMaxFileSize, out : Seq(Characters)]
    /\ tailf.offset <= Len(log)
    /\ tailf.bytes_read <= tailf.offset

\* The bytes just read stand in front of the buffer, in the order of the file.
Fresh ==
    tailf.pc = "end" =>
        \A i \in 1 .. tailf.bytes_read :
            data[i] = log[tailf.offset - tailf.bytes_read + i]

\* What was printed is the file without anything missing, up to what is still
\* to be printed, and is no longer than that in any case.
Copied ==
    /\ Len(tailf.out) <= Printed
    /\ (/\ tailf.pc \in {"open", "read", "end"}
        /\ \A i \in 1 .. Printed : log[i] # NUL) =>
           /\ Len(tailf.out) = Printed
           /\ \A i \in 1 .. Printed : tailf.out[i] = log[i]

TailfInv == TailfTypeOK /\ Fresh /\ Copied

\* StringLength finds the first NUL of the buffer, or its end.
LEMMA StringLengthIs ==
  ASSUME NEW b \in Buffer
  PROVE  /\ StringLength(b) \in 0 .. kMaxFileSize
         /\ \A i \in 1 .. StringLength(b) : b[i] # NUL
         /\ StringLength(b) < kMaxFileSize => b[StringLength(b) + 1] = NUL
<1>0. kMaxFileSize \in Nat
  BY TailfAssumption
<1> DEFINE P(n) == /\ \A i \in 1 .. n : b[i] # NUL
                   /\ n < kMaxFileSize => b[n + 1] = NUL
           I    == {i \in 1 .. kMaxFileSize : b[i] = NUL}
<1>1. \E n \in 0 .. kMaxFileSize : P(n)
  <2>1. CASE I = {}
    <3>1. P(kMaxFileSize)
      BY <2>1, <1>0
    <3>2. kMaxFileSize \in 0 .. kMaxFileSize
      BY <1>0
    <3> QED BY <3>1, <3>2
  <2>2. CASE I # {}
    <3>1. I \in SUBSET Nat
      OBVIOUS
    <3>2. Min(I) \in I /\ \A i \in I : Min(I) <= i
      <4> HIDE DEF I
      <4> QED BY <3>1, <2>2, MinIsLeast
    <3>3. PICK m \in 1 .. kMaxFileSize : b[m] = NUL /\ \A i \in I : m <= i
      BY <3>2
    <3>4. \A i \in 1 .. m - 1 : b[i] # NUL
      <4> TAKE i \in 1 .. m - 1
      <4>1. i \in 1 .. kMaxFileSize /\ ~ (m <= i)
        BY <3>3, <1>0
      <4> QED BY <4>1, <3>3
    <3>5. m - 1 \in 0 .. kMaxFileSize /\ (m - 1) + 1 = m
      BY <3>3, <1>0
    <3>6. P(m - 1)
      BY <3>3, <3>4, <3>5
    <3> HIDE DEF P
    <3> QED BY <3>5, <3>6
  <2> QED BY <2>1, <2>2
<1>2. StringLength(b) = CHOOSE n \in 0 .. kMaxFileSize : P(n)
  BY DEF StringLength
<1>3. StringLength(b) \in 0 .. kMaxFileSize /\ P(StringLength(b))
  <2> HIDE DEF P
  <2> QED BY <1>1, <1>2
<1> QED BY <1>3

\* At the beginning nothing was read.
LEMMA TailfInitInv == TailfInit => TailfInv
<1> SUFFICES ASSUME TailfInit PROVE TailfInv
  OBVIOUS
<1>1. log \in Seq(Characters) /\ <<>> \in Seq(Characters) /\ Len(<<>>) = 0
  <2>1. PICK n \in 0 .. MaxLog : log \in [1 .. n -> Characters]
    BY DEF TailfInit
  <2>2. n \in Nat
    BY <2>1, TailfAssumption
  <2> QED BY <2>1, <2>2, SeqDef, EmptySeq
<1>2. /\ tailf = [pc |-> "open", offset |-> 0, bytes_read |-> 0, out |-> <<>>]
      /\ data \in Buffer /\ Len(log) \in Nat /\ 0 \in 0 .. kMaxFileSize
  BY <1>1, TailfAssumption, LenProperties DEF TailfInit
<1> QED BY <1>1, <1>2 DEF TailfInv, TailfTypeOK, Fresh, Copied, Printed

\* Numbers the steps of tailf need.
LEMMA TailfFacts ==
  ASSUME TailfInv
  PROVE  /\ kMaxFileSize \in Nat /\ Len(log) \in Nat
         /\ tailf.offset \in Nat /\ tailf.offset <= Len(log)
         /\ tailf.bytes_read \in 0 .. kMaxFileSize /\ tailf.bytes_read \in Nat
         /\ tailf.bytes_read <= tailf.offset
         /\ Printed \in 0 .. tailf.offset
         /\ tailf.out \in Seq(Characters) /\ Len(tailf.out) \in Nat
         /\ data \in [1 .. kMaxFileSize -> Characters]
<1>1. kMaxFileSize \in Nat /\ Len(log) \in Nat
  BY TailfAssumption, LenProperties DEF TailfInv, TailfTypeOK
<1>2. /\ tailf.offset \in Nat /\ tailf.bytes_read \in 0 .. kMaxFileSize
      /\ tailf.out \in Seq(Characters) /\ tailf.offset <= Len(log)
      /\ tailf.bytes_read <= tailf.offset
      /\ data \in [1 .. kMaxFileSize -> Characters]
  BY DEF TailfInv, TailfTypeOK, Buffer
<1>3. Len(tailf.out) \in Nat
  BY <1>2, LenProperties
<1>4. tailf.bytes_read \in Nat
  BY <1>1, <1>2
<1>5. Printed \in 0 .. tailf.offset
  BY <1>2, <1>4 DEF Printed
<1> QED BY <1>1, <1>2, <1>3, <1>4, <1>5

\* The descriptor is opened, or the program ends.
LEMMA OpenKeeps == TailfInv /\ tail_f => TailfInv'
<1> SUFFICES ASSUME TailfInv, tail_f PROVE TailfInv'
  OBVIOUS
<1>1. PICK next \in {"read", "exit"} : tailf' = [tailf EXCEPT !.pc = next]
  BY DEF tail_f
<1>2. tailf.pc = "open" /\ UNCHANGED <<log, data>>
  BY DEF tail_f
<1>3. /\ tailf'.pc = next /\ tailf'.offset = tailf.offset
      /\ tailf'.bytes_read = tailf.bytes_read /\ tailf'.out = tailf.out
      /\ tailf.pc # "end" /\ tailf'.pc # "end"
  BY <1>1, <1>2 DEF TailfInv, TailfTypeOK
<1>4. Printed' = Printed
  BY <1>3 DEF Printed
<1>5. TailfTypeOK'
  BY <1>1, <1>2 DEF TailfInv, TailfTypeOK
<1> QED BY <1>2, <1>3, <1>4, <1>5 DEF TailfInv, Fresh, Copied

\* read brings the next bytes of the file to the front of the buffer.
LEMMA ReadKeeps == TailfInv /\ ReadLog => TailfInv'
<1> SUFFICES ASSUME TailfInv, ReadLog PROVE TailfInv'
  OBVIOUS
<1> DEFINE left == Len(log) - tailf.offset
           n    == IF left < kMaxFileSize THEN left ELSE kMaxFileSize
<1>1. /\ tailf.pc = "read" /\ tailf.offset < Len(log) /\ log' = log
      /\ data' = [i \in 1 .. kMaxFileSize |->
                    IF i <= n THEN log[tailf.offset + i] ELSE data[i]]
      /\ tailf' = [tailf EXCEPT !.pc = "end", !.bytes_read = n, !.offset = @ + n]
  BY DEF ReadLog
<1>2. n \in 0 .. kMaxFileSize /\ n \in Nat /\ tailf.offset + n <= Len(log)
  BY <1>1, TailfFacts
<1> HIDE DEF n
<1>3. /\ tailf'.pc = "end" /\ tailf'.offset = tailf.offset + n
      /\ tailf'.bytes_read = n /\ tailf'.out = tailf.out
  BY <1>1 DEF TailfInv, TailfTypeOK
<1>4. \A i \in 1 .. n : log[tailf.offset + i] \in Characters
  <2> TAKE i \in 1 .. n
  <2>1. tailf.offset + i \in 1 .. Len(log)
    BY <1>2, TailfFacts
  <2> QED BY <2>1, ElementOfSeq DEF TailfInv, TailfTypeOK
<1>5. data' \in Buffer
  <2>1. \A i \in 1 .. kMaxFileSize :
           (IF i <= n THEN log[tailf.offset + i] ELSE data[i]) \in Characters
    BY <1>2, <1>4, TailfFacts
  <2> QED BY <1>1, <2>1 DEF Buffer
<1>6. TailfTypeOK'
  <2>1. tailf' \in [pc : {"open", "read", "end", "exit", "crashed"},
                  offset : Nat, bytes_read : 0 .. kMaxFileSize, out : Seq(Characters)]
    <3>1. tailf.offset + n \in Nat
      BY <1>2, TailfFacts
    <3> QED BY <1>1, <1>2, <3>1 DEF TailfInv, TailfTypeOK
  <2>2. n <= tailf.offset + n
    BY <1>2, TailfFacts
  <2> QED BY <1>1, <1>2, <1>3, <1>5, <2>1, <2>2 DEF TailfInv, TailfTypeOK
<1>7. Fresh'
  <2> SUFFICES ASSUME NEW i \in 1 .. tailf'.bytes_read
               PROVE  data'[i] = log'[tailf'.offset - tailf'.bytes_read + i]
    BY DEF Fresh
  <2>1. i \in 1 .. kMaxFileSize /\ i <= n
    BY <1>2, <1>3, TailfFacts
  <2>2. tailf'.offset - tailf'.bytes_read + i = tailf.offset + i
    BY <1>2, <1>3, TailfFacts
  <2> QED BY <1>1, <2>1, <2>2
<1>8. Printed' = Printed
  <2>1. tailf'.offset - tailf'.bytes_read = tailf.offset
    BY <1>2, <1>3, TailfFacts
  <2> QED BY <1>1, <1>3, <2>1 DEF Printed
<1>9. Copied'
  BY <1>1, <1>3, <1>8 DEF TailfInv, Copied
<1> QED BY <1>6, <1>7, <1>9 DEF TailfInv

\* What is printed is what stands in the buffer before the mark, which is what
\* was read up to its first NUL.
LEMMA PrintKeeps == TailfInv /\ PrintData => TailfInv'
<1> SUFFICES ASSUME TailfInv, PrintData PROVE TailfInv'
  OBVIOUS
<1> DEFINE n      == tailf.bytes_read
           origin   == tailf.offset - n
           marked == [i \in 1 .. kMaxFileSize |-> IF i = n + 1 THEN NUL ELSE data[i]]
           l      == StringLength(marked)
           more   == SubSeq(marked, 1, l)
<1>1. /\ tailf.pc = "end" /\ log' = log /\ data' = marked
      /\ tailf' = [tailf EXCEPT !.pc = "read", !.out = @ \o more]
  BY DEF PrintData
<1>2. /\ n \in Nat /\ n \in 0 .. kMaxFileSize /\ origin \in Nat /\ origin + n = tailf.offset
      /\ Printed = origin /\ kMaxFileSize \in Nat /\ origin + n <= Len(log)
  BY <1>1, TailfFacts, SMTT(30) DEF Printed
<1>3. marked \in Buffer /\ marked \in Seq(Characters) /\ Len(marked) = kMaxFileSize
  <2>1. marked \in [1 .. kMaxFileSize -> Characters]
    BY TailfFacts DEF Characters
  <2> QED BY <1>2, <2>1, SeqDef, LenProperties DEF Buffer
<1>4. /\ \A i \in 1 .. kMaxFileSize : i # n + 1 => marked[i] = data[i]
      /\ n + 1 \in 1 .. kMaxFileSize => marked[n + 1] = NUL
  OBVIOUS
<1>5. \A i \in 1 .. n : data[i] = log[origin + i]
  BY <1>1 DEF TailfInv, Fresh
<1> HIDE DEF n, origin, marked
<1>6. /\ l \in 0 .. kMaxFileSize
      /\ \A i \in 1 .. l : marked[i] # NUL
      /\ l < kMaxFileSize => marked[l + 1] = NUL
  BY <1>3, StringLengthIs
<1> HIDE DEF l
<1>7. l \in 0 .. n /\ l \in Nat
  <2>1. ASSUME l > n PROVE FALSE
    <3>1. n + 1 \in 1 .. l /\ n + 1 \in 1 .. kMaxFileSize
      BY <2>1, <1>2, <1>6
    <3> QED BY <3>1, <1>4, <1>6
  <2> QED BY <2>1, <1>2, <1>6
<1>8. \A i \in 1 .. l : marked[i] = log[origin + i]
  <2> TAKE i \in 1 .. l
  <2>1. i \in 1 .. n /\ i \in 1 .. kMaxFileSize /\ i # n + 1
    BY <1>2, <1>7 DEF Exits
  <2> QED BY <2>1, <1>4, <1>5
<1>9. more \in Seq(Characters) /\ Len(more) = l /\ \A i \in 1 .. l : more[i] = marked[i]
  <2>1. 1 \in 1 .. Len(marked) + 1 /\ l \in 1 - 1 .. Len(marked)
    BY <1>2, <1>3, <1>6
  <2>2. /\ more \in Seq(Characters) /\ Len(more) = l - 1 + 1
        /\ \A i \in 1 .. l - 1 + 1 : more[i] = marked[1 + i - 1]
    BY <2>1, <1>3, PartOfSeq
  <2>3. l - 1 + 1 = l /\ \A i \in 1 .. l : 1 + i - 1 = i
    BY <1>7
  <2> QED BY <2>2, <2>3
<1> HIDE DEF more
<1> DEFINE out == tailf.out
           all == out \o more
           k   == Len(out)
<1>10. /\ all \in Seq(Characters) /\ Len(all) = k + l /\ k \in Nat
       /\ \A i \in 1 .. k : all[i] = out[i]
       /\ \A i \in 1 .. l : all[k + i] = more[i]
  <2>1. out \in Seq(Characters) /\ k \in Nat
    BY TailfFacts
  <2> HIDE DEF out
  <2>2. /\ all \in Seq(Characters) /\ Len(all) = k + l
        /\ \A i \in 1 .. k + l : all[i] = IF i <= k THEN out[i] ELSE more[i - k]
    BY <2>1, <1>9, ConcatProperties
  <2>3. \A i \in 1 .. l : k + i \in 1 .. k + l /\ ~ (k + i <= k) /\ (k + i) - k = i
    BY <2>1, <1>7
  <2>4. \A i \in 1 .. k : i \in 1 .. k + l /\ i <= k
    BY <2>1, <1>7
  <2> HIDE DEF all, k
  <2> QED BY <2>1, <2>2, <2>3, <2>4
<1>11. /\ tailf'.pc = "read" /\ tailf'.out = all /\ tailf'.offset = origin + n
       /\ tailf'.bytes_read = n /\ Printed' = origin + n
  BY <1>1, <1>2 DEF TailfInv, TailfTypeOK, Printed, n
<1>12. TailfTypeOK'
  <2> HIDE DEF all, out
  <2>1. tailf' = [tailf EXCEPT !.pc = "read", !.out = all]
    BY <1>1 DEF all, out
  <2> QED BY <1>1, <1>3, <1>10, <2>1 DEF TailfInv, TailfTypeOK
<1>13. Fresh'
  BY <1>11 DEF Fresh
<1>14. /\ k <= origin
       /\ (\A i \in 1 .. origin : log[i] # NUL) =>
             k = origin /\ \A i \in 1 .. origin : out[i] = log[i]
  BY <1>1, <1>2 DEF TailfInv, Copied
<1> HIDE DEF out, all, k
<1>15. Len(all) <= origin + n
  BY <1>2, <1>7, <1>10, <1>14
<1>16. ASSUME \A i \in 1 .. origin + n : log[i] # NUL
       PROVE  Len(all) = origin + n /\ \A i \in 1 .. origin + n : all[i] = log[i]
  <2>1. l = n
    <3>1. ASSUME l < n PROVE FALSE
      <4>1. l + 1 \in 1 .. n /\ l + 1 # n + 1 /\ l < kMaxFileSize
            /\ l + 1 \in 1 .. kMaxFileSize /\ origin + (l + 1) \in 1 .. origin + n
        BY <3>1, <1>2, <1>7
      <4>2. marked[l + 1] = NUL /\ marked[l + 1] = log[origin + (l + 1)]
        BY <4>1, <1>4, <1>5, <1>6
      <4> QED BY <4>1, <4>2, <1>16
    <3> QED BY <3>1, <1>2, <1>7
  <2>2. k = origin /\ \A i \in 1 .. origin : out[i] = log[i]
    <3>1. \A i \in 1 .. origin : i \in 1 .. origin + n
      BY <1>2
    <3> QED BY <3>1, <1>14, <1>16
  <2>3. ASSUME NEW i \in 1 .. origin + n PROVE all[i] = log[i]
    <3>1. CASE i <= origin
      BY <3>1, <2>2, <1>2, <1>10
    <3>2. CASE i > origin
      <4>1. i - origin \in 1 .. l /\ origin + (i - origin) = i
        BY <3>2, <2>1, <1>2
      <4> QED BY <4>1, <2>2, <1>8, <1>9, <1>10
    <3> QED BY <3>1, <3>2, <1>2
  <2> QED BY <2>1, <2>2, <2>3, <1>2, <1>10
<1>17. Copied'
  BY <1>1, <1>11, <1>15, <1>16 DEF Copied
<1> QED BY <1>12, <1>13, <1>17 DEF TailfInv

\* A store behind the buffer that ends the program prints nothing more.
LEMMA OverrunKeeps == TailfInv /\ Overrun => TailfInv'
<1> SUFFICES ASSUME TailfInv, Overrun PROVE TailfInv'
  OBVIOUS
<1>1. /\ tailf' = [tailf EXCEPT !.pc = "crashed"] /\ UNCHANGED <<log, data>>
  BY DEF Overrun
<1>2. /\ tailf'.pc = "crashed" /\ tailf'.offset = tailf.offset
      /\ tailf'.bytes_read = tailf.bytes_read /\ tailf'.out = tailf.out
  BY <1>1 DEF TailfInv, TailfTypeOK
<1>3. Printed' = tailf.offset /\ Printed <= tailf.offset
  BY <1>2, TailfFacts DEF Printed
<1>4. Len(tailf.out) <= tailf.offset
  BY <1>3, TailfFacts DEF TailfInv, Copied
<1>5. TailfTypeOK'
  BY <1>1 DEF TailfInv, TailfTypeOK
<1> QED BY <1>1, <1>2, <1>3, <1>4, <1>5 DEF TailfInv, Fresh, Copied

\* The file grows behind what was read.
LEMMA AppendKeeps == TailfInv /\ AppendToLog => TailfInv'
<1> SUFFICES ASSUME TailfInv, AppendToLog PROVE TailfInv'
  OBVIOUS
<1>1. PICK b \in Characters : log' = Append(log, b)
  BY DEF AppendToLog
<1>2. UNCHANGED <<data, tailf>> /\ log \in Seq(Characters)
  BY DEF AppendToLog, TailfInv, TailfTypeOK
<1>3. /\ log' \in Seq(Characters) /\ Len(log') = Len(log) + 1
      /\ \A i \in 1 .. Len(log) : log'[i] = log[i]
  BY <1>1, <1>2, AppendProperties, LenProperties
<1>4. \A i \in 1 .. tailf.offset : log'[i] = log[i]
  BY <1>3, TailfFacts
<1>5. TailfTypeOK'
  BY <1>2, <1>3, TailfFacts DEF TailfInv, TailfTypeOK
<1>6. Fresh'
  <2> SUFFICES ASSUME tailf.pc = "end", NEW i \in 1 .. tailf.bytes_read
               PROVE  data[i] = log'[tailf.offset - tailf.bytes_read + i]
    BY <1>2 DEF Fresh
  <2>1. tailf.offset - tailf.bytes_read + i \in 1 .. tailf.offset
    BY TailfFacts
  <2> QED BY <2>1, <1>4 DEF TailfInv, Fresh
<1>7. Copied'
  <2>1. \A i \in 1 .. Printed : log'[i] = log[i]
    BY <1>4, TailfFacts
  <2>2. Printed' = Printed
    BY <1>2 DEF Printed
  <2> QED BY <1>2, <2>1, <2>2 DEF TailfInv, Copied
<1> QED BY <1>5, <1>6, <1>7 DEF TailfInv

\* Every step of tailf and of those who write its file keeps the invariant.
LEMMA TailfNextInv == TailfInv /\ [TailfNext]_tailfVars => TailfInv'
<1> SUFFICES ASSUME TailfInv, [TailfNext]_tailfVars PROVE TailfInv'
  OBVIOUS
<1>1. CASE UNCHANGED tailfVars
  BY <1>1 DEF tailfVars, TailfInv, TailfTypeOK, Fresh, Copied, Printed
<1>2. CASE TailfNext
  BY <1>2, OpenKeeps, ReadKeeps, PrintKeeps, OverrunKeeps, AppendKeeps DEF TailfNext
<1> QED BY <1>1, <1>2

\* What the buffer and the output of tailf hold, in terms of the file.
THEOREM TailfInvariant == TailfSpec => []TailfInv
<1> QED BY TailfInitInv, TailfNextInv, PTL DEF TailfSpec

\* tailf prints what it has read, whole and in order, if the file has no NUL,
\* and no more than that if it has: for every size of the buffer, every
\* content of it, and however the writes and the reads are cut (tailf.c).
THEOREM TailIsCopied == TailfSpec => []TailCopies
<1>1. ASSUME TailfInv PROVE TailCopies
  <2> DEFINE seen == SubSeq(log, 1, tailf.offset)
             out  == tailf.out
  <2>1. /\ seen \in Seq(Characters) /\ Len(seen) = tailf.offset
        /\ \A i \in 1 .. tailf.offset : seen[i] = log[i]
    <3>1. 1 \in 1 .. Len(log) + 1 /\ tailf.offset \in 1 - 1 .. Len(log)
          /\ log \in Seq(Characters)
      BY <1>1, TailfFacts DEF TailfInv, TailfTypeOK
    <3>2. /\ seen \in Seq(Characters) /\ Len(seen) = tailf.offset - 1 + 1
          /\ \A i \in 1 .. tailf.offset - 1 + 1 : seen[i] = log[1 + i - 1]
      BY <3>1, PartOfSeq
    <3>3. tailf.offset - 1 + 1 = tailf.offset
          /\ \A i \in 1 .. tailf.offset : 1 + i - 1 = i
      BY <1>1, TailfFacts
    <3> HIDE DEF seen
    <3> QED BY <3>2, <3>3
  <2> HIDE DEF seen
  <2>2. /\ out \in Seq(Characters) /\ DOMAIN out = 1 .. Len(out)
        /\ DOMAIN seen = 1 .. tailf.offset
    BY <1>1, <2>1, TailfFacts, LenProperties
  <2>3. Len(out) <= tailf.offset
    <3>1. Len(out) <= Printed
      BY <1>1 DEF TailfInv, Copied
    <3> QED BY <1>1, <3>1, TailfFacts
  <2>4. ASSUME tailf.pc = "read", NUL \notin ToSet(seen) PROVE out = seen
    <3>1. \A i \in 1 .. tailf.offset : log[i] # NUL
      BY <2>1, <2>2, <2>4 DEF ToSet
    <3>2. Printed = tailf.offset
      BY <2>4 DEF Printed
    <3>3. Len(out) = Len(seen) /\ \A i \in 1 .. Len(out) : out[i] = seen[i]
      BY <1>1, <2>1, <2>4, <3>1, <3>2 DEF TailfInv, Copied
    <3> HIDE DEF out
    <3> QED BY <2>1, <2>2, <3>3, SeqEqual
  <2> QED BY <2>3, <2>4 DEF TailCopies, seen
<1> QED BY <1>1, TailfInvariant, PTL

----------------------------------------------------------------------------
(* The Bloom filter *)

BloomSpec == BloomInit /\ [][BloomNext]_<<bloom, inserted>>

\* (set_size + 63) does not wrap in bloom_init.
SizesFit == \A size \in SetSizes : size + WORD - 1 < WRAP

\* Whatever a key is and however its products wrap, its hash is the number of a
\* bit of the filter.
LEMMA HashInRange ==
  ASSUME NEW str \in Seq(Int), NEW modulus \in Nat \ {0}, NEW seed \in Nat
  PROVE  calc_hash(str, modulus, seed) \in 0 .. modulus - 1
<1> DEFINE n == Len(str)
           S == 0 .. modulus - 1
           step(h, i) == ((h * seed + (str[i] % WRAP)) % WRAP) % modulus
           hash == CHOOSE h : h = [i \in 0 .. n |-> IF i = 0 THEN 0 ELSE step(h[i - 1], i)]
<1>0. n \in Nat /\ 0 \in S /\ S \subseteq Int
  BY LenProperties
<1>1. \A h \in Int, i \in 1 .. n : step(h, i) \in S
  <2> TAKE h \in Int, i \in 1 .. n
  <2>1. str[i] \in Int /\ WRAP \in Nat \ {0}
    BY ElementOfSeq, BloomAssumption
  <2>2. str[i] % WRAP \in Int
    <3>1. str[i] % WRAP \in 0 .. WRAP - 1
      BY <2>1, ModIs
    <3> QED BY <3>1, <2>1
  <2>3. (h * seed + (str[i] % WRAP)) % WRAP \in Int
    <3>1. h * seed + (str[i] % WRAP) \in Int
      BY <2>2
    <3> QED BY <3>1, <2>1, ModIs
  <2> QED BY <2>3, ModIs
<1> HIDE DEF step, S, n
<1>2. \E f : f = [i \in 0 .. n |-> IF i = 0 THEN 0 ELSE step(f[i - 1], i)]
  <2> DEFINE G == [i \in 1 .. n |-> [h \in S |-> step(h, i)]]
  <2>1. G \in [1 .. n -> [S -> S]]
    BY <1>0, <1>1
  <2>2. \A i \in 1 .. n, h \in S : G[i][h] = step(h, i)
    OBVIOUS
  <2> HIDE DEF G
  <2>3. PICK f \in [0 .. n -> S] : f[0] = 0 /\ \A i \in 1 .. n : f[i] = G[i][f[i - 1]]
    <3> DEFINE origin == 0
    <3>1. n \in Nat /\ G \in [1 .. n -> [S -> S]] /\ origin \in S
      BY <1>0, <2>1
    <3> HIDE DEF origin
    <3>2. \E f \in [0 .. n -> S] : f[0] = origin /\ \A i \in 1 .. n : f[i] = G[i][f[i - 1]]
      BY <3>1, RecursionHasValue, SMTT(60)
    <3> QED BY <3>2 DEF origin
  <2>4. \A i \in 0 .. n : f[i] = IF i = 0 THEN 0 ELSE step(f[i - 1], i)
    <3> TAKE i \in 0 .. n
    <3>1. CASE i = 0
      BY <3>1, <2>3
    <3>2. CASE i # 0
      <4>1. i \in 1 .. n /\ i - 1 \in 0 .. n
        BY <3>2, <1>0
      <4>2. f[i - 1] \in S /\ f[i] = G[i][f[i - 1]]
        BY <4>1, <2>3
      <4> QED BY <4>1, <4>2, <3>2, <2>2
    <3> QED BY <3>1, <3>2
  <2>5. f = [i \in 0 .. n |-> IF i = 0 THEN 0 ELSE step(f[i - 1], i)]
    BY <2>3, <2>4
  <2> QED BY <2>5
<1>3. hash = [i \in 0 .. n |-> IF i = 0 THEN 0 ELSE step(hash[i - 1], i)]
  BY <1>2
<1> HIDE DEF hash
<1>4. hash[n] \in S
  <2> DEFINE K == {i \in 0 .. n : hash[i] \notin S}
  <2>1. ASSUME K # {} PROVE FALSE
    <3>1. PICK m \in K : \A k \in K : m <= k
      <4>1. K \in SUBSET Nat
        OBVIOUS
      <4> HIDE DEF K
      <4> QED BY <4>1, <2>1, MinIsLeast
    <3>2. m \in 0 .. n /\ hash[m] \notin S /\ hash[m] = IF m = 0 THEN 0 ELSE step(hash[m - 1], m)
      BY <3>1, <1>3
    <3>3. m # 0
      BY <3>2, <1>0
    <3>4. m \in 1 .. n /\ m - 1 \in 0 .. n /\ ~ (m <= m - 1)
      BY <3>2, <3>3, <1>0
    <3>5. hash[m - 1] \in S
      BY <3>1, <3>4
    <3> QED BY <3>2, <3>3, <3>4, <3>5, <1>0, <1>1
  <2>2. n \in 0 .. n
    BY <1>0
  <2> QED BY <2>1, <2>2
<1>5. calc_hash(str, modulus, seed) = hash[n]
  BY DEF calc_hash, hash, step, n
<1> QED BY <1>4, <1>5 DEF S

\* The array has a word for every bit, and the bits of the inserted keys are 1.
BloomInv ==
    /\ bloom \in [set : SUBSET Nat, words : Nat, set_size : Nat, hash_fn_count : Nat]
    /\ bloom.set_size # 0 => bloom.words = (bloom.set_size + WORD - 1) \div WORD
    /\ bloom.set_size = 0 => inserted = {}
    /\ inserted \subseteq Seq(Int)
    /\ NoFalseNegatives

\* The bits of a key are in the array.
LEMMA BitsAllocated ==
  ASSUME BloomInv, bloom.set_size # 0, NEW key \in Seq(Int)
  PROVE  Bits(key) \subseteq Nat /\ Allocated(Bits(key)) = Bits(key)
<1>1. /\ bloom.set_size \in Nat \ {0} /\ bloom.hash_fn_count \in Nat
      /\ WORD \in Nat \ {0}
      /\ bloom.words = (bloom.set_size + WORD - 1) \div WORD
  BY BloomAssumption DEF BloomInv
<1>2. ASSUME NEW b \in Bits(key) PROVE b \in Nat /\ b \div WORD < bloom.words
  <2>1. PICK i \in 0 .. bloom.hash_fn_count - 1 : b = calc_hash(key, bloom.set_size, i)
    BY <1>2 DEF Bits, Hash
  <2>2. i \in Nat
    BY <1>1
  <2>3. b \in 0 .. bloom.set_size - 1
    BY <1>1, <2>1, <2>2, HashInRange
  <2>4. b \div WORD < (bloom.set_size + WORD - 1) \div WORD
    BY <1>1, <2>3, WordOfBit
  <2> QED BY <1>1, <2>3, <2>4
<1> QED BY <1>2 DEF Allocated

\* Every operation of the filter keeps the invariant.
LEMMA BloomNextInv ==
  ASSUME SizesFit, BloomInv, [BloomNext]_<<bloom, inserted>>
  PROVE  BloomInv'
<1>1. CASE UNCHANGED <<bloom, inserted>>
  BY <1>1 DEF BloomInv, NoFalseNegatives, bloom_check, Bits, Hash
<1>2. CASE bloom_init
  <2>1. PICK size \in SetSizes, n \in HashCounts :
           bloom' = [set |-> {}, words |-> ((size + WORD - 1) % WRAP) \div WORD,
                     set_size |-> size, hash_fn_count |-> n]
    BY <1>2 DEF bloom_init
  <2>2. inserted' = {} /\ inserted' \subseteq Seq(Int)
    BY <1>2 DEF bloom_init, BloomInv
  <2>3. /\ size \in Nat \ {0} /\ n \in Nat /\ WORD \in Nat \ {0} /\ WRAP \in Nat \ {0}
        /\ size + WORD - 1 \in 0 .. WRAP - 1
    BY BloomAssumption DEF SizesFit
  <2>4. (size + WORD - 1) % WRAP = size + WORD - 1
    BY <2>3
  <2>5. (size + WORD - 1) \div WORD \in Nat
    BY <2>3
  <2>6. bloom' = [set |-> {}, words |-> (size + WORD - 1) \div WORD,
                  set_size |-> size, hash_fn_count |-> n]
    BY <2>1, <2>4
  <2>7. NoFalseNegatives'
    BY <2>2 DEF NoFalseNegatives
  <2> DEFINE words == (size + WORD - 1) \div WORD
  <2>8. /\ words \in Nat
        /\ bloom' = [set |-> {}, words |-> words, set_size |-> size, hash_fn_count |-> n]
    BY <2>5, <2>6
  <2>9. bloom'.set_size = size /\ bloom'.words = words
    BY <2>6
  <2>10. bloom'.words = (bloom'.set_size + WORD - 1) \div WORD
    BY <2>9
  <2> HIDE DEF words
  <2>11. bloom' \in [set : SUBSET Nat, words : Nat, set_size : Nat, hash_fn_count : Nat]
    BY <2>3, <2>8
  <2> QED BY <2>2, <2>7, <2>10, <2>11 DEF BloomInv
<1>3. ASSUME NEW key \in Keys, bloom_insert(key) PROVE BloomInv'
  <2>1. /\ bloom.set_size # 0 /\ inserted' = inserted \cup {key}
        /\ bloom' = [bloom EXCEPT !.set = @ \cup Allocated(Bits(key))]
    BY <1>3 DEF bloom_insert
  <2>2. key \in Seq(Int)
    BY BloomAssumption
  <2>3. Bits(key) \subseteq Nat /\ Allocated(Bits(key)) = Bits(key)
    BY <2>1, <2>2, BitsAllocated
  <2> DEFINE bits == bloom.set \cup Bits(key)
  <2>4. bloom' = [bloom EXCEPT !.set = bits] /\ bits \subseteq Nat
    BY <2>1, <2>3 DEF BloomInv
  <2>5. /\ bloom'.set = bits /\ bloom'.words = bloom.words
        /\ bloom'.set_size = bloom.set_size /\ bloom'.hash_fn_count = bloom.hash_fn_count
        /\ bloom' \in [set : SUBSET Nat, words : Nat, set_size : Nat, hash_fn_count : Nat]
    <3> HIDE DEF bits
    <3> QED BY <2>4 DEF BloomInv
  <2>6. ASSUME NEW k PROVE Bits(k)' = Bits(k)
    BY <2>5 DEF Bits, Hash
  <2>7. NoFalseNegatives'
    <3> SUFFICES ASSUME NEW k \in inserted' PROVE Bits(k)' \subseteq bloom'.set
      BY DEF NoFalseNegatives, bloom_check
    <3>1. k \in inserted => Bits(k) \subseteq bloom.set
      BY DEF BloomInv, NoFalseNegatives, bloom_check
    <3> QED BY <2>1, <2>5, <2>6, <3>1
  <2> QED BY <2>1, <2>2, <2>5, <2>7 DEF BloomInv
<1>4. CASE bloom_destroy
  BY <1>4 DEF bloom_destroy, BloomInv, NoFalseNegatives
<1> QED BY <1>1, <1>2, <1>3, <1>4 DEF BloomNext

\* The array holds the bits of every key that was inserted (bloom_filter.c),
\* for every number of bits that bloom_init can round up without wrapping.
THEOREM BloomInvariant == ASSUME SizesFit PROVE BloomSpec => []BloomInv
<1>1. BloomInit => BloomInv
  BY DEF BloomInit, BloomInv, NoFalseNegatives
<1>2. BloomInv /\ [BloomNext]_<<bloom, inserted>> => BloomInv'
  BY BloomNextInv
<1> QED BY <1>1, <1>2, PTL DEF BloomSpec

\* A key that was inserted is always found, whatever it is and whatever was
\* inserted after it.
THEOREM InsertedIsFound == ASSUME SizesFit PROVE BloomSpec => []NoFalseNegatives
<1>1. BloomInv => NoFalseNegatives
  BY DEF BloomInv
<1> QED BY <1>1, BloomInvariant, PTL

----------------------------------------------------------------------------
(* rm *)

FsSpec == FsInit /\ [][FsNext]_fsVars

Paths == Seq(STRING)

\* A prefix in terms of its elements.
LEMMA PrefixIs ==
  ASSUME NEW s \in Paths, NEW t \in Paths
  PROVE  IsPrefix(s, t) <=> Len(s) <= Len(t) /\ \A i \in 1 .. Len(s) : s[i] = t[i]
<1>0. Len(s) \in Nat /\ Len(t) \in Nat
  BY LenProperties DEF Paths
<1> SUFFICES ASSUME Len(s) <= Len(t)
             PROVE  SubSeq(s, 1, Len(s)) = SubSeq(t, 1, Len(s)) <=>
                       \A i \in 1 .. Len(s) : s[i] = t[i]
  BY DEF IsPrefix
<1> DEFINE n == Len(s)
           a == SubSeq(s, 1, n)
           b == SubSeq(t, 1, n)
<1>1. n - 1 + 1 = n /\ \A i \in 1 .. n : 1 + i - 1 = i
  BY <1>0
<1>2. /\ a \in Paths /\ Len(a) = n - 1 + 1
      /\ \A i \in 1 .. n - 1 + 1 : a[i] = s[1 + i - 1]
  <2>1. 1 \in 1 .. Len(s) + 1 /\ n \in 1 - 1 .. Len(s)
    BY <1>0
  <2> QED BY <2>1, PartOfSeq DEF Paths
<1>3. /\ b \in Paths /\ Len(b) = n - 1 + 1
      /\ \A i \in 1 .. n - 1 + 1 : b[i] = t[1 + i - 1]
  <2>1. 1 \in 1 .. Len(t) + 1 /\ n \in 1 - 1 .. Len(t)
    BY <1>0
  <2> QED BY <2>1, PartOfSeq DEF Paths
<1> HIDE DEF a, b
<1>4. Len(a) = n /\ Len(b) = n /\ \A i \in 1 .. n : a[i] = s[i] /\ b[i] = t[i]
  BY <1>1, <1>2, <1>3
<1>5. a = b <=> \A i \in 1 .. n : a[i] = b[i]
  BY <1>2, <1>3, <1>4, SeqEqual DEF Paths
<1> QED BY <1>4, <1>5 DEF a, b

\* A path is a prefix of itself, and of what it is a prefix of a prefix of.
LEMMA PrefixOfPrefix ==
  ASSUME NEW s \in Paths, NEW t \in Paths, NEW u \in Paths
  PROVE  IsPrefix(s, s) /\ (IsPrefix(s, t) /\ IsPrefix(t, u) => IsPrefix(s, u))
<1>0. Len(s) \in Nat /\ Len(t) \in Nat /\ Len(u) \in Nat
  BY LenProperties DEF Paths
<1>1. IsPrefix(s, s)
  BY <1>0, PrefixIs
<1>2. ASSUME IsPrefix(s, t), IsPrefix(t, u) PROVE IsPrefix(s, u)
  <2>1. Len(s) <= Len(t) /\ \A i \in 1 .. Len(s) : s[i] = t[i]
    BY <1>2, PrefixIs
  <2>2. Len(t) <= Len(u) /\ \A i \in 1 .. Len(t) : t[i] = u[i]
    BY <1>2, PrefixIs
  <2>3. Len(s) <= Len(u) /\ \A i \in 1 .. Len(s) : s[i] = u[i]
    BY <1>0, <2>1, <2>2
  <2> QED BY <2>3, PrefixIs
<1> QED BY <1>1, <1>2

\* A sequence without its last element.
LEMMA FrontIs ==
  ASSUME NEW S, NEW s \in Seq(S), s # <<>>
  PROVE  /\ Len(s) \in Nat /\ Len(s) >= 1 /\ Last(s) \in S /\ Last(s) = s[Len(s)]
         /\ Front(s) \in Seq(S) /\ Len(Front(s)) = Len(s) - 1
         /\ \A k \in 1 .. Len(s) - 1 : Front(s)[k] = s[k]
<1>1. Len(s) \in Nat /\ Len(s) >= 1
  BY EmptySeq
<1>2. Last(s) \in S /\ Last(s) = s[Len(s)]
  <2>1. Len(s) \in 1 .. Len(s)
    BY <1>1
  <2> QED BY <2>1, ElementOfSeq DEF Last
<1>3. 1 \in 1 .. Len(s) + 1 /\ Len(s) - 1 \in 1 - 1 .. Len(s)
  BY <1>1
<1> DEFINE n == Len(s) - 1
           f == SubSeq(s, 1, n)
<1>4. /\ f \in Seq(S) /\ Len(f) = n - 1 + 1
      /\ \A i \in 1 .. n - 1 + 1 : f[i] = s[1 + i - 1]
  BY <1>3, PartOfSeq
<1> HIDE DEF f
<1>5. n - 1 + 1 = n /\ \A i \in 1 .. n : 1 + i - 1 = i
  BY <1>1
<1>6. f = Front(s)
  BY DEF f, Front
<1> QED BY <1>1, <1>2, <1>4, <1>5, <1>6

\* A prefix with a name is one of the prefixes.
LEMMA PrefixAmong ==
  ASSUME NEW a \in Paths, NEW b \in Paths, IsPrefix(a, b), a # <<>>
  PROVE  a \in NonemptyPrefixes(b)
<1> DEFINE n == Len(a)
           c == SubSeq(b, 1, n)
<1>1. /\ n \in Nat /\ n # 0 /\ n <= Len(b) /\ Len(b) \in Nat
      /\ \A i \in 1 .. n : a[i] = b[i]
  BY LenProperties, EmptySeq, PrefixIs DEF Paths
<1>2. n \in 1 .. Len(b) /\ 1 \in 1 .. Len(b) + 1 /\ n \in 1 - 1 .. Len(b)
  BY <1>1
<1>3. /\ c \in Paths /\ Len(c) = n - 1 + 1
      /\ \A i \in 1 .. n - 1 + 1 : c[i] = b[1 + i - 1]
  BY <1>2, PartOfSeq DEF Paths
<1>4. n - 1 + 1 = n /\ \A i \in 1 .. n : 1 + i - 1 = i
  BY <1>1
<1> HIDE DEF c
<1>5. Len(c) = Len(a)
  BY <1>3, <1>4
<1>6. \A i \in 1 .. Len(c) : c[i] = a[i]
  BY <1>1, <1>3, <1>4, <1>5
<1>7. c = a
  BY <1>3, <1>5, <1>6, SeqEqual DEF Paths
<1> QED BY <1>2, <1>7 DEF NonemptyPrefixes, c

\* The parts of a path from its beginning.
LEMMA PartsAre ==
  ASSUME NEW p \in Paths
  PROVE  /\ SubSeq(p, 1, Len(p)) = p
         /\ \A i \in 0 .. Len(p) :
               /\ SubSeq(p, 1, i) \in Paths /\ Len(SubSeq(p, 1, i)) = i
               /\ \A k \in 1 .. i : SubSeq(p, 1, i)[k] = p[k]
         /\ \A i \in 1 .. Len(p) - 1 : Front(SubSeq(p, 1, i + 1)) = SubSeq(p, 1, i)
<1> DEFINE n == Len(p)
           part(i) == SubSeq(p, 1, i)
<1>0. n \in Nat
  BY LenProperties DEF Paths
<1>1. ASSUME NEW i \in 0 .. n
      PROVE  /\ part(i) \in Paths /\ Len(part(i)) = i
             /\ \A k \in 1 .. i : part(i)[k] = p[k]
  <2>1. 1 \in 1 .. Len(p) + 1 /\ i \in 1 - 1 .. Len(p)
    BY <1>0
  <2>2. /\ part(i) \in Paths /\ Len(part(i)) = i - 1 + 1
        /\ \A k \in 1 .. i - 1 + 1 : part(i)[k] = p[1 + k - 1]
    BY <2>1, PartOfSeq DEF Paths
  <2>3. i - 1 + 1 = i /\ \A k \in 1 .. i : 1 + k - 1 = k
    BY <1>0
  <2> HIDE DEF part
  <2> QED BY <2>2, <2>3
<1> HIDE DEF part
<1>2. part(n) = p
  <2>1. Len(part(n)) = Len(p) /\ \A k \in 1 .. Len(p) : part(n)[k] = p[k]
    BY <1>0, <1>1
  <2> QED BY <2>1, <1>0, <1>1, SeqEqual DEF Paths
<1>3. ASSUME NEW i \in 1 .. n - 1 PROVE Front(part(i + 1)) = part(i)
  <2>0. i + 1 \in 0 .. n /\ i \in 0 .. n /\ (i + 1) - 1 = i /\ i + 1 > 0
    BY <1>0
  <2> DEFINE u == part(i + 1)
             v == part(i)
  <2>1. /\ u \in Paths /\ Len(u) = i + 1 /\ \A k \in 1 .. i + 1 : u[k] = p[k]
        /\ v \in Paths /\ Len(v) = i /\ \A k \in 1 .. i : v[k] = p[k]
    BY <2>0, <1>1
  <2> HIDE DEF u, v
  <2>2. u # <<>>
    <3>1. Len(u) # 0
      BY <2>0, <2>1
    <3> QED BY <3>1
  <2>3. Front(u) \in Paths /\ Len(Front(u)) = i /\ \A k \in 1 .. i : Front(u)[k] = u[k]
    <3>1. /\ Front(u) \in Seq(STRING) /\ Len(Front(u)) = Len(u) - 1
          /\ \A k \in 1 .. Len(u) - 1 : Front(u)[k] = u[k]
      <4>1. u \in Seq(STRING)
        BY <2>1 DEF Paths
      <4> QED BY <4>1, <2>2, FrontIs
    <3>2. Len(u) - 1 = i
      BY <2>0, <2>1
    <3> QED BY <3>1, <3>2 DEF Paths
  <2>4. \A k \in 1 .. i : k \in 1 .. i + 1
    BY <2>0
  <2>5. \A k \in 1 .. Len(Front(u)) : Front(u)[k] = v[k]
    BY <2>1, <2>3, <2>4
  <2>6. Front(u) = v
    BY <2>1, <2>3, <2>5, SeqEqual DEF Paths
  <2> QED BY <2>6 DEF u, v
<1> QED BY <1>1, <1>2, <1>3 DEF part

\* With a path there are those above it.
LEMMA PathsAbove ==
  ASSUME NEW p \in Path
  PROVE  /\ p \in Paths /\ p # <<>> /\ Len(p) \in Nat \ {0}
         /\ NonemptyPrefixes(p) \subseteq Path
<1> DEFINE n == Len(p)
           part(i) == SubSeq(p, 1, i)
           K == {i \in 1 .. n : part(i) \notin Path}
<1>0. /\ p \in Paths /\ p # <<>> /\ n \in Nat \ {0}
      /\ \A q \in Path : Len(q) > 1 => Front(q) \in Path
  <2>1. p \in Paths /\ p # <<>> /\ \A q \in Path : Len(q) > 1 => Front(q) \in Path
    BY FsAssumption DEF Paths
  <2> QED BY <2>1, LenProperties, EmptySeq DEF Paths
<1>1. /\ part(n) = p /\ \A i \in 0 .. n : Len(part(i)) = i
      /\ \A i \in 1 .. n - 1 : Front(part(i + 1)) = part(i)
  BY <1>0, PartsAre
<1> HIDE DEF part
<1>2. ASSUME NEW m \in K PROVE FALSE
  <2>1. K \in SUBSET (0 .. n) /\ K # {}
    BY <1>2, <1>0
  <2>2. PICK k \in K : \A i \in K : i <= k
    <3> HIDE DEF K
    <3>1. Max(K) \in K /\ \A i \in K : i <= Max(K)
      BY <2>1, <1>0, MaxIsGreatest
    <3> QED BY <3>1
  <2>3. k # n
    BY <2>2, <1>1
  <2>4. k \in 1 .. n - 1 /\ k + 1 \in 1 .. n /\ ~ (k + 1 <= k) /\ k + 1 > 1 /\ k + 1 \in 0 .. n
    BY <2>2, <2>3, <1>0
  <2>5. part(k + 1) \in Path
    BY <2>2, <2>4
  <2>6. Front(part(k + 1)) \in Path
    BY <2>4, <2>5, <1>0, <1>1
  <2> QED BY <2>2, <2>4, <2>6, <1>1
<1>3. NonemptyPrefixes(p) \subseteq Path
  BY <1>2 DEF NonemptyPrefixes, part
<1> QED BY <1>0, <1>3

\* Where something lies, there is something at all that is above it.
LEMMA AboveIsThere ==
  ASSUME NEW t, WellFormed(t), NEW p \in Paths, NonemptyPrefixes(p) \subseteq Path,
         p # <<>> => t[p] # "none", NEW q \in NonemptyPrefixes(p)
  PROVE  t[q] # "none"
<1> DEFINE n == Len(p)
           part(i) == SubSeq(p, 1, i)
           K == {i \in 1 .. n : t[part(i)] = "none"}
<1>0. n \in Nat
  BY LenProperties DEF Paths
<1>1. /\ part(n) = p /\ \A i \in 0 .. n : Len(part(i)) = i
      /\ \A i \in 1 .. n - 1 : Front(part(i + 1)) = part(i)
  BY PartsAre
<1>2. \A i \in 1 .. n : part(i) \in Path
  BY DEF NonemptyPrefixes
<1>3. PICK j \in 1 .. n : q = part(j)
  BY DEF NonemptyPrefixes
<1> HIDE DEF part
<1>5. ASSUME NEW i \in 1 .. n - 1, t[part(i + 1)] # "none" PROVE t[part(i)] # "none"
  <2>1. i + 1 \in 1 .. n /\ i + 1 \in 0 .. n /\ i + 1 > 1
    BY <1>0
  <2>2. part(i + 1) \in Path /\ Len(part(i + 1)) > 1
    BY <2>1, <1>1, <1>2
  <2>3. IsDir(t[part(i)])
    BY <2>2, <1>1, <1>5 DEF WellFormed, Above
  <2> QED BY <2>3 DEF IsDir
<1>6. ASSUME NEW m \in K PROVE FALSE
  <2>1. K \in SUBSET (0 .. n) /\ K # {}
    BY <1>6, <1>0
  <2>2. PICK k \in K : \A i \in K : i <= k
    <3> HIDE DEF K
    <3>1. Max(K) \in K /\ \A i \in K : i <= Max(K)
      BY <2>1, <1>0, MaxIsGreatest
    <3> QED BY <3>1
  <2>3. k # n
    <3>1. k = n => p # <<>>
      <4>1. k = n => Len(p) # 0
        BY <2>2
      <4> QED BY <4>1
    <3> QED BY <3>1, <2>2, <1>1
  <2>4. k \in 1 .. n - 1 /\ k + 1 \in 1 .. n /\ ~ (k + 1 <= k)
    BY <2>2, <2>3, <1>0
  <2>5. t[part(k + 1)] # "none"
    BY <2>2, <2>4
  <2> QED BY <2>2, <2>4, <2>5, <1>5
<1> QED BY <1>3, <1>6

\* What is above a path, and what is one name below it.
LEMMA AboveIs ==
  ASSUME NEW p \in Path
  PROVE  /\ Len(p) > 1 => /\ Above(p) \in Path /\ IsPrefix(Above(p), p)
                          /\ Len(p) = Len(Above(p)) + 1
         /\ \A q \in Path : IsPrefix(p, q) /\ Len(q) = Len(p) + 1 =>
               Above(q) = p /\ Len(q) > 1
<1>1. ASSUME NEW q \in Path
      PROVE  /\ q \in Seq(STRING) /\ Len(q) \in Nat \ {0} /\ q # <<>>
             /\ Above(q) \in Paths /\ Len(Above(q)) = Len(q) - 1
             /\ \A k \in 1 .. Len(q) - 1 : Above(q)[k] = q[k]
  <2>1. q \in Seq(STRING) /\ Len(q) \in Nat \ {0} /\ q # <<>>
    BY PathsAbove DEF Paths
  <2> QED BY <2>1, FrontIs DEF Above, Paths
<1>2. ASSUME Len(p) > 1
      PROVE  Above(p) \in Path /\ IsPrefix(Above(p), p) /\ Len(p) = Len(Above(p)) + 1
  <2>1. Above(p) \in Path
    BY <1>2, FsAssumption DEF Above
  <2>2. Len(Above(p)) <= Len(p) /\ \A k \in 1 .. Len(Above(p)) : Above(p)[k] = p[k]
    BY <1>1
  <2>3. IsPrefix(Above(p), p)
    BY <1>1, <2>2, PrefixIs DEF Paths
  <2> QED BY <2>1, <2>3, <1>1
<1>3. ASSUME NEW q \in Path, IsPrefix(p, q), Len(q) = Len(p) + 1
      PROVE  Above(q) = p /\ Len(q) > 1
  <2>1. p \in Paths /\ q \in Paths /\ Len(p) \in Nat \ {0} /\ Len(Above(q)) = Len(p)
    BY <1>1, <1>3 DEF Paths
  <2>2. \A k \in 1 .. Len(p) : p[k] = q[k]
    BY <1>3, <2>1, PrefixIs
  <2>3. \A k \in 1 .. Len(Above(q)) : Above(q)[k] = p[k]
    BY <1>1, <1>3, <2>1, <2>2
  <2>4. Above(q) = p
    BY <1>1, <2>1, <2>3, SeqEqual DEF Paths
  <2> QED BY <2>1, <2>4, <1>3
<1> QED BY <1>2, <1>3

\* Below a path at which nothing lies there is nothing.
LEMMA BelowIsGone ==
  ASSUME NEW t, WellFormed(t), NEW a \in Path, t[a] = "none",
         NEW p \in Path, IsPrefix(a, p)
  PROVE  t[p] = "none"
<1> SUFFICES ASSUME t[p] # "none" PROVE FALSE
  OBVIOUS
<1>1. /\ a \in Paths /\ a # <<>> /\ p \in Paths /\ NonemptyPrefixes(p) \subseteq Path
  BY PathsAbove
<1>2. a \in NonemptyPrefixes(p)
  BY <1>1, PrefixAmong
<1> QED BY <1>1, <1>2, AboveIsThere

OpenDir == [dir : Path, seen : SUBSET Path, listed : SUBSET Path]
RmRun   == [pc : {"arg", "lstat", "opendir", "readdir", "rmdir", "remove", "exit"},
            i : Nat \ {0}, path : Paths, at : {0}, dirs : Seq(OpenDir), code : {0, 1}]

RmTypeOK == /\ cmd \in Commands /\ cmd.util = "rm"
            /\ tree \in [Path -> Kind] /\ start \in [Path -> Kind]
            /\ touched \subseteq Path /\ run \in RmRun

\* What lies below the argument at work.
Under(p)  == p \in Path /\ IsPrefix(Argument, p)
Listed(d) == Under(d.dir) /\ \A e \in d.listed : Under(e)

\* rm works on its argument or below it, and the first directory it opened is
\* the argument.
RmPlace ==
    /\ run.pc = "arg" => run.dirs = <<>>
    /\ run.pc \notin {"arg", "exit"} =>
          /\ run.i \in 1 .. Len(cmd.args)
          /\ \A k \in 1 .. Len(run.dirs) : Listed(run.dirs[k])
          /\ run.dirs # <<>> => run.dirs[1].dir = Argument
          /\ run.pc # "readdir" => Under(run.path) /\ (run.dirs = <<>> => run.path = Argument)
          /\ run.pc = "readdir" => run.dirs # <<>>

\* The arguments that were worked on are gone.
RmDone ==
    /\ \A j \in 1 .. Len(cmd.args) : j < run.i =>
          tree[cmd.args[j]] = "none" \/ cmd.args[j] \in touched
    /\ run.pc = "exit" /\ run.code = 0 => run.i > Len(cmd.args)

RmInv == cmd.util = "rm" => RmTypeOK /\ RmPlace /\ RmDone /\ OnlyArguments

\* The arguments of rm.
LEMMA RmArgsAre ==
  ASSUME RmTypeOK
  PROVE  /\ cmd.args \in Seq(Path) /\ Len(cmd.args) \in Nat /\ Path \subseteq Paths
         /\ DOMAIN cmd.args = 1 .. Len(cmd.args)
         /\ \A j \in 1 .. Len(cmd.args) : cmd.args[j] \in Path
         /\ run.i \in 1 .. Len(cmd.args) => Argument \in Path /\ Under(Argument)
<1>1. cmd.args \in Seq(Path) /\ Path \subseteq Paths
  BY FsAssumption DEF RmTypeOK, Paths
<1>2. /\ Len(cmd.args) \in Nat /\ DOMAIN cmd.args = 1 .. Len(cmd.args)
      /\ \A j \in 1 .. Len(cmd.args) : cmd.args[j] \in Path
  BY <1>1, LenProperties, ElementOfSeq
<1>3. ASSUME run.i \in 1 .. Len(cmd.args) PROVE Argument \in Path /\ Under(Argument)
  <2>1. Argument \in Path
    BY <1>2, <1>3 DEF Argument
  <2>2. IsPrefix(Argument, Argument)
    BY <1>1, <2>1, PrefixOfPrefix
  <2> QED BY <2>1, <2>2 DEF Under
<1> QED BY <1>1, <1>2, <1>3

\* At the beginning rm has done nothing.
LEMMA RmInitInv == FsInit => RmInv
<1> SUFFICES ASSUME FsInit, cmd.util = "rm"
             PROVE  RmTypeOK /\ RmPlace /\ RmDone /\ OnlyArguments
  BY DEF RmInv
<1>1. /\ cmd \in Commands /\ start = tree /\ touched = {}
      /\ run = [pc |-> "arg", i |-> 1, path |-> <<>>, at |-> 0, dirs |-> <<>>, code |-> 0]
      /\ tree \in [Path -> {"none", "file", "dir", "link"}]
  BY DEF FsInit
<1>2. run \in RmRun
  BY <1>1, EmptySeq DEF RmRun, Paths
<1>3. RmTypeOK
  BY <1>1, <1>2 DEF RmTypeOK, Kind
<1> QED BY <1>1, <1>3, RmArgsAre DEF RmPlace, RmDone, OnlyArguments

\* A step that leaves the tree alone.
LEMMA RmLooks ==
  ASSUME RmInv, cmd.util = "rm", Keeps, run' \in RmRun, RmPlace', run'.i = run.i,
         run'.pc = "exit" /\ run'.code = 0 => run.i > Len(cmd.args)
  PROVE  RmInv'
<1>1. RmTypeOK' /\ OnlyArguments'
  BY DEF RmInv, RmTypeOK, OnlyArguments, Keeps
<1>2. RmDone'
  BY DEF RmInv, RmDone, Keeps
<1> QED BY <1>1, <1>2 DEF RmInv

\* A step to another place with the same path, or out of the program.
LEMMA RmTurns ==
  ASSUME RmInv, cmd.util = "rm", Keeps,
         \/ Exits(1)
         \/ Exits(0) /\ run.i > Len(cmd.args) /\ run.pc = "arg"
         \/ /\ run.pc = "lstat"
            /\ Goto("opendir") \/ Goto("remove")
  PROVE  RmInv'
<1>1. RmTypeOK /\ RmPlace /\ run \in RmRun
  BY DEF RmInv, RmTypeOK
<1>2. ASSUME NEW code \in {0, 1}, run' = [run EXCEPT !.pc = "exit", !.code = code],
             code = 0 => run.i > Len(cmd.args)
      PROVE  RmInv'
  <2>2. run' \in RmRun /\ run'.pc = "exit" /\ run'.code = code /\ run'.i = run.i
    BY <1>1, <1>2 DEF RmRun
  <2>3. RmPlace'
    BY <2>2 DEF RmPlace
  <2> QED BY <1>2, <2>2, <2>3, RmLooks
<1>3. ASSUME run.pc = "lstat", NEW next \in {"opendir", "remove"},
             run' = [run EXCEPT !.pc = next]
      PROVE  RmInv'
  <2>1. /\ run' \in RmRun /\ run'.pc = next /\ run'.i = run.i /\ run'.path = run.path
        /\ run'.dirs = run.dirs /\ cmd' = cmd
    BY <1>1, <1>3 DEF RmRun, Keeps
  <2>2. RmPlace'
    BY <1>1, <1>3, <2>1 DEF RmPlace, Listed, Under, Argument
  <2> QED BY <2>1, <2>2, RmLooks
<1>4. ASSUME run.pc = "lstat", Goto("opendir") PROVE RmInv'
  BY <1>3, <1>4 DEF Goto
<1>5. ASSUME run.pc = "lstat", Goto("remove") PROVE RmInv'
  BY <1>3, <1>5 DEF Goto
<1>6. ASSUME run.pc = "lstat", Goto("opendir") \/ Goto("remove") PROVE RmInv'
  BY <1>4, <1>5, <1>6
<1>7. ASSUME Exits(1) PROVE RmInv'
  BY <1>2, <1>7 DEF Exits
<1>8. ASSUME Exits(0), run.i > Len(cmd.args) PROVE RmInv'
  BY <1>2, <1>8 DEF Exits
<1> QED BY <1>6, <1>7, <1>8

\* The next argument.
LEMMA RmNextKeeps == RmInv /\ (RmUsage \/ RmNext) => RmInv'
<1> SUFFICES ASSUME RmInv, RmUsage \/ RmNext PROVE RmInv'
  OBVIOUS
<1>1. /\ cmd.util = "rm" /\ run.pc = "arg" /\ Keeps
      /\ \/ Exits(1)
         \/ NoMore /\ Exits(0)
         \/ ~ NoMore /\ run' = [run EXCEPT !.pc = "lstat", !.path = Argument]
  BY DEF RmUsage, RmNext, At
<1>2. CASE Exits(1)
  BY <1>1, <1>2, RmTurns
<1>3. CASE NoMore /\ Exits(0)
  BY <1>1, <1>3, RmTurns DEF NoMore
<1>4. CASE ~ NoMore /\ run' = [run EXCEPT !.pc = "lstat", !.path = Argument]
  <2>1. RmTypeOK /\ RmPlace /\ run \in RmRun
    BY <1>1 DEF RmInv, RmTypeOK
  <2>2. run.i \in 1 .. Len(cmd.args)
    BY <1>4, <2>1, RmArgsAre DEF NoMore, RmRun
  <2>3. Argument \in Paths /\ Under(Argument)
    BY <2>1, <2>2, RmArgsAre
  <2>4. /\ run' \in RmRun /\ run'.pc = "lstat" /\ run'.i = run.i /\ run'.path = Argument
        /\ run'.dirs = run.dirs /\ cmd' = cmd /\ run.dirs = <<>> /\ Len(<<>>) = 0
    BY <1>1, <1>4, <2>1, <2>3 DEF RmRun, Keeps, RmPlace
  <2>5. RmPlace'
    BY <2>2, <2>3, <2>4 DEF RmPlace, Under, Argument
  <2> QED BY <1>1, <2>4, <2>5, RmLooks
<1> QED BY <1>1, <1>2, <1>3, <1>4

\* lstat of an argument or of an entry.
LEMMA RmLstatKeeps == RmInv /\ (LstatArgument \/ LstatEntry) => RmInv'
<1> SUFFICES ASSUME RmInv, LstatArgument \/ LstatEntry PROVE RmInv'
  OBVIOUS
<1>1. /\ cmd.util = "rm" /\ run.pc = "lstat" /\ Keeps
      /\ Exits(1) \/ Goto("opendir") \/ Goto("remove")
  <2>1. CASE LstatArgument
    BY <2>1 DEF LstatArgument, At
  <2>2. CASE LstatEntry
    BY <2>2 DEF LstatEntry, At
  <2> QED BY <2>1, <2>2
<1> QED BY <1>1, RmTurns

\* opendir: what it finds is below the argument.
LEMMA RmOpenKeeps == RmInv /\ RecursiveRemove => RmInv'
<1> SUFFICES ASSUME RmInv, RecursiveRemove PROVE RmInv'
  OBVIOUS
<1> DEFINE d == [dir |-> run.path, seen |-> {}, listed |-> Children(run.path)]
<1>1. /\ cmd.util = "rm" /\ run.pc = "opendir" /\ Keeps
      /\ \/ Exits(1)
         \/ run' = [run EXCEPT !.pc = "readdir", !.dirs = Append(@, d)]
  BY DEF RecursiveRemove, At
<1>2. CASE Exits(1)
  BY <1>1, <1>2, RmTurns
<1>3. CASE run' = [run EXCEPT !.pc = "readdir", !.dirs = Append(@, d)]
  <2>1. /\ RmTypeOK /\ RmPlace /\ run \in RmRun /\ run.dirs \in Seq(OpenDir)
        /\ Len(run.dirs) \in Nat /\ run.i \in 1 .. Len(cmd.args)
        /\ Under(run.path) /\ (run.dirs = <<>> => run.path = Argument)
        /\ \A k \in 1 .. Len(run.dirs) : Listed(run.dirs[k])
        /\ run.dirs # <<>> => run.dirs[1].dir = Argument
    BY <1>1, LenProperties DEF RmInv, RmTypeOK, RmPlace, RmRun
  <2>2. d \in OpenDir /\ Children(run.path) \subseteq Path
    BY <2>1 DEF OpenDir, Under, Children
  <2>3. \A e \in Children(run.path) : Under(e)
    <3> TAKE e \in Children(run.path)
    <3>1. e \in Path /\ IsPrefix(run.path, e)
      BY DEF Children
    <3>2. Argument \in Paths /\ run.path \in Paths /\ e \in Paths
      BY <2>1, <3>1, RmArgsAre DEF Under
    <3> QED BY <2>1, <3>1, <3>2, PrefixOfPrefix DEF Under
  <2>4. Listed(d)
    BY <2>1, <2>3 DEF Listed
  <2> DEFINE dirs == run.dirs
             more == Append(dirs, d)
             n    == Len(dirs)
  <2>5. run' = [run EXCEPT !.pc = "readdir", !.dirs = more]
    BY <1>3
  <2> HIDE DEF d
  <2>6. /\ more \in Seq(OpenDir) /\ Len(more) = n + 1 /\ n \in Nat
        /\ \A k \in 1 .. n : more[k] = dirs[k]
        /\ more[n + 1] = d
    BY <2>1, <2>2, AppendProperties
  <2>7. /\ run' \in RmRun /\ run'.pc = "readdir" /\ run'.i = run.i /\ run'.dirs = more
        /\ cmd' = cmd
    <3> HIDE DEF more
    <3> QED BY <1>1, <2>1, <2>5, <2>6 DEF RmRun, Keeps
  <2>8. \A k \in 1 .. Len(more) : Listed(more[k])
    <3> TAKE k \in 1 .. Len(more)
    <3>1. CASE k = n + 1
      BY <2>4, <2>6, <3>1
    <3>2. CASE k # n + 1
      <4>1. k \in 1 .. n
        BY <2>6, <3>2
      <4> QED BY <4>1, <2>1, <2>6
    <3> QED BY <3>1, <3>2
  <2>9. more # <<>> /\ more[1].dir = Argument
    <3>1. CASE dirs = <<>>
      <4>1. n = 0 /\ d.dir = Argument
        BY <2>1, <3>1 DEF d
      <4>2. more[1] = d /\ Len(more) = 1
        BY <4>1, <2>6
      <4>3. Len(<<>>) = 0
        OBVIOUS
      <4> HIDE DEF more
      <4> QED BY <4>1, <4>2, <4>3
    <3>2. CASE dirs # <<>>
      <4>1. n # 0
        BY <2>1, <3>2, EmptySeq
      <4>2. 1 \in 1 .. n /\ Len(more) # 0
        BY <4>1, <2>6
      <4>3. more[1] = dirs[1] /\ more # <<>>
        BY <4>2, <2>6
      <4> QED BY <4>3, <3>2, <2>1
    <3> QED BY <3>1, <3>2
  <2> HIDE DEF more
  <2>10. RmPlace'
    BY <2>1, <2>7, <2>8, <2>9 DEF RmPlace, Listed, Under, Argument
  <2> QED BY <1>1, <2>7, <2>10, RmLooks
<1> QED BY <1>1, <1>2, <1>3

\* readdir: the next entry, or the end of the directory.
LEMMA RmReadKeeps == RmInv /\ ReadDir => RmInv'
<1> SUFFICES ASSUME RmInv, ReadDir PROVE RmInv'
  OBVIOUS
<1> DEFINE dirs  == run.dirs
           d     == Last(dirs)
           front == Front(dirs)
           n     == Len(dirs)
<1>1. /\ cmd.util = "rm" /\ run.pc = "readdir" /\ Keeps
  BY DEF ReadDir, At
<1>2. /\ RmTypeOK /\ RmPlace /\ run \in RmRun /\ dirs \in Seq(OpenDir)
      /\ run.i \in 1 .. Len(cmd.args) /\ dirs # <<>>
      /\ \A k \in 1 .. Len(dirs) : Listed(dirs[k])
      /\ dirs[1].dir = Argument
  BY <1>1 DEF RmInv, RmTypeOK, RmPlace, RmRun
<1> HIDE DEF dirs
<1>3. /\ n \in Nat /\ n >= 1 /\ d \in OpenDir /\ d = dirs[n]
      /\ front \in Seq(OpenDir) /\ Len(front) = n - 1
      /\ \A k \in 1 .. n - 1 : front[k] = dirs[k]
  BY <1>2, FrontIs
<1>4. Listed(d) /\ n \in 1 .. n
  BY <1>2, <1>3
<1> HIDE DEF front
<1>5. ASSUME NEW e \in (d.listed \cup Children(d.dir)) \ d.seen,
             run' = [run EXCEPT !.pc = "lstat", !.path = e,
                       !.dirs = Append(front, [d EXCEPT !.seen = @ \cup {e}])]
      PROVE  RmInv'
  <2> DEFINE c    == [d EXCEPT !.seen = @ \cup {e}]
             more == Append(front, c)
  <2>1. Under(e) /\ e \in Path /\ e \in Paths
    <3>1. Under(d.dir) /\ \A x \in d.listed : Under(x)
      BY <1>4 DEF Listed
    <3>2. CASE e \in d.listed
      BY <1>2, <3>1, <3>2, RmArgsAre DEF Under
    <3>3. CASE e \in Children(d.dir)
      <4>1. e \in Path /\ IsPrefix(d.dir, e)
        BY <3>3 DEF Children
      <4>2. Argument \in Paths /\ d.dir \in Paths /\ e \in Paths
        BY <1>2, <3>1, <4>1, RmArgsAre DEF Under
      <4> QED BY <3>1, <4>1, <4>2, PrefixOfPrefix DEF Under
    <3> QED BY <3>2, <3>3
  <2>2. c \in OpenDir /\ c.dir = d.dir /\ c.listed = d.listed
    BY <1>3, <2>1 DEF OpenDir
  <2> HIDE DEF d
  <2>3. Listed(c)
    <3> HIDE DEF c
    <3> QED BY <1>4, <2>2 DEF Listed
  <2>4. run' = [run EXCEPT !.pc = "lstat", !.path = e, !.dirs = more]
    BY <1>5
  <2> HIDE DEF c
  <2>5. /\ more \in Seq(OpenDir) /\ Len(more) = n
        /\ \A k \in 1 .. n - 1 : more[k] = dirs[k]
        /\ more[n] = c
    <3>1. /\ more \in Seq(OpenDir) /\ Len(more) = Len(front) + 1
          /\ \A k \in 1 .. Len(front) : more[k] = front[k]
          /\ more[Len(front) + 1] = c
      BY <1>3, <2>2, AppendProperties
    <3>2. Len(front) + 1 = n /\ Len(front) = n - 1
      BY <1>3
    <3> HIDE DEF more, n
    <3> QED BY <1>3, <3>1, <3>2
  <2> HIDE DEF more
  <2>6. /\ run' \in RmRun /\ run'.pc = "lstat" /\ run'.i = run.i /\ run'.dirs = more
        /\ run'.path = e /\ cmd' = cmd
    BY <1>1, <1>2, <2>1, <2>4, <2>5 DEF RmRun, Keeps
  <2>7. \A k \in 1 .. Len(more) : Listed(more[k])
    <3> TAKE k \in 1 .. Len(more)
    <3>1. CASE k = n
      BY <2>3, <2>5, <3>1
    <3>2. CASE k # n
      <4>1. k \in 1 .. n - 1 /\ k \in 1 .. n
        BY <1>3, <2>5, <3>2
      <4> QED BY <4>1, <1>2, <2>5
    <3> QED BY <3>1, <3>2
  <2>8. more # <<>> /\ more[1].dir = Argument
    <3>0. Len(more) # 0 /\ Len(<<>>) = 0
      BY <1>3, <2>5
    <3>1. CASE n = 1
      BY <1>2, <1>3, <2>2, <2>5, <3>0, <3>1
    <3>2. CASE n # 1
      <4>1. 1 \in 1 .. n - 1
        BY <1>3, <3>2
      <4> QED BY <4>1, <3>0, <1>2, <2>5
    <3> QED BY <3>1, <3>2
  <2>9. RmPlace'
    BY <1>2, <2>1, <2>6, <2>7, <2>8 DEF RmPlace, Listed, Under, Argument
  <2> QED BY <1>1, <2>6, <2>9, RmLooks
<1>6. ASSUME run' = [run EXCEPT !.pc = "rmdir", !.path = d.dir, !.dirs = front]
      PROVE  RmInv'
  <2> DEFINE p == d.dir
  <2>1. Under(p) /\ p \in Paths
    BY <1>2, <1>4, RmArgsAre DEF Listed, Under
  <2>2. run' = [run EXCEPT !.pc = "rmdir", !.path = p, !.dirs = front]
    BY <1>6
  <2>3. front = <<>> => p = Argument
    <3>1. ASSUME front = <<>> PROVE n = 1
      <4>1. Len(front) = 0
        BY <3>1
      <4> QED BY <4>1, <1>3
    <3> QED BY <3>1, <1>2, <1>3
  <2>4. front # <<>> => front[1].dir = Argument
    <3>1. ASSUME front # <<>> PROVE 1 \in 1 .. n - 1
      <4>1. Len(front) # 0
        BY <1>3, <3>1, EmptySeq
      <4> QED BY <4>1, <1>3
    <3> QED BY <3>1, <1>2, <1>3
  <2>5. \A k \in 1 .. Len(front) : Listed(front[k])
    <3> TAKE k \in 1 .. Len(front)
    <3>1. k \in 1 .. n - 1 /\ k \in 1 .. n
      BY <1>3
    <3> QED BY <3>1, <1>2, <1>3
  <2> HIDE DEF p, d
  <2>6. /\ run' \in RmRun /\ run'.pc = "rmdir" /\ run'.i = run.i /\ run'.dirs = front
        /\ run'.path = p /\ cmd' = cmd
    BY <1>1, <1>2, <1>3, <2>1, <2>2 DEF RmRun, Keeps
  <2>7. RmPlace'
    BY <1>2, <2>1, <2>3, <2>4, <2>5, <2>6 DEF RmPlace, Listed, Under, Argument
  <2> QED BY <1>1, <2>6, <2>7, RmLooks
<1> QED BY <1>5, <1>6 DEF ReadDir, d, front, dirs

\* What is removed is the argument or below it; with the argument itself the
\* work on it is done.
LEMMA RmRemoveKeeps == RmInv /\ (Rmdir \/ RemoveFile) => RmInv'
<1> SUFFICES ASSUME RmInv, Rmdir \/ RemoveFile PROVE RmInv'
  OBVIOUS
<1>1. /\ cmd.util = "rm" /\ run.pc \in {"rmdir", "remove"}
      /\ UNCHANGED <<start, touched, cmd>>
      /\ \/ Exits(1) /\ UNCHANGED tree
         \/ tree' = [tree EXCEPT ![run.path] = "none"] /\ Continue
  BY DEF Rmdir, RemoveFile, At
<1>2. CASE Exits(1) /\ UNCHANGED tree
  BY <1>1, <1>2, RmTurns DEF Keeps
<1>3. CASE tree' = [tree EXCEPT ![run.path] = "none"] /\ Continue
  <2>1. /\ RmTypeOK /\ RmPlace /\ run \in RmRun /\ RmDone /\ OnlyArguments
        /\ run.i \in 1 .. Len(cmd.args) /\ Under(run.path) /\ run.path \in Path
        /\ \A k \in 1 .. Len(run.dirs) : Listed(run.dirs[k])
        /\ run.dirs # <<>> => run.dirs[1].dir = Argument
        /\ run.dirs = <<>> => run.path = Argument
        /\ tree \in [Path -> Kind]
    BY <1>1 DEF RmInv, RmTypeOK, RmPlace, Under
  <2>2. /\ tree' \in [Path -> Kind] /\ tree'[run.path] = "none"
        /\ \A p \in Path : p # run.path => tree'[p] = tree[p]
    BY <1>3, <2>1 DEF Kind
  <2>3. /\ run' \in RmRun /\ cmd' = cmd /\ run'.dirs = run.dirs /\ run'.pc # "exit"
        /\ \/ run.dirs = <<>> /\ run'.pc = "arg" /\ run'.i = run.i + 1
           \/ run.dirs # <<>> /\ run'.pc = "readdir" /\ run'.i = run.i
    <3>1. CASE run.dirs = <<>>
      <4>1. run' = [run EXCEPT !.pc = "arg", !.i = @ + 1]
        BY <3>1, <1>3 DEF Continue
      <4>2. run.i + 1 \in Nat \ {0}
        BY <2>1 DEF RmRun
      <4>3. run' \in RmRun
        BY <4>1, <4>2, <2>1 DEF RmRun
      <4>4. run'.dirs = run.dirs /\ run'.pc = "arg" /\ run'.i = run.i + 1
        BY <4>1, <2>1 DEF RmRun
      <4> QED BY <4>3, <4>4, <3>1, <1>1
    <3>2. CASE run.dirs # <<>>
      <4>1. run' = [run EXCEPT !.pc = "readdir"]
        BY <3>2, <1>3 DEF Continue
      <4>2. run' \in RmRun
        BY <4>1, <2>1 DEF RmRun
      <4>3. run'.dirs = run.dirs /\ run'.pc = "readdir" /\ run'.i = run.i
        BY <4>1, <2>1 DEF RmRun
      <4> QED BY <4>2, <4>3, <3>2, <1>1
    <3> QED BY <3>1, <3>2
  <2>4. RmTypeOK'
    BY <1>1, <2>1, <2>2, <2>3 DEF RmTypeOK
  <2>5. RmPlace'
    BY <2>1, <2>3 DEF RmPlace, Listed, Under, Argument
  <2>6. RmDone'
    <3> SUFFICES ASSUME NEW j \in 1 .. Len(cmd.args), j < run'.i
                 PROVE  tree'[cmd.args[j]] = "none" \/ cmd.args[j] \in touched
      BY <1>1, <2>3 DEF RmDone
    <3>1. cmd.args[j] \in Path
      BY <2>1, RmArgsAre
    <3>2. CASE j < run.i
      BY <3>1, <3>2, <2>1, <2>2 DEF RmDone
    <3>3. CASE ~ (j < run.i)
      <4>1. j = run.i /\ run.dirs = <<>>
        BY <3>3, <2>1, <2>3, RmArgsAre
      <4>2. cmd.args[j] = run.path
        BY <4>1, <2>1 DEF Argument
      <4> QED BY <4>2, <2>2
    <3> QED BY <3>2, <3>3
  <2>7. OnlyArguments'
    <3> SUFFICES ASSUME NEW p \in Path \ touched, tree'[p] # start[p]
                 PROVE  tree'[p] = "none" /\ \E i \in DOMAIN cmd.args : IsPrefix(cmd.args[i], p)
      BY <1>1 DEF OnlyArguments
    <3>1. CASE p = run.path
      <4>1. IsPrefix(cmd.args[run.i], p) /\ run.i \in DOMAIN cmd.args
        BY <3>1, <2>1, RmArgsAre DEF Under, Argument
      <4> QED BY <4>1, <3>1, <2>2
    <3>2. CASE p # run.path
      BY <3>2, <2>1, <2>2 DEF OnlyArguments
    <3> QED BY <3>1, <3>2
  <2> QED BY <2>4, <2>5, <2>6, <2>7 DEF RmInv
<1> QED BY <1>1, <1>2, <1>3

\* What others change is touched.
LEMMA RmTouchKeeps ==
  ASSUME RmInv, NEW p \in Path, NEW kind \in {"none", "file", "dir"}, Touch(p, kind)
  PROVE  RmInv'
<1> SUFFICES ASSUME cmd.util = "rm" PROVE RmInv'
  BY DEF RmInv, Touch
<1>1. /\ tree' = [tree EXCEPT ![p] = kind] /\ touched' = touched \cup {p}
      /\ UNCHANGED <<start, cmd, run>>
      /\ RmTypeOK /\ RmPlace /\ RmDone /\ OnlyArguments
  BY DEF Touch, RmInv
<1>2. RmTypeOK'
  BY <1>1 DEF RmTypeOK, Kind
<1>3. RmPlace'
  BY <1>1 DEF RmPlace, Listed, Under, Argument
<1>4. \A q \in Path : q # p => tree'[q] = tree[q]
  BY <1>1 DEF RmTypeOK
<1>5. RmDone'
  BY <1>1, <1>4, RmArgsAre DEF RmDone
<1>6. OnlyArguments'
  BY <1>1, <1>4 DEF OnlyArguments
<1> QED BY <1>2, <1>3, <1>5, <1>6 DEF RmInv

\* Every step of rm, and of those who work in the same directories, keeps the
\* invariant; mkdir is another program.
LEMMA RmNextInv == RmInv /\ [FsNext]_fsVars => RmInv'
<1> SUFFICES ASSUME RmInv, [FsNext]_fsVars PROVE RmInv'
  OBVIOUS
<1>1. CASE UNCHANGED fsVars
  BY <1>1 DEF fsVars, RmInv, RmTypeOK, RmPlace, RmDone, OnlyArguments, Listed, Under,
              Argument
<1>2. CASE RmUsage \/ RmNext \/ LstatArgument \/ LstatEntry
  BY <1>2, RmNextKeeps, RmLstatKeeps
<1>3. CASE RecursiveRemove \/ ReadDir \/ Rmdir \/ RemoveFile
  BY <1>3, RmOpenKeeps, RmReadKeeps, RmRemoveKeeps
<1>4. CASE MkdirOptions \/ MkdirNext \/ MkdirPlain \/ CreateParents \/ CreateLast
  <2>1. cmd.util = "mkdir" /\ cmd' = cmd
    BY <1>4 DEF MkdirOptions, MkdirNext, MkdirPlain, CreateParents, CreateLast, At, Keeps
  <2> QED BY <2>1 DEF RmInv
<1>5. ASSUME NEW p \in Path, NEW kind \in {"none", "file", "dir"}, Touch(p, kind)
      PROVE  RmInv'
  BY <1>5, RmTouchKeeps
<1> QED BY <1>1, <1>2, <1>3, <1>4, <1>5 DEF FsNext

\* Where rm works at each of its calls: in the argument it is at or below it.
THEOREM RmInvariant == FsSpec => []RmInv
<1> QED BY RmInitInv, RmNextInv, PTL DEF FsSpec

\* rm removes nothing but its arguments and what is below them, and if it
\* reports success they are gone: on every tree, while others create and remove
\* what they like in it (rm.c).
THEOREM RmSafety ==
  FsSpec => [](cmd.util = "rm" => OnlyArguments /\ SuccessIsGone)
<1>1. ASSUME RmInv, cmd.util = "rm" PROVE OnlyArguments /\ SuccessIsGone
  <2>1. RmTypeOK /\ RmDone /\ OnlyArguments
    BY <1>1 DEF RmInv
  <2>2. ASSUME Ended("rm", 0), NEW j \in DOMAIN cmd.args
        PROVE  tree[cmd.args[j]] = "none" \/ cmd.args[j] \in touched
    <3>1. j \in 1 .. Len(cmd.args) /\ run.i > Len(cmd.args) /\ run.i \in Nat
          /\ Len(cmd.args) \in Nat
      BY <2>1, <2>2, RmArgsAre DEF Ended, At, RmDone, RmTypeOK, RmRun
    <3>2. j < run.i
      BY <3>1
    <3> QED BY <3>1, <3>2, <2>1 DEF RmDone
  <2> QED BY <2>1, <2>2 DEF SuccessIsGone
<1>2. RmInv => (cmd.util = "rm" => OnlyArguments /\ SuccessIsGone)
  BY <1>1
<1> QED BY <1>2, RmInvariant, PTL

\* Alone in the tree, rm does just what was asked.

RmSoFar == RmResults(cmd.args, cmd.flag, start)

Busy == run.pc \in {"lstat", "opendir", "rmdir", "remove"}

\* An open directory: what it holds is listed, what was seen is gone, but for
\* the entry at work.
OpenRight(k) ==
    LET d == run.dirs[k] IN
    /\ Len(d.dir) = Len(Argument) + k - 1 /\ IsDir(tree[d.dir])
    /\ \A e \in d.listed : Len(e) = Len(d.dir) + 1
    /\ k < Len(run.dirs) => run.dirs[k + 1].dir \in d.seen
    /\ d.seen \subseteq d.listed /\ Children(d.dir) \subseteq d.listed
    /\ \A e \in d.listed \ d.seen : tree[e] # "none"
    /\ \A e \in d.seen : \/ tree[e] = "none"
                         \/ k < Len(run.dirs) /\ e = run.dirs[k + 1].dir
                         \/ k = Len(run.dirs) /\ Busy /\ e = run.path

\* rm has begun to remove its argument: only what is below it has changed.
RmBelow(r) ==
    /\ r.code = 0 /\ r.tree[Argument] # "none"
    /\ IsDir(r.tree[Argument]) => cmd.flag
    /\ \A p \in Path : ~ IsPrefix(Argument, p) => tree[p] = r.tree[p]
    /\ run.pc \in {"opendir", "rmdir"} => IsDir(tree[run.path])
    /\ run.pc \in {"lstat", "remove"} => tree[run.path] # "none"
    /\ run.pc = "remove" => ~ IsDir(tree[run.path])
    /\ run.pc = "rmdir" => Children(run.path) = {}
    /\ Busy => /\ Len(run.path) = Len(Argument) + Len(run.dirs)
               /\ run.dirs # <<>> => run.path \in run.dirs[Len(run.dirs)].seen
    /\ \A k \in 1 .. Len(run.dirs) : OpenRight(k)

RmAlone ==
    cmd.util = "rm" =>
        /\ WellFormed(tree)
        /\ run.i <= Len(cmd.args) + 1
        /\ touched = {} =>
              /\ run.pc = "exit" => RmReference = [tree |-> tree, code |-> run.code]
              /\ run.pc = "arg" => /\ RmSoFar[run.i - 1].tree = tree
                                   /\ cmd.args # <<>> \/ cmd.flag => RmSoFar[run.i - 1].code = 0
              /\ run.pc = "lstat" /\ run.dirs = <<>> =>
                    RmSoFar[run.i - 1].code = 0 /\ RmSoFar[run.i - 1].tree = tree
              /\ run.pc \notin {"arg", "exit"} /\ (run.pc = "lstat" => run.dirs # <<>>) =>
                    RmBelow(RmSoFar[run.i - 1])

Result == [tree : [Path -> Kind], code : {0, 1}]

RmCall(args, flag, t) == args \in Seq(Path) /\ flag \in BOOLEAN /\ t \in [Path -> Kind]

\* The recursion that RmResults is.
LEMMA RmResultsAre ==
  ASSUME NEW args, NEW flag, NEW t, RmCall(args, flag, t)
  PROVE  LET R == RmResults(args, flag, t)
         IN  /\ R[0] = [tree |-> t, code |-> IF args = <<>> /\ ~ flag THEN 1 ELSE 0]
             /\ \A i \in 1 .. Len(args) : R[i] = RmArgument(R[i - 1], args[i], flag)
             /\ \A i \in 0 .. Len(args) : R[i] \in Result
<1> DEFINE n == Len(args)
           S == Result
           origin == [tree |-> t, code |-> IF args = <<>> /\ ~ flag THEN 1 ELSE 0]
           step(i, r) == RmArgument(r, args[i], flag)
           R == CHOOSE f : f = [i \in 0 .. n |-> IF i = 0 THEN origin ELSE step(i, f[i - 1])]
<1>0. n \in Nat /\ origin \in S /\ \A i \in 1 .. n : args[i] \in Path
  <2>1. origin \in S
    BY DEF Result, RmCall
  <2> HIDE DEF origin
  <2> QED BY <2>1, LenProperties, ElementOfSeq DEF RmCall
<1>1. \A i \in 1 .. n, r \in S : step(i, r) \in S
  <2> TAKE i \in 1 .. n, r \in S
  <2> DEFINE a == args[i]
  <2>1. a \in Path /\ r.tree \in [Path -> Kind] /\ r.code \in {0, 1}
    BY <1>0 DEF Result
  <2> HIDE DEF a
  <2>2. Fail(r) \in S
    BY DEF Fail, Result
  <2>3. [r EXCEPT !.tree = [p \in Path |-> IF IsPrefix(a, p) THEN "none" ELSE @[p]]] \in S
    <3> DEFINE u == [p \in Path |-> IF IsPrefix(a, p) THEN "none" ELSE r.tree[p]]
    <3>1. u \in [Path -> Kind]
      BY <2>1 DEF Kind
    <3> HIDE DEF u
    <3>2. [r EXCEPT !.tree = u] \in S
      BY <3>1 DEF Result
    <3> QED BY <3>2 DEF u
  <2>4. RmArgument(r, a, flag) \in S
    BY <2>2, <2>3 DEF RmArgument
  <2> QED BY <2>4 DEF a
<1> HIDE DEF step, S, n, origin
<1>2. \E f \in [0 .. n -> S] :
         f = [i \in 0 .. n |-> IF i = 0 THEN origin ELSE step(i, f[i - 1])]
  <2> DEFINE G == [i \in 1 .. n |-> [r \in S |-> step(i, r)]]
  <2>1. G \in [1 .. n -> [S -> S]] /\ origin \in S /\ n \in Nat
    BY <1>0, <1>1
  <2>2. \A i \in 1 .. n, r \in S : G[i][r] = step(i, r)
    OBVIOUS
  <2> HIDE DEF G, R
  <2>3. PICK f \in [0 .. n -> S] : f[0] = origin /\ \A i \in 1 .. n : f[i] = G[i][f[i - 1]]
    BY <2>1, RecursionHasValue, SMTT(60)
  <2>4. \A i \in 0 .. n : f[i] = IF i = 0 THEN origin ELSE step(i, f[i - 1])
    <3> TAKE i \in 0 .. n
    <3>1. CASE i = 0
      BY <3>1, <2>3
    <3>2. CASE i # 0
      <4>1. i \in 1 .. n /\ i - 1 \in 0 .. n
        BY <3>2, <2>1
      <4>2. f[i - 1] \in S /\ f[i] = G[i][f[i - 1]]
        BY <4>1, <2>3
      <4> QED BY <4>1, <4>2, <3>2, <2>2
    <3> QED BY <3>1, <3>2
  <2>5. f = [i \in 0 .. n |-> IF i = 0 THEN origin ELSE step(i, f[i - 1])]
    BY <2>3, <2>4
  <2> QED BY <2>3, <2>5
<1>3. R = [i \in 0 .. n |-> IF i = 0 THEN origin ELSE step(i, R[i - 1])]
  BY <1>2
<1>4. RmResults(args, flag, t) = R
  BY DEF RmResults, R, n, origin, step
<1> HIDE DEF R
<1>5. R[0] = origin /\ \A i \in 1 .. n : i - 1 \in 0 .. n /\ R[i] = step(i, R[i - 1])
  <2>1. \A i \in 0 .. n : R[i] = IF i = 0 THEN origin ELSE step(i, R[i - 1])
    BY <1>3
  <2>2. 0 \in 0 .. n /\ \A i \in 1 .. n : i \in 0 .. n /\ i # 0 /\ i - 1 \in 0 .. n
    BY <1>0
  <2> QED BY <2>1, <2>2
<1> DEFINE K == {i \in 0 .. n : R[i] \notin S}
<1>6. ASSUME K # {} PROVE FALSE
  <2>1. PICK m \in K : \A k \in K : m <= k
    <3>1. K \in SUBSET Nat
      OBVIOUS
    <3> HIDE DEF K
    <3> QED BY <3>1, <1>6, MinIsLeast
  <2>2. m # 0
    BY <2>1, <1>0, <1>5
  <2>3. m \in 1 .. n /\ m - 1 \in 0 .. n /\ ~ (m <= m - 1)
    BY <2>1, <2>2, <1>0
  <2>4. R[m - 1] \in S
    BY <2>1, <2>3
  <2> QED BY <2>1, <2>3, <2>4, <1>1, <1>5
<1>7. \A i \in 0 .. n : R[i] \in S
  BY <1>6
<1> QED BY <1>4, <1>5, <1>7 DEF origin, step, n, S

\* What rm should have done so far.
LEMMA RmSoFarIs ==
  ASSUME RmTypeOK
  PROVE  /\ RmSoFar[0] = [tree |-> start,
                          code |-> IF cmd.args = <<>> /\ ~ cmd.flag THEN 1 ELSE 0]
         /\ \A i \in 1 .. Len(cmd.args) :
               RmSoFar[i] = RmArgument(RmSoFar[i - 1], cmd.args[i], cmd.flag)
         /\ \A i \in 0 .. Len(cmd.args) : RmSoFar[i] \in Result
         /\ RmReference = RmSoFar[Len(cmd.args)]
<1>1. cmd.args \in Seq(Path) /\ cmd.flag \in BOOLEAN /\ start \in [Path -> Kind]
  BY RmArgsAre, FsAssumption DEF RmTypeOK
<1> DEFINE args == cmd.args
           flag == cmd.flag
<1> HIDE DEF args, flag
<1>2. RmCall(args, flag, start)
  BY <1>1 DEF args, flag, RmCall
<1>3. LET R == RmResults(args, flag, start)
      IN  /\ R[0] = [tree |-> start, code |-> IF args = <<>> /\ ~ flag THEN 1 ELSE 0]
          /\ \A i \in 1 .. Len(args) : R[i] = RmArgument(R[i - 1], args[i], flag)
          /\ \A i \in 0 .. Len(args) : R[i] \in Result
  BY <1>2, RmResultsAre
<1> QED BY <1>3 DEF args, flag, RmSoFar, RmReference

\* After an argument that fails nothing more is done.
LEMMA RmFailStays ==
  ASSUME RmTypeOK, NEW i \in 0 .. Len(cmd.args), RmSoFar[i].code = 1
  PROVE  RmReference = [tree |-> RmSoFar[i].tree, code |-> 1]
<1> DEFINE n == Len(cmd.args)
           R == RmSoFar
           K == {k \in i .. n : R[k] # R[i]}
<1>0. /\ n \in Nat /\ i \in 0 .. n /\ R[i].code = 1
      /\ \A k \in 1 .. n : R[k] = RmArgument(R[k - 1], cmd.args[k], cmd.flag)
      /\ \A k \in 0 .. n : R[k] \in Result
      /\ RmReference = R[n]
  BY RmSoFarIs, RmArgsAre
<1> HIDE DEF R, n
<1>1. Fail(R[i]) = R[i] /\ R[i] = [tree |-> R[i].tree, code |-> 1]
  BY <1>0 DEF Fail, Result
<1>2. ASSUME K # {} PROVE FALSE
  <2>1. PICK m \in K : \A k \in K : m <= k
    <3>1. K \in SUBSET Nat
      BY <1>0
    <3> HIDE DEF K
    <3> QED BY <3>1, <1>2, MinIsLeast
  <2>2. m \in 1 .. n /\ m - 1 \in i .. n /\ ~ (m <= m - 1)
    BY <2>1, <1>0
  <2>3. R[m - 1] = R[i]
    BY <2>1, <2>2
  <2>4. R[m] = Fail(R[i])
    <3>1. R[m] = RmArgument(R[i], cmd.args[m], cmd.flag)
      BY <2>2, <2>3, <1>0
    <3> QED BY <3>1, <1>0 DEF RmArgument
  <2> QED BY <2>1, <2>4, <1>1
<1>3. n \in i .. n
  BY <1>0
<1>4. R[n] = R[i]
  BY <1>2, <1>3
<1> QED BY <1>0, <1>1, <1>4 DEF R

LEMMA RmAloneInit == FsInit => RmAlone
<1> SUFFICES ASSUME FsInit, cmd.util = "rm" PROVE RmAlone
  BY DEF RmAlone
<1>1. RmTypeOK /\ WellFormed(tree) /\ run.i = 1 /\ run.pc = "arg" /\ start = tree
  BY RmInitInv DEF RmInv, FsInit
<1>2. RmSoFar[0] = [tree |-> start, code |-> IF cmd.args = <<>> /\ ~ cmd.flag THEN 1 ELSE 0]
  BY <1>1, RmSoFarIs
<1>3. run.i - 1 = 0 /\ run.i <= Len(cmd.args) + 1
  BY <1>1, RmArgsAre
<1> QED BY <1>1, <1>2, <1>3 DEF RmAlone

\* Where rm is when it has the invariants and takes a step of its own.
LEMMA RmIsAt ==
  ASSUME RmInv, RmAlone, cmd.util = "rm"
  PROVE  /\ RmTypeOK /\ RmPlace /\ WellFormed(tree) /\ run \in RmRun
         /\ Len(cmd.args) \in Nat /\ run.i \in Nat \ {0} /\ run.i <= Len(cmd.args) + 1
         /\ run.i - 1 \in 0 .. Len(cmd.args)
         /\ run.pc \notin {"arg", "exit"} =>
               /\ run.i \in 1 .. Len(cmd.args) /\ Argument \in Path /\ Argument # <<>>
               /\ Len(Argument) \in Nat \ {0} /\ cmd.args # <<>>
               /\ Len(run.dirs) \in Nat
               /\ run.pc # "readdir" => run.path \in Path /\ Under(run.path)
<1>1. /\ RmTypeOK /\ RmPlace /\ WellFormed(tree) /\ run \in RmRun /\ Len(cmd.args) \in Nat
      /\ run.i \in Nat \ {0} /\ run.i <= Len(cmd.args) + 1
  BY RmArgsAre DEF RmInv, RmAlone, RmTypeOK, RmRun
<1>2. run.i - 1 \in 0 .. Len(cmd.args)
  BY <1>1
<1>3. ASSUME run.pc \notin {"arg", "exit"}
      PROVE  /\ run.i \in 1 .. Len(cmd.args) /\ Argument \in Path /\ Argument # <<>>
             /\ Len(Argument) \in Nat \ {0} /\ cmd.args # <<>>
             /\ Len(run.dirs) \in Nat
             /\ run.pc # "readdir" => run.path \in Path /\ Under(run.path)
  <2>1. run.i \in 1 .. Len(cmd.args)
    BY <1>1, <1>3 DEF RmPlace
  <2>2. Argument \in Path
    BY <1>1, <2>1, RmArgsAre
  <2>3. run.dirs \in Seq(OpenDir)
    BY <1>1 DEF RmRun
  <2>4. cmd.args # <<>>
    <3>1. Len(cmd.args) # 0
      BY <1>1, <2>1
    <3> QED BY <3>1
  <2>5. run.pc # "readdir" => run.path \in Path /\ Under(run.path)
    BY <1>1, <1>3 DEF RmPlace, Under
  <2>6. Len(run.dirs) \in Nat
    BY <2>3, LenProperties
  <2>7. Argument # <<>> /\ Len(Argument) \in Nat \ {0}
    BY <2>2, PathsAbove
  <2> QED BY <2>1, <2>2, <2>4, <2>5, <2>6, <2>7
<1> QED BY <1>1, <1>2, <1>3

\* rm leaves the program without having changed the tree of its last argument.
LEMMA RmAloneExit ==
  ASSUME RmInv, RmAlone, cmd.util = "rm", Keeps, NEW code \in {0, 1}, Exits(code),
         touched = {} => RmReference = [tree |-> tree, code |-> code]
  PROVE  RmAlone'
<1>1. /\ run \in RmRun /\ WellFormed(tree) /\ run.i <= Len(cmd.args) + 1
      /\ UNCHANGED <<tree, start, touched, cmd>>
  BY RmIsAt DEF Keeps
<1>2. run'.pc = "exit" /\ run'.code = code /\ run'.i = run.i
  BY <1>1 DEF Exits, RmRun
<1>3. RmReference' = RmReference
  BY <1>1 DEF RmReference
<1>4. WellFormed(tree)'
  BY <1>1 DEF WellFormed
<1> QED BY <1>1, <1>2, <1>3, <1>4 DEF RmAlone

\* The next argument.
LEMMA RmAloneNext == RmInv /\ RmAlone /\ (RmUsage \/ RmNext) => RmAlone'
<1> SUFFICES ASSUME RmInv, RmAlone, RmUsage \/ RmNext PROVE RmAlone'
  OBVIOUS
<1> DEFINE r == RmSoFar[run.i - 1]
<1>1. /\ cmd.util = "rm" /\ run.pc = "arg" /\ Keeps
  BY DEF RmUsage, RmNext, At
<1>2. /\ RmTypeOK /\ RmPlace /\ run \in RmRun /\ WellFormed(tree) /\ Len(cmd.args) \in Nat
      /\ run.i \in Nat \ {0} /\ run.i <= Len(cmd.args) + 1
      /\ run.i - 1 \in 0 .. Len(cmd.args) /\ run.dirs = <<>>
      /\ UNCHANGED <<tree, start, touched, cmd>>
  BY <1>1, RmIsAt DEF Keeps, RmPlace
<1>3. /\ r \in Result
      /\ RmSoFar[0] = [tree |-> start, code |-> IF cmd.args = <<>> /\ ~ cmd.flag THEN 1 ELSE 0]
      /\ RmReference = RmSoFar[Len(cmd.args)]
  BY <1>2, RmSoFarIs
<1>4. touched = {} => /\ r.tree = tree /\ (cmd.args # <<>> \/ cmd.flag => r.code = 0)
  BY <1>1 DEF RmAlone
<1> HIDE DEF r
<1>5. CASE RmUsage
  <2>1. Exits(1) /\ cmd.args = <<>> /\ ~ cmd.flag /\ Len(<<>>) = 0
    BY <1>5 DEF RmUsage
  <2>2. run.i - 1 = 0 /\ Len(cmd.args) = 0
    BY <1>2, <2>1
  <2>3. touched = {} => start = tree
    BY <1>3, <1>4, <2>1, <2>2 DEF r
  <2>4. touched = {} => RmReference = [tree |-> tree, code |-> 1]
    BY <1>3, <2>1, <2>2, <2>3
  <2> QED BY <1>1, <2>1, <2>4, RmAloneExit
<1>6. CASE RmNext /\ NoMore
  <2>1. Exits(0) /\ (cmd.args # <<>> \/ cmd.flag)
    BY <1>6 DEF RmNext
  <2>2. run.i - 1 = Len(cmd.args)
    BY <1>2, <1>6 DEF NoMore
  <2>3. touched = {} => RmReference = [tree |-> tree, code |-> 0]
    BY <1>3, <1>4, <2>1, <2>2 DEF r, Result
  <2> QED BY <1>1, <2>1, <2>3, RmAloneExit
<1>7. CASE RmNext /\ ~ NoMore
  <2>1. run' = [run EXCEPT !.pc = "lstat", !.path = Argument]
    BY <1>7 DEF RmNext
  <2>2. run'.pc = "lstat" /\ run'.i = run.i /\ run'.dirs = <<>>
    BY <1>2, <2>1 DEF RmRun
  <2>3. RmSoFar' = RmSoFar /\ WellFormed(tree)'
    BY <1>2 DEF RmSoFar, WellFormed
  <2>5. touched = {} => r.tree = tree /\ r.code = 0
    <3>1. Len(cmd.args) # 0
      BY <1>2, <1>7 DEF NoMore
    <3>2. cmd.args # <<>>
      BY <3>1
    <3> QED BY <3>2, <1>4
  <2> QED BY <1>2, <2>2, <2>3, <2>5 DEF RmAlone, r
<1> QED BY <1>5, <1>6, <1>7

\* An open directory depends on the argument, the tree, the directories and the
\* path at work.
LEMMA OpenStays ==
  ASSUME UNCHANGED <<tree, cmd, run.i, run.dirs>>,
         Busy' = Busy, Busy => run'.path = run.path, NEW k, OpenRight(k)
  PROVE  OpenRight(k)'
<1>1. Argument' = Argument
  BY DEF Argument
<1>2. \A p : Children(p)' = Children(p)
  BY DEF Children
<1>3. run'.dirs = run.dirs
  OBVIOUS
<1> QED BY <1>1, <1>2, <1>3 DEF OpenRight

\* lstat of an argument.
LEMMA RmAloneArgument == RmInv /\ RmAlone /\ LstatArgument => RmAlone'
<1> SUFFICES ASSUME RmInv, RmAlone, LstatArgument PROVE RmAlone'
  OBVIOUS
<1> DEFINE i == run.i
           r == RmSoFar[i - 1]
           a == Argument
<1>1. /\ cmd.util = "rm" /\ run.pc = "lstat" /\ Keeps /\ run.dirs = <<>>
  BY DEF LstatArgument, At
<1>2. /\ RmTypeOK /\ RmPlace /\ run \in RmRun /\ WellFormed(tree) /\ Len(cmd.args) \in Nat
      /\ i \in 1 .. Len(cmd.args) /\ a \in Path /\ i <= Len(cmd.args) + 1
      /\ i - 1 \in 0 .. Len(cmd.args) /\ a = cmd.args[i] /\ run.path = a
      /\ UNCHANGED <<tree, start, touched, cmd>> /\ Len(a) \in Nat /\ Len(run.dirs) = 0
  BY <1>1, RmIsAt DEF Keeps, RmPlace, Argument
<1>3. /\ r \in Result /\ RmSoFar[i] = RmArgument(r, a, cmd.flag)
  BY <1>2, RmSoFarIs
<1>4. touched = {} => r.tree = tree /\ r.code = 0
  BY <1>1 DEF RmAlone
<1>5. RmSoFar' = RmSoFar /\ WellFormed(tree)' /\ a' = a
    BY <1>2, <1>1 DEF RmSoFar, WellFormed, LstatArgument, Exits, Goto, RmRun, Argument
<1> HIDE DEF r, a, i
<1>6. CASE tree[a] = "none" \/ (IsDir(tree[a]) /\ ~ cmd.flag)
  <2>1. Exits(1)
    BY <1>2, <1>6 DEF LstatArgument, IsDir
  <2>2. ASSUME touched = {} PROVE RmReference = [tree |-> tree, code |-> 1]
    <3>1. RmSoFar[i] = Fail(r)
      BY <1>3, <1>4, <1>6, <2>2 DEF RmArgument
    <3>2. RmSoFar[i].code = 1 /\ RmSoFar[i].tree = tree
      BY <3>1, <1>3, <1>4, <2>2 DEF Fail, Result
    <3>3. i \in 0 .. Len(cmd.args)
      BY <1>2
    <3> QED BY <3>2, <3>3, <1>2, RmFailStays
  <2> QED BY <1>1, <2>1, <2>2, RmAloneExit
<1>7. CASE tree[a] # "none" /\ (IsDir(tree[a]) => cmd.flag)
  <2> DEFINE next == IF IsDir(tree[a]) THEN "opendir" ELSE "remove"
  <2>1. run' = [run EXCEPT !.pc = next]
    BY <1>2, <1>7 DEF LstatArgument, Goto
  <2>2. /\ run'.pc = next /\ run'.i = i /\ run'.dirs = run.dirs /\ run'.path = a
    BY <1>2, <2>1 DEF RmRun, i
  <2>3. Busy' /\ run'.dirs = <<>> /\ Len(run'.dirs) = 0
    BY <1>1, <1>2, <2>2 DEF Busy
  <2>4. ASSUME touched = {} PROVE RmBelow(r)'
    <3>1. r' = r
      BY <1>5, <2>2 DEF r, i
    <3>2. next = "remove" => ~ IsDir(tree[a])
      OBVIOUS
    <3>3. next = "opendir" => IsDir(tree[a])
      OBVIOUS
    <3>4. next # "rmdir" /\ next # "lstat"
      OBVIOUS
    <3> HIDE DEF next
    <3>5. Len(a) = Len(a) + Len(run'.dirs)
      BY <1>2, <2>3
    <3>6. \A k \in 1 .. Len(run'.dirs) : OpenRight(k)'
      BY <2>3
    <3>7. /\ r.code = 0 /\ r.tree = tree
      BY <1>4, <2>4
    <3> QED BY <3>1, <3>2, <3>3, <3>4, <3>5, <3>6, <3>7, <1>2, <1>5, <1>7, <2>2, <2>3
            DEF RmBelow, a
  <2>5. run'.pc \notin {"arg", "exit", "lstat"}
    BY <2>2
  <2>6. r' = RmSoFar[run.i - 1]'
    BY DEF r, i
  <2> HIDE DEF next
  <2> QED BY <2>2, <2>4, <2>5, <2>6, <1>2, <1>5 DEF RmAlone, r, i
<1> QED BY <1>6, <1>7

\* What rm does below its argument, step by step.
LEMMA RmBelowIs ==
  ASSUME RmInv, RmAlone, cmd.util = "rm", run.pc \notin {"arg", "exit"},
         run.pc = "lstat" => run.dirs # <<>>
  PROVE  /\ touched = {} => RmBelow(RmSoFar[run.i - 1])
         /\ RmSoFar[run.i - 1] \in Result
         /\ RmSoFar[run.i] = RmArgument(RmSoFar[run.i - 1], Argument, cmd.flag)
         /\ \A k \in 1 .. Len(run.dirs) : run.dirs[k].dir \in Path /\ Listed(run.dirs[k])
<1>1. /\ RmTypeOK /\ RmPlace /\ run.i \in 1 .. Len(cmd.args) /\ run.i - 1 \in 0 .. Len(cmd.args)
  BY RmIsAt
<1>2. /\ RmSoFar[run.i - 1] \in Result
      /\ RmSoFar[run.i] = RmArgument(RmSoFar[run.i - 1], Argument, cmd.flag)
  BY <1>1, RmSoFarIs DEF Argument
<1>3. \A k \in 1 .. Len(run.dirs) : run.dirs[k].dir \in Path /\ Listed(run.dirs[k])
  BY <1>1 DEF RmPlace, Listed, Under
<1> QED BY <1>2, <1>3 DEF RmAlone

\* A step below the argument that leaves the tree alone.
LEMMA RmAloneLooks ==
  ASSUME RmInv, RmAlone, cmd.util = "rm", run.pc \notin {"arg", "exit"}, Keeps,
         run'.i = run.i, run'.pc \notin {"arg", "exit", "lstat"} \/ run'.dirs # <<>>,
         run'.pc \notin {"arg", "exit"},
         touched = {} => RmBelow(RmSoFar[run.i - 1])'
  PROVE  RmAlone'
<1>1. WellFormed(tree)' /\ run.i <= Len(cmd.args) + 1
  BY RmIsAt DEF WellFormed, Keeps
<1> QED BY <1>1 DEF RmAlone, Keeps

\* lstat of an entry.
LEMMA RmAloneEntry == RmInv /\ RmAlone /\ LstatEntry => RmAlone'
<1> SUFFICES ASSUME RmInv, RmAlone, LstatEntry PROVE RmAlone'
  OBVIOUS
<1> DEFINE r == RmSoFar[run.i - 1]
           p == run.path
<1>1. /\ cmd.util = "rm" /\ run.pc = "lstat" /\ Keeps /\ run.dirs # <<>>
  BY DEF LstatEntry, At
<1>2. /\ run \in RmRun /\ run.i \in 1 .. Len(cmd.args) /\ p \in Path
      /\ RmTypeOK /\ run.i <= Len(cmd.args) + 1
      /\ UNCHANGED <<tree, start, touched, cmd>>
  BY <1>1, RmIsAt DEF Keeps
<1>3. touched = {} => RmBelow(r) /\ tree[p] # "none"
  BY <1>1, RmBelowIs DEF RmBelow
<1>4. ASSUME NEW next \in {"opendir", "remove"}, run' = [run EXCEPT !.pc = next],
             next = "opendir" => IsDir(tree[p]), next = "remove" => ~ IsDir(tree[p])
      PROVE  RmAlone'
  <2>1. run'.pc = next /\ run'.i = run.i /\ run'.dirs = run.dirs /\ run'.path = p
    BY <1>2, <1>4 DEF RmRun
  <2>2. Busy' /\ Busy /\ Argument' = Argument /\ r' = r
    BY <1>1, <1>2, <2>1 DEF Busy, Argument, RmSoFar
  <2>3. \A k : OpenRight(k) => OpenRight(k)'
    BY <1>2, <2>1, <2>2, OpenStays
  <2>4. ASSUME touched = {} PROVE RmBelow(r)'
    <3>1. RmBelow(r) /\ tree[p] # "none"
      BY <1>3, <2>4
    <3> HIDE DEF r, p
    <3>2. \A k \in 1 .. Len(run'.dirs) : OpenRight(k)'
      BY <3>1, <2>1, <2>3 DEF RmBelow
    <3>3. /\ Len(p) = Len(Argument) + Len(run.dirs)
          /\ run.dirs # <<>> => p \in run.dirs[Len(run.dirs)].seen
      BY <3>1, <2>2 DEF RmBelow, p
    <3> QED BY <3>1, <3>2, <3>3, <1>2, <1>4, <2>1, <2>2 DEF RmBelow
  <2>5. run'.pc \notin {"arg", "exit", "lstat"}
    BY <2>1
  <2> QED BY <1>1, <2>1, <2>4, <2>5, RmAloneLooks DEF r
<1>5. CASE IsDir(tree[p])
  <2>1. Goto("opendir")
    BY <1>5 DEF LstatEntry, IsDir
  <2> HIDE DEF p
  <2> QED BY <1>4, <1>5, <2>1 DEF Goto
<1>6. CASE ~ IsDir(tree[p]) /\ tree[p] # "none"
  <2>1. Goto("remove")
    BY <1>6 DEF LstatEntry
  <2> HIDE DEF p
  <2> QED BY <1>4, <1>6, <2>1 DEF Goto
<1>7. CASE tree[p] = "none"
  <2>1. Exits(1)
    BY <1>7 DEF LstatEntry, IsDir
  <2>2. touched # {}
    BY <1>3, <1>7
  <2> QED BY <1>1, <2>1, <2>2, RmAloneExit
<1> QED BY <1>5, <1>6, <1>7

\* opendir.
LEMMA RmAloneOpen == RmInv /\ RmAlone /\ RecursiveRemove => RmAlone'
<1> SUFFICES ASSUME RmInv, RmAlone, RecursiveRemove PROVE RmAlone'
  OBVIOUS
<1> DEFINE r == RmSoFar[run.i - 1]
           p == run.path
           n == Len(run.dirs)
           d == [dir |-> p, seen |-> {}, listed |-> Children(p)]
           dirs == run.dirs
           more == Append(dirs, d)
<1>1. /\ cmd.util = "rm" /\ run.pc = "opendir" /\ Keeps
  BY DEF RecursiveRemove, At
<1>2. /\ run \in RmRun /\ run.i \in 1 .. Len(cmd.args) /\ p \in Path
      /\ RmTypeOK /\ run.i <= Len(cmd.args) + 1 /\ n \in Nat /\ Len(Argument) \in Nat
      /\ UNCHANGED <<tree, start, touched, cmd>> /\ Len(p) \in Nat
  BY <1>1, RmIsAt, PathsAbove DEF Keeps
<1>3. touched = {} => RmBelow(r) /\ IsDir(tree[p])
  BY <1>1, RmBelowIs DEF RmBelow
<1>4. CASE ~ IsDir(tree[p])
  <2>1. Exits(1)
    BY <1>4 DEF RecursiveRemove
  <2>2. touched # {}
    BY <1>3, <1>4
  <2> QED BY <1>1, <2>1, <2>2, RmAloneExit
<1>5. CASE IsDir(tree[p])
  <2>1. run' = [run EXCEPT !.pc = "readdir", !.dirs = more]
    BY <1>5 DEF RecursiveRemove
  <2>2. d \in OpenDir /\ dirs \in Seq(OpenDir)
    BY <1>2 DEF OpenDir, Children, RmRun
  <2>3. /\ d.dir = p /\ d.seen = {} /\ d.listed = Children(p)
    OBVIOUS
  <2> HIDE DEF d
  <2>4. /\ Len(more) = n + 1 /\ more[n + 1] = d /\ \A k \in 1 .. n : more[k] = dirs[k]
    BY <2>2, AppendProperties
  <2> HIDE DEF more
  <2>5. run'.pc = "readdir" /\ run'.i = run.i /\ run'.dirs = more
    BY <1>2, <2>1 DEF RmRun
  <2>6. ~ Busy' /\ Busy /\ Argument' = Argument /\ r' = r /\ \A q : Children(q)' = Children(q)
    BY <1>1, <1>2, <2>5 DEF Busy, Argument, RmSoFar, Children
  <2>7. ASSUME touched = {} PROVE RmBelow(r)'
    <3>1. RmBelow(r)
      BY <1>3, <2>7
    <3> HIDE DEF r
    <3>2. /\ Len(p) = Len(Argument) + n
          /\ run.dirs # <<>> => p \in run.dirs[n].seen
      BY <3>1, <2>6 DEF RmBelow
    <3>3. ASSUME NEW k \in 1 .. n PROVE OpenRight(k)'
      <4>1. OpenRight(k)
        BY <3>1 DEF RmBelow
      <4>2. /\ more[k] = dirs[k] /\ run'.dirs[k] = dirs[k] /\ k < Len(run'.dirs) /\ Len(run'.dirs) = n + 1
        BY <2>4, <2>5, <1>2
      <4>3. CASE k = n
        <5>1. run'.dirs[k + 1].dir = p /\ p \in dirs[k].seen /\ ~ (k < n)
          <6>1. dirs # <<>>
            BY <4>3
          <6> QED BY <6>1, <4>3, <2>3, <2>4, <2>5, <3>2, <1>2
        <5> QED BY <4>1, <4>2, <4>3, <5>1, <1>2, <2>6 DEF OpenRight
      <4>4. CASE k # n
        <5>1. run'.dirs[k + 1] = dirs[k + 1] /\ k < n
          <6>1. k + 1 \in 1 .. n
            BY <4>4, <1>2
          <6> QED BY <6>1, <2>4, <2>5, <1>2
        <5> QED BY <4>1, <4>2, <4>4, <5>1, <1>2, <2>6 DEF OpenRight
      <4> QED BY <4>3, <4>4
    <3>4. ASSUME NEW m, m = n + 1 PROVE OpenRight(m)'
      <4>1. \A e \in Children(p) : Len(e) = Len(p) + 1 /\ tree[e] # "none"
        BY DEF Children
      <4>2. /\ run'.dirs[m] = d /\ ~ (m < Len(run'.dirs)) /\ Len(p) = Len(Argument) + m - 1
        BY <2>4, <2>5, <3>2, <3>4, <1>2
      <4> HIDE DEF n
      <4> QED BY <4>1, <4>2, <2>3, <2>6, <1>2, <1>5 DEF OpenRight
    <3>5. \A k \in 1 .. Len(run'.dirs) : OpenRight(k)'
      <4>1. Len(run'.dirs) = n + 1
        BY <2>4, <2>5
      <4>2. ASSUME NEW k \in 1 .. n + 1 PROVE OpenRight(k)'
        <5>1. CASE k = n + 1
          BY <5>1, <3>4
        <5>2. CASE k # n + 1
          <6>1. k \in 1 .. n
            BY <5>2, <1>2
          <6> QED BY <6>1, <3>3
        <5> QED BY <5>1, <5>2
      <4> QED BY <4>1, <4>2
    <3> QED BY <3>1, <3>5, <1>2, <2>5, <2>6 DEF RmBelow
  <2>8. run'.pc \notin {"arg", "exit", "lstat"}
    BY <2>5
  <2> QED BY <1>1, <2>5, <2>7, <2>8, RmAloneLooks DEF r
<1> QED BY <1>4, <1>5

\* readdir.
LEMMA RmAloneRead == RmInv /\ RmAlone /\ ReadDir => RmAlone'
<1> SUFFICES ASSUME RmInv, RmAlone, ReadDir PROVE RmAlone'
  OBVIOUS
<1> DEFINE r == RmSoFar[run.i - 1]
           dirs == run.dirs
           n == Len(dirs)
           d == Last(dirs)
           front == Front(dirs)
<1>1. /\ cmd.util = "rm" /\ run.pc = "readdir" /\ Keeps
  BY DEF ReadDir, At
<1>2. /\ run \in RmRun /\ run.i \in 1 .. Len(cmd.args) /\ RmTypeOK
      /\ run.i <= Len(cmd.args) + 1 /\ Len(Argument) \in Nat /\ dirs \in Seq(OpenDir)
      /\ dirs # <<>> /\ UNCHANGED <<tree, start, touched, cmd>>
  BY <1>1, RmIsAt DEF Keeps, RmPlace, RmRun
<1>3. /\ n \in Nat /\ n >= 1 /\ d \in OpenDir /\ d = dirs[n]
      /\ front \in Seq(OpenDir) /\ Len(front) = n - 1
      /\ \A k \in 1 .. n - 1 : front[k] = dirs[k]
  BY <1>2, FrontIs
<1>4. (touched = {} => RmBelow(r)) /\ n \in 1 .. n /\ ~ (n < n) /\ ~ Busy /\ d.dir \in Path
  <2>1. n \in 1 .. n /\ ~ (n < n) /\ ~ Busy
    BY <1>1, <1>3 DEF Busy
  <2>2. touched = {} => RmBelow(r)
    BY <1>1, RmBelowIs
  <2> QED BY <2>1, <2>2, <1>3 DEF OpenDir
<1>5. ASSUME touched = {}
      PROVE  /\ OpenRight(n) /\ Children(d.dir) \subseteq d.listed
             /\ \A e \in d.listed \ d.seen : tree[e] # "none"
             /\ \A e \in d.seen : tree[e] = "none"
             /\ \A e \in d.listed : Len(e) = Len(d.dir) + 1
             /\ Len(d.dir) = Len(Argument) + n - 1 /\ IsDir(tree[d.dir])
             /\ d.seen \subseteq d.listed
  <2>1. OpenRight(n)
    BY <1>4, <1>5 DEF RmBelow
  <2> HIDE DEF n
  <2> QED BY <2>1, <1>3, <1>4 DEF OpenRight, dirs, n
<1> HIDE DEF d, front
<1>6. ASSUME NEW e \in (d.listed \cup Children(d.dir)) \ d.seen,
             run' = [run EXCEPT !.pc = "lstat", !.path = e,
                       !.dirs = Append(front, [d EXCEPT !.seen = @ \cup {e}])]
      PROVE  RmAlone'
  <2> DEFINE c    == [d EXCEPT !.seen = @ \cup {e}]
             more == Append(front, c)
  <2>1. /\ c \in OpenDir /\ c.dir = d.dir /\ c.listed = d.listed /\ c.seen = d.seen \cup {e}
    <3>1. e \in Path
      BY <1>3, <1>6 DEF OpenDir, Children
    <3> QED BY <3>1, <1>3 DEF OpenDir
  <2> HIDE DEF c
  <2>2. /\ more \in Seq(OpenDir) /\ Len(more) = n
        /\ \A k \in 1 .. n - 1 : more[k] = dirs[k]
        /\ more[n] = c
    <3>1. /\ more \in Seq(OpenDir) /\ Len(more) = Len(front) + 1
          /\ \A k \in 1 .. Len(front) : more[k] = front[k]
          /\ more[Len(front) + 1] = c
      BY <1>3, <2>1, AppendProperties
    <3>2. Len(front) + 1 = n /\ Len(front) = n - 1
      BY <1>3
    <3> HIDE DEF more, n
    <3> QED BY <1>3, <3>1, <3>2
  <2>3. run' = [run EXCEPT !.pc = "lstat", !.path = e, !.dirs = more]
    BY <1>6 DEF c
  <2> HIDE DEF more
  <2>4. run'.pc = "lstat" /\ run'.i = run.i /\ run'.dirs = more /\ run'.path = e
    BY <1>2, <2>3 DEF RmRun
  <2>5. Busy' /\ Argument' = Argument /\ r' = r /\ \A q : Children(q)' = Children(q)
    BY <1>1, <1>2, <2>4 DEF Busy, Argument, RmSoFar, Children
  <2>6. more # <<>>
    <3>1. Len(more) # 0
      BY <2>2, <1>3
    <3> QED BY <3>1
  <2>7. ASSUME touched = {} PROVE RmBelow(r)'
    <3>1. RmBelow(r)
      BY <1>4, <2>7
    <3> HIDE DEF r
    <3>2. e \in d.listed /\ tree[e] # "none" /\ Len(e) = Len(Argument) + n
      BY <1>2, <1>3, <1>5, <1>6, <2>7
    <3>3. ASSUME NEW k \in 1 .. n - 1 PROVE OpenRight(k)'
      <4>1. OpenRight(k) /\ k \in 1 .. n
        BY <3>1, <1>3 DEF RmBelow
      <4>2. /\ more[k] = dirs[k] /\ run'.dirs[k] = run.dirs[k] /\ k # n /\ k < n
            /\ run'.dirs[k + 1].dir = run.dirs[k + 1].dir
            /\ Len(run'.dirs) = n /\ Len(run.dirs) = n
        <5>1. CASE k + 1 = n
          BY <5>1, <2>1, <2>2, <2>4, <1>3
        <5>2. CASE k + 1 # n
          <6>1. k + 1 \in 1 .. n - 1
            BY <5>2, <1>3
          <6> QED BY <6>1, <2>2, <2>4, <1>3
        <5> QED BY <5>1, <5>2
      <4> HIDE DEF n, dirs
      <4> QED BY <4>1, <4>2, <1>2, <2>5 DEF OpenRight
    <3>4. ASSUME NEW m, m = n PROVE OpenRight(m)'
      <4>1. run'.dirs[m] = c /\ Len(run'.dirs) = m /\ ~ (m < m) /\ Len(d.dir) = Len(Argument) + m - 1
        BY <3>4, <1>3, <1>5, <2>2, <2>4, <2>7
      <4>2. /\ \A x \in c.listed : Len(x) = Len(c.dir) + 1
            /\ c.seen \subseteq c.listed /\ Children(c.dir) \subseteq c.listed
            /\ \A x \in c.listed \ c.seen : tree[x] # "none"
            /\ \A x \in c.seen : tree[x] = "none" \/ x = e
            /\ IsDir(tree[c.dir])
        BY <1>5, <2>1, <2>7, <3>2
      <4> HIDE DEF n, dirs
      <4> QED BY <4>1, <4>2, <1>2, <2>1, <2>4, <2>5 DEF OpenRight
    <3>5. ASSUME NEW k \in 1 .. Len(run'.dirs) PROVE OpenRight(k)'
      <4>1. CASE k = n
        BY <4>1, <3>4
      <4>2. CASE k # n
        <5>1. k \in 1 .. n - 1
          BY <4>2, <3>5, <2>2, <2>4, <1>3
        <5> QED BY <5>1, <3>3
      <4> QED BY <4>1, <4>2
    <3>6. Len(run'.dirs) = n /\ run'.path \in run'.dirs[Len(run'.dirs)].seen
      BY <2>1, <2>2, <2>4
    <3> QED BY <3>1, <3>2, <3>5, <3>6, <1>2, <2>4, <2>5 DEF RmBelow
  <2> QED BY <1>1, <2>4, <2>6, <2>7, RmAloneLooks DEF r
<1>7. ASSUME d.listed \subseteq d.seen,
             run' = [run EXCEPT !.pc = "rmdir", !.path = d.dir, !.dirs = front]
      PROVE  RmAlone'
  <2> DEFINE p == d.dir
  <2>1. run'.pc = "rmdir" /\ run'.i = run.i /\ run'.dirs = front /\ run'.path = p
    BY <1>2, <1>7 DEF RmRun
  <2>2. Busy' /\ Argument' = Argument /\ r' = r /\ \A q : Children(q)' = Children(q)
    BY <1>1, <1>2, <2>1 DEF Busy, Argument, RmSoFar, Children
  <2>3. ASSUME touched = {} PROVE RmBelow(r)'
    <3>1. RmBelow(r)
      BY <1>4, <2>3
    <3> HIDE DEF r
    <3>2. /\ IsDir(tree[p]) /\ Len(p) = Len(Argument) + Len(front)
          /\ \A k \in 1 .. n : OpenRight(k)
      BY <1>2, <1>3, <1>5, <2>3, <3>1 DEF RmBelow
    <3>3. Children(p) = {}
      BY <1>5, <1>7, <2>3 DEF Children
    <3>4. ASSUME NEW k \in 1 .. n - 1
          PROVE  OpenRight(k)' /\ (k = n - 1 => p \in front[k].seen)
      <4>1. OpenRight(k)
        BY <3>2, <1>3
      <4>2. /\ front[k] = dirs[k] /\ run'.dirs[k] = run.dirs[k] /\ k < n
            /\ Len(run'.dirs) = n - 1 /\ Len(run.dirs) = n /\ k # n
        BY <1>3, <2>1
      <4>3. CASE k = n - 1
        <5>1. run.dirs[k + 1].dir = p /\ ~ (k < n - 1)
          BY <4>3, <1>3
        <5> HIDE DEF n, dirs, p
        <5>2. run.dirs[k + 1].dir \in run.dirs[k].seen
          BY <4>1, <4>2 DEF OpenRight
        <5> QED BY <4>1, <4>2, <4>3, <5>1, <5>2, <1>2, <2>1, <2>2 DEF OpenRight, dirs
      <4>4. CASE k # n - 1
        <5>1. run'.dirs[k + 1] = run.dirs[k + 1] /\ k < n - 1
          <6>1. k + 1 \in 1 .. n - 1 /\ k < n - 1
            BY <4>4, <1>3
          <6> QED BY <6>1, <1>3, <2>1
        <5> HIDE DEF n, dirs, p
        <5> QED BY <4>1, <4>2, <4>4, <5>1, <1>2, <2>1, <2>2 DEF OpenRight
      <4> QED BY <4>3, <4>4
    <3>5. \A k \in 1 .. Len(run'.dirs) : OpenRight(k)'
      <4>1. ASSUME NEW k \in 1 .. Len(run'.dirs) PROVE OpenRight(k)'
        <5>1. k \in 1 .. n - 1
          BY <1>3, <2>1
        <5> QED BY <5>1, <3>4
      <4> QED BY <4>1
    <3>6. ASSUME front # <<>> PROVE p \in front[Len(front)].seen
      <4>1. Len(front) # 0
        BY <3>6, <1>3, EmptySeq
      <4>2. n \in Nat /\ n >= 1 /\ Len(front) = n - 1
        BY <1>3
      <4> HIDE DEF n
      <4>3. Len(front) \in 1 .. n - 1
        BY <4>1, <4>2
      <4> QED BY <4>2, <4>3, <3>4
    <3> HIDE DEF p, n, dirs
    <3> QED BY <3>1, <3>2, <3>3, <3>5, <3>6, <1>2, <2>1, <2>2 DEF RmBelow
  <2>4. run'.pc \notin {"arg", "exit", "lstat"}
    BY <2>1
  <2> QED BY <1>1, <2>1, <2>3, <2>4, RmAloneLooks DEF r
<1> QED BY <1>6, <1>7 DEF ReadDir, d, front, dirs

\* Taking away what has nothing below it leaves a tree.
LEMMA WithoutIsTree ==
  ASSUME WellFormed(tree), tree \in [Path -> Kind], NEW p \in Path, Children(p) = {},
         tree' = [tree EXCEPT ![p] = "none"]
  PROVE  WellFormed(tree)'
<1>1. tree'[p] = "none" /\ \A q \in Path : q # p => tree'[q] = tree[q]
  OBVIOUS
<1>2. ASSUME NEW q \in Path, tree'[q] # "none", Len(q) > 1 PROVE IsDir(tree'[Above(q)])
  <2>1. tree[q] # "none" /\ IsDir(tree[Above(q)])
    BY <1>1, <1>2 DEF WellFormed
  <2>2. Above(q) \in Path /\ IsPrefix(Above(q), q) /\ Len(q) = Len(Above(q)) + 1
    BY <1>2, AboveIs
  <2>3. Above(q) # p
    BY <2>1, <2>2 DEF Children
  <2> QED BY <2>1, <2>2, <2>3, <1>1
<1> QED BY <1>2 DEF WellFormed

\* rmdir or remove.
LEMMA RmAloneRemove == RmInv /\ RmAlone /\ (Rmdir \/ RemoveFile) => RmAlone'
<1> SUFFICES ASSUME RmInv, RmAlone, Rmdir \/ RemoveFile PROVE RmAlone'
  OBVIOUS
<1> DEFINE i == run.i
           r == RmSoFar[i - 1]
           p == run.path
           dirs == run.dirs
           n == Len(dirs)
           a == Argument
<1>1. /\ cmd.util = "rm" /\ run.pc \in {"rmdir", "remove"} /\ UNCHANGED <<start, touched, cmd>>
  BY DEF Rmdir, RemoveFile, At
<1>2. /\ run \in RmRun /\ i \in 1 .. Len(cmd.args) /\ RmTypeOK /\ RmPlace /\ WellFormed(tree)
      /\ tree \in [Path -> Kind] /\ Len(a) \in Nat /\ p \in Path /\ Under(p)
      /\ n \in Nat /\ Len(cmd.args) \in Nat /\ a \in Path /\ i \in Nat
      /\ dirs = <<>> => p = a
      /\ \A k \in 1 .. n : dirs[k].dir \in Path /\ Listed(dirs[k])
  BY <1>1, RmIsAt, RmBelowIs DEF RmPlace, RmTypeOK
<1>3. /\ touched = {} => RmBelow(r)
      /\ r \in Result /\ RmSoFar[i] = RmArgument(r, a, cmd.flag)
  BY <1>1, RmBelowIs
<1>4. ASSUME Exits(1), UNCHANGED tree,
             \/ run.pc = "rmdir" /\ ~ (IsDir(tree[p]) /\ Children(p) = {})
             \/ run.pc = "remove" /\ ~ (tree[p] # "none" /\ Children(p) = {})
      PROVE  RmAlone'
  <2>1. ASSUME touched = {} PROVE FALSE
    <3>1. RmBelow(r)
      BY <1>3, <2>1
    <3> HIDE DEF r
    <3>2. /\ run.pc = "rmdir" => IsDir(tree[p]) /\ Children(p) = {}
          /\ run.pc = "remove" => tree[p] # "none" /\ ~ IsDir(tree[p])
      BY <3>1 DEF RmBelow
    <3>3. ASSUME run.pc = "remove", NEW q \in Children(p) PROVE FALSE
      <4>1. q \in Path /\ Len(q) = Len(p) + 1 /\ IsPrefix(p, q) /\ tree[q] # "none"
        BY <3>3 DEF Children
      <4>2. Above(q) = p /\ Len(q) > 1
        BY <4>1, <1>2, AboveIs
      <4> QED BY <4>1, <4>2, <3>2, <3>3, <1>2 DEF WellFormed
    <3> QED BY <3>2, <3>3, <1>1, <1>4
  <2> QED BY <1>1, <1>4, <2>1, RmAloneExit DEF Keeps
<1>5. ASSUME tree' = [tree EXCEPT ![p] = "none"], Children(p) = {}, Continue
      PROVE  RmAlone'
  <2>1. /\ tree' \in [Path -> Kind] /\ tree'[p] = "none"
        /\ \A q \in Path : q # p => tree'[q] = tree[q]
    BY <1>2, <1>5 DEF Kind
  <2>2. WellFormed(tree)'
    BY <1>2, <1>5, WithoutIsTree
  <2>3. \A q \in Path : Children(q)' \subseteq Children(q)
    BY <2>1 DEF Children
  <2>4. RmSoFar' = RmSoFar
    BY <1>1 DEF RmSoFar
  <2>5. CASE dirs = <<>>
    <3>1. run' = [run EXCEPT !.pc = "arg", !.i = @ + 1]
      BY <1>5, <2>5 DEF Continue
    <3>2. run'.pc = "arg" /\ run'.i = i + 1 /\ run'.i <= Len(cmd.args) + 1
          /\ run'.i - 1 = i
      BY <1>2, <3>1 DEF RmRun
    <3>3. ASSUME touched = {} PROVE RmSoFar[i].tree = tree' /\ RmSoFar[i].code = 0
      <4>1. /\ r.code = 0 /\ r.tree[a] # "none" /\ (IsDir(r.tree[a]) => cmd.flag)
            /\ \A q \in Path : ~ IsPrefix(a, q) => tree[q] = r.tree[q]
        BY <1>3, <3>3 DEF RmBelow
      <4>2. r.tree \in [Path -> Kind] /\ r.code = 0
        BY <1>3, <4>1 DEF Result
      <4> DEFINE u == [q \in Path |-> IF IsPrefix(a, q) THEN "none" ELSE r.tree[q]]
      <4>3. RmSoFar[i] = [r EXCEPT !.tree = u]
        BY <1>3, <4>1 DEF RmArgument
      <4>4. RmSoFar[i].tree = u /\ RmSoFar[i].code = 0
        <5> HIDE DEF u
        <5> QED BY <1>3, <4>2, <4>3 DEF Result
      <4>5. ASSUME NEW q \in Path PROVE tree'[q] = u[q]
        <5>1. CASE IsPrefix(a, q)
          <6> DEFINE t == tree'
          <6>1. WellFormed(t) /\ t[a] = "none"
            BY <1>2, <2>1, <2>2, <2>5 DEF WellFormed
          <6> HIDE DEF t
          <6>2. t[q] = "none"
            BY <6>1, <5>1, <1>2, BelowIsGone
          <6> QED BY <6>2, <5>1 DEF t
        <5>2. CASE ~ IsPrefix(a, q)
          <6>1. q # p
            BY <5>2, <1>2 DEF Under
          <6> QED BY <6>1, <5>2, <2>1, <4>1
        <5> QED BY <5>1, <5>2
      <4>6. u \in [Path -> Kind]
        BY <4>2 DEF Kind
      <4> HIDE DEF u
      <4>7. tree' = u
        BY <4>5, <4>6, <2>1
      <4> QED BY <4>4, <4>7
    <3> HIDE DEF i
    <3> QED BY <1>1, <2>2, <2>4, <3>2, <3>3 DEF RmAlone
  <2>6. CASE dirs # <<>>
    <3>1. run' = [run EXCEPT !.pc = "readdir"]
      BY <1>5, <2>6 DEF Continue
    <3>2. run'.pc = "readdir" /\ run'.i = i /\ run'.dirs = dirs /\ run'.path = p
      BY <1>2, <3>1 DEF RmRun
    <3>3. ~ Busy' /\ Busy /\ Argument' = Argument /\ r' = r
      BY <1>1, <2>4, <3>2 DEF Busy, Argument
    <3>4. ASSUME touched = {} PROVE RmBelow(r)'
      <4>1. RmBelow(r)
        BY <1>3, <3>4
      <4> HIDE DEF r
      <4>2. Len(p) = Len(a) + n /\ p \in dirs[n].seen /\ n >= 1
        <5>1. n # 0
          BY <2>6, <1>2, EmptySeq DEF RmRun
        <5> QED BY <5>1, <4>1, <3>3, <2>6, <1>2 DEF RmBelow
      <4>3. \A q \in Path : ~ IsPrefix(a, q) => tree'[q] = r.tree[q]
        BY <4>1, <2>1, <1>2 DEF RmBelow, Under
      <4>4. ASSUME NEW k \in 1 .. n PROVE OpenRight(k)'
        <5> SUFFICES ASSUME NEW d, d = dirs[k] PROVE OpenRight(k)'
          OBVIOUS
        <5>1. /\ OpenRight(k) /\ d.dir \in Path /\ Listed(d) /\ k \in Nat
          BY <4>1, <1>2 DEF RmBelow
        <5>2. /\ Len(d.dir) = Len(a) + k - 1 /\ IsDir(tree[d.dir])
              /\ \A e \in d.listed : Len(e) = Len(d.dir) + 1
              /\ k < n => dirs[k + 1].dir \in d.seen
              /\ d.seen \subseteq d.listed /\ Children(d.dir) \subseteq d.listed
              /\ \A e \in d.listed \ d.seen : tree[e] # "none"
              /\ \A e \in d.seen : \/ tree[e] = "none"
                                   \/ k < n /\ e = dirs[k + 1].dir
                                   \/ k = n /\ e = p
              /\ d.listed \subseteq Path
          BY <5>1 DEF OpenRight, Listed, Under
        <5>3. d.dir # p
          BY <5>2, <4>2, <1>2, <5>1
        <5>4. IsDir(tree'[d.dir])
          BY <5>1, <5>2, <5>3, <2>1
        <5>5. ASSUME NEW e \in d.listed \ d.seen PROVE tree'[e] # "none"
          <6>1. e # p
            <7>1. CASE k = n
              BY <7>1, <4>2, <5>5
            <7>2. CASE k # n
              <8>1. Len(e) = Len(a) + k - 1 + 1 /\ k < n
                BY <7>2, <5>2, <5>5, <5>1, <1>2
              <8> QED BY <8>1, <4>2, <1>2, <5>1
            <7> QED BY <7>1, <7>2
          <6> QED BY <6>1, <5>2, <5>5, <2>1
        <5>6. ASSUME NEW e \in d.seen PROVE tree'[e] = "none" \/ (k < n /\ e = dirs[k + 1].dir)
          BY <5>2, <5>6, <2>1
        <5>7. Children(d.dir)' \subseteq d.listed
          BY <5>1, <5>2, <2>3
        <5>8. run'.dirs = dirs /\ Len(run'.dirs) = n /\ run'.dirs[k] = d /\ Argument' = a
          BY <3>2, <3>3
        <5>9. /\ k < n => run'.dirs[k + 1].dir \in d.seen
              /\ Len(d.dir) = Len(a) + k - 1
          BY <3>2, <5>2
        <5>10. ASSUME NEW e \in d.seen
               PROVE  tree'[e] = "none" \/ (k < n /\ e = run'.dirs[k + 1].dir)
          BY <5>6, <5>10, <3>2
        <5> HIDE DEF dirs, n, a
        <5> QED BY <5>2, <5>4, <5>5, <5>7, <5>8, <5>9, <5>10 DEF OpenRight
      <4>5. \A k \in 1 .. Len(run'.dirs) : OpenRight(k)'
        <5>1. Len(run'.dirs) = n
          BY <3>2
        <5> QED BY <4>4, <5>1
      <4> QED BY <4>1, <4>3, <4>5, <1>1, <3>2, <3>3 DEF RmBelow
    <3>5. run'.pc \notin {"arg", "exit", "lstat"} /\ run'.i <= Len(cmd.args) + 1
      BY <1>2, <3>2
    <3>6. r' = RmSoFar[run.i - 1]'
      OBVIOUS
    <3> QED BY <1>1, <2>2, <3>4, <3>5, <3>6 DEF RmAlone
  <2> QED BY <2>5, <2>6
<1> QED BY <1>1, <1>4, <1>5 DEF Rmdir, RemoveFile, At

LEMMA RmAloneNextInv == RmInv /\ RmAlone /\ [FsNext]_fsVars => RmAlone'
<1> SUFFICES ASSUME RmInv, RmAlone, [FsNext]_fsVars PROVE RmAlone'
  OBVIOUS
<1>1. CASE UNCHANGED fsVars
  <2>1. UNCHANGED <<tree, start, touched, cmd, run>>
    BY <1>1 DEF fsVars
  <2>2. /\ RmSoFar' = RmSoFar /\ RmReference' = RmReference /\ Argument' = Argument
        /\ Busy' = Busy /\ WellFormed(tree)' = WellFormed(tree)
    BY <2>1 DEF RmSoFar, RmReference, Argument, Busy, WellFormed
  <2>3. \A p : Children(p)' = Children(p)
    BY <2>1 DEF Children
  <2>4. \A k : OpenRight(k)' = OpenRight(k)
    BY <2>1, <2>2, <2>3 DEF OpenRight
  <2>5. \A r : RmBelow(r)' = RmBelow(r)
    BY <2>1, <2>2, <2>3, <2>4 DEF RmBelow
  <2> QED BY <2>1, <2>2, <2>5 DEF RmAlone
<1>2. CASE RmUsage \/ RmNext \/ LstatArgument \/ LstatEntry
  BY <1>2, RmAloneNext, RmAloneArgument, RmAloneEntry
<1>3. CASE RecursiveRemove \/ ReadDir \/ Rmdir \/ RemoveFile
  BY <1>3, RmAloneOpen, RmAloneRead, RmAloneRemove
<1>4. CASE MkdirOptions \/ MkdirNext \/ MkdirPlain \/ CreateParents \/ CreateLast
  <2>1. cmd.util = "mkdir" /\ cmd' = cmd
    BY <1>4 DEF MkdirOptions, MkdirNext, MkdirPlain, CreateParents, CreateLast, At, Keeps
  <2> QED BY <2>1 DEF RmAlone
<1>5. ASSUME NEW p \in Path, NEW kind \in {"none", "file", "dir"}, Touch(p, kind)
      PROVE  RmAlone'
  <2>1. WellFormed(tree)' /\ touched' # {} /\ UNCHANGED <<cmd, run>>
    BY <1>5 DEF Touch, WellFormed
  <2> QED BY <2>1 DEF RmAlone
<1> QED BY <1>1, <1>2, <1>3, <1>4, <1>5 DEF FsNext

\* rm removes nothing but its arguments and what is below them; if it reports
\* success they are gone, whatever others do meanwhile; and alone in the tree
\* it does just what one after the other of its arguments asks for (rm.c).
THEOREM RmDoesWhatIsAsked == FsSpec => []RmRemoves
<1>1. FsSpec => [](RmInv /\ RmAlone)
  BY RmInitInv, RmAloneInit, RmNextInv, RmAloneNextInv, PTL DEF FsSpec
<1>2. RmAlone => (cmd.util = "rm" /\ run.pc = "exit" /\ touched = {} =>
                    RmReference = [tree |-> tree, code |-> run.code])
  BY DEF RmAlone
<1>3. RmAlone /\ (cmd.util = "rm" => OnlyArguments /\ SuccessIsGone) => RmRemoves
  BY <1>2 DEF RmRemoves
<1> QED BY <1>1, <1>3, RmSafety, PTL

----------------------------------------------------------------------------
(* mkdir *)

\* A step of the recursion that Names is: the names of the first i elements.
NamesBy(f, s) ==
    /\ f \in [0 .. Len(s) -> Paths] /\ f[0] = <<>>
    /\ \A i \in 1 .. Len(s) :
          f[i] = IF s[i] = "/" THEN f[i - 1] ELSE Append(f[i - 1], s[i])

LEMMA NamesAre ==
  ASSUME NEW s \in Paths
  PROVE  \E f : NamesBy(f, s) /\ Names(s) = f[Len(s)]
<1> DEFINE n == Len(s)
           S == Paths
           step(i, a) == IF s[i] = "/" THEN a ELSE Append(a, s[i])
           names == CHOOSE f : f = [i \in 0 .. n |-> IF i = 0 THEN <<>>
                                                     ELSE IF s[i] = "/" THEN f[i - 1]
                                                     ELSE Append(f[i - 1], s[i])]
<1>0. n \in Nat /\ <<>> \in S /\ \A i \in 1 .. n : s[i] \in STRING
  BY LenProperties, ElementOfSeq, EmptySeq DEF Paths
<1>1. \A i \in 1 .. n, a \in S : step(i, a) \in S
  BY <1>0, AppendProperties DEF Paths
<1>2. \E f \in [0 .. n -> S] :
         f = [i \in 0 .. n |-> IF i = 0 THEN <<>>
                               ELSE IF s[i] = "/" THEN f[i - 1] ELSE Append(f[i - 1], s[i])]
  <2> HIDE DEF step, S, n
  <2> DEFINE G == [i \in 1 .. n |-> [a \in S |-> step(i, a)]]
             origin == <<>>
  <2>1. G \in [1 .. n -> [S -> S]] /\ origin \in S /\ n \in Nat
    BY <1>0, <1>1
  <2>2. \A i \in 1 .. n, a \in S : G[i][a] = step(i, a)
    OBVIOUS
  <2> HIDE DEF G, origin
  <2>3. PICK f \in [0 .. n -> S] : f[0] = origin /\ \A i \in 1 .. n : f[i] = G[i][f[i - 1]]
    BY <2>1, RecursionHasValue, SMTT(60)
  <2>4. \A i \in 0 .. n : f[i] = IF i = 0 THEN <<>>
                                 ELSE IF s[i] = "/" THEN f[i - 1] ELSE Append(f[i - 1], s[i])
    <3> TAKE i \in 0 .. n
    <3>1. CASE i = 0
      BY <3>1, <2>3 DEF origin
    <3>2. CASE i # 0
      <4>1. i \in 1 .. n /\ i - 1 \in 0 .. n
        BY <3>2, <2>1
      <4>2. f[i - 1] \in S /\ f[i] = G[i][f[i - 1]]
        BY <4>1, <2>3
      <4> QED BY <4>1, <4>2, <3>2, <2>2 DEF step
    <3> QED BY <3>1, <3>2
  <2>5. f = [i \in 0 .. n |-> IF i = 0 THEN <<>>
                              ELSE IF s[i] = "/" THEN f[i - 1] ELSE Append(f[i - 1], s[i])]
    BY <2>3, <2>4
  <2> QED BY <2>3, <2>5
<1>3. names \in [0 .. n -> S]
      /\ names = [i \in 0 .. n |-> IF i = 0 THEN <<>>
                                   ELSE IF s[i] = "/" THEN names[i - 1]
                                   ELSE Append(names[i - 1], s[i])]
  <2>1. PICK f \in [0 .. n -> S] :
           f = [i \in 0 .. n |-> IF i = 0 THEN <<>>
                                 ELSE IF s[i] = "/" THEN f[i - 1] ELSE Append(f[i - 1], s[i])]
    BY <1>2
  <2>2. names = [i \in 0 .. n |-> IF i = 0 THEN <<>>
                                  ELSE IF s[i] = "/" THEN names[i - 1]
                                  ELSE Append(names[i - 1], s[i])]
    BY <2>1
  <2> HIDE DEF names
  <2>3. names[0] = <<>> /\ f[0] = <<>>
    BY <1>0, <2>1, <2>2
  <2>4. \A i \in 1 .. n : /\ i \in 0 .. n /\ i # 0 /\ i - 1 \in 0 .. n
    BY <1>0
  <2>5. ASSUME NEW i \in 1 .. n
        PROVE  /\ names[i] = IF s[i] = "/" THEN names[i - 1] ELSE Append(names[i - 1], s[i])
               /\ f[i] = IF s[i] = "/" THEN f[i - 1] ELSE Append(f[i - 1], s[i])
    BY <2>1, <2>2, <2>4
  <2> DEFINE K == {i \in 0 .. n : names[i] # f[i]}
  <2>6. ASSUME K # {} PROVE FALSE
    <3>1. PICK m \in K : \A k \in K : m <= k
      <4>1. K \in SUBSET Nat
        OBVIOUS
      <4> HIDE DEF K
      <4> QED BY <4>1, <2>6, MinIsLeast
    <3>2. m # 0
      BY <3>1, <2>3
    <3>3. m \in 1 .. n /\ m - 1 \in 0 .. n /\ ~ (m <= m - 1)
      BY <3>1, <3>2, <1>0
    <3>4. names[m - 1] = f[m - 1]
      BY <3>1, <3>3
    <3> QED BY <3>1, <3>3, <3>4, <2>5
  <2>7. \A i \in 0 .. n : names[i] \in S
    BY <2>6, <2>1
  <2> QED BY <2>2, <2>7
<1>4. Names(s) = names[n]
  BY DEF Names, names, n
<1> HIDE DEF names
<1>5. NamesBy(names, s)
  <2>1. \A i \in 0 .. n : names[i] = IF i = 0 THEN <<>>
                                     ELSE IF s[i] = "/" THEN names[i - 1]
                                     ELSE Append(names[i - 1], s[i])
    BY <1>3
  <2>2. 0 \in 0 .. n /\ \A i \in 1 .. n : i \in 0 .. n /\ i # 0
    BY <1>0
  <2> QED BY <2>1, <2>2, <1>3 DEF NamesBy
<1> QED BY <1>4, <1>5

\* What is in front of another part of a text has names that begin with those
\* of the first.
LEMMA NamesGrow ==
  ASSUME NEW s \in Paths, NEW f, NamesBy(f, s), NEW m \in 0 .. Len(s)
  PROVE  f[m] \in Paths /\ f[Len(s)] \in Paths /\ IsPrefix(f[m], f[Len(s)])
<1>0. Len(s) \in Nat /\ \A i \in 1 .. Len(s) : s[i] \in STRING
  BY LenProperties, ElementOfSeq DEF Paths
<1>1. \A i \in 0 .. Len(s) : f[i] \in Paths
  BY DEF NamesBy
<1> DEFINE K == {i \in m .. Len(s) : ~ IsPrefix(f[m], f[i])}
<1>2. ASSUME K # {} PROVE FALSE
  <2>1. PICK k \in K : \A i \in K : k <= i
    <3>1. K \in SUBSET Nat
      OBVIOUS
    <3> HIDE DEF K
    <3> QED BY <3>1, <1>2, MinIsLeast
  <2>2. k # m
    BY <2>1, <1>1, PrefixOfPrefix
  <2>3. k - 1 \in m .. Len(s) /\ k \in 1 .. Len(s) /\ ~ (k <= k - 1) /\ k - 1 \in 0 .. Len(s)
    BY <2>1, <2>2, <1>0
  <2>4. IsPrefix(f[m], f[k - 1])
    BY <2>1, <2>3
  <2> DEFINE a == f[k - 1]
             x == s[k]
             b == Append(a, x)
  <2>5. a \in Paths /\ x \in STRING /\ f[k] = IF x = "/" THEN a ELSE b
    BY <2>3, <1>0, <1>1 DEF NamesBy
  <2> HIDE DEF a, x
  <2>6. /\ b \in Paths /\ Len(b) = Len(a) + 1 /\ Len(a) \in Nat
        /\ \A i \in 1 .. Len(a) : b[i] = a[i]
    BY <2>5, AppendProperties, LenProperties DEF Paths
  <2>7. IsPrefix(a, b)
    <3> HIDE DEF b
    <3> QED BY <2>5, <2>6, PrefixIs
  <2> HIDE DEF b
  <2>8. IsPrefix(f[m], f[k])
    <3>1. f[m] \in Paths /\ IsPrefix(f[m], a)
      BY <1>1, <2>4 DEF a
    <3>2. IsPrefix(f[m], b)
      BY <3>1, <2>5, <2>6, <2>7, PrefixOfPrefix
    <3> QED BY <3>1, <3>2, <2>5
  <2> QED BY <2>1, <2>8
<1>3. Len(s) \in m .. Len(s) /\ Len(s) \in 0 .. Len(s)
  BY <1>0
<1> QED BY <1>1, <1>2, <1>3

\* The names of the first m elements of a text, by the recursion that Names is.
LEMMA NamesOfParts ==
  ASSUME NEW s \in Paths
  PROVE  \E f : /\ NamesBy(f, s)
                /\ \A m \in 0 .. Len(s) : Names(SubSeq(s, 1, m)) = f[m]
                /\ Names(s) = f[Len(s)]
<1>0. Len(s) \in Nat
  BY LenProperties DEF Paths
<1>1. PICK f : NamesBy(f, s) /\ Names(s) = f[Len(s)]
  BY NamesAre
<1>2. ASSUME NEW m \in 0 .. Len(s) PROVE Names(SubSeq(s, 1, m)) = f[m]
  <2> DEFINE t == SubSeq(s, 1, m)
  <2>1. t \in Paths /\ Len(t) = m /\ \A i \in 1 .. m : t[i] = s[i]
    BY PartsAre
  <2> HIDE DEF t
  <2>2. PICK g : NamesBy(g, t) /\ Names(t) = g[m]
    BY <2>1, NamesAre
  <2> DEFINE P == {i \in 0 .. m : g[i] = f[i]}
  <2>3. 0 \in P
    BY <1>1, <2>2 DEF NamesBy
  <2>4. ASSUME NEW i \in 0 .. m - 1, i \in P PROVE i + 1 \in P
    <3>1. i + 1 \in 1 .. m /\ i + 1 \in 1 .. Len(s) /\ i + 1 \in 0 .. m /\ i + 1 - 1 = i
      BY <1>0
    <3>2. g[i + 1] = IF t[i + 1] = "/" THEN g[i] ELSE Append(g[i], t[i + 1])
      BY <3>1, <2>1, <2>2 DEF NamesBy
    <3>3. f[i + 1] = IF s[i + 1] = "/" THEN f[i] ELSE Append(f[i], s[i + 1])
      BY <3>1, <1>1 DEF NamesBy
    <3>4. g[i] = f[i] /\ t[i + 1] = s[i + 1]
      BY <2>4, <3>1, <2>1
    <3> QED BY <3>1, <3>2, <3>3, <3>4
  <2>5. \A i \in 0 .. m : i \in P
    <3> HIDE DEF P
    <3> QED BY <1>0, <2>3, <2>4, StepByStep
  <2>6. m \in 0 .. m
    BY <1>0
  <2>7. g[m] = f[m]
    BY <2>5, <2>6
  <2> QED BY <2>2, <2>7 DEF t
<1> QED BY <1>1, <1>2

\* The text before a slash names something above what the whole text names.
LEMMA NamesOfPart ==
  ASSUME NEW s \in Paths, NEW m \in 0 .. Len(s)
  PROVE  /\ Names(SubSeq(s, 1, m)) \in Paths
         /\ IsPrefix(Names(SubSeq(s, 1, m)), Names(s))
<1>1. PICK f : /\ NamesBy(f, s) /\ Names(s) = f[Len(s)]
               /\ \A i \in 0 .. Len(s) : Names(SubSeq(s, 1, i)) = f[i]
  BY NamesOfParts
<1>2. f[m] \in Paths /\ IsPrefix(f[m], f[Len(s)])
  BY <1>1, NamesGrow
<1> QED BY <1>1, <1>2

MkdirRun == [pc : {"arg", "parent", "mkdir", "exit"}, i : Nat \ {0}, path : Paths,
             at : Nat, dirs : {<<>>}, code : {0, 1}]

MkdirTypeOK == /\ cmd \in Commands /\ cmd.util = "mkdir"
               /\ tree \in [Path -> Kind] /\ start \in [Path -> Kind]
               /\ touched \subseteq Path /\ run \in MkdirRun

\* mkdir works on its argument, with a mode.
MkdirPlace ==
    run.pc \in {"parent", "mkdir"} =>
        run.i \in 1 .. Len(cmd.args) /\ run.path = Argument /\ cmd.mode # "invalid"

\* The arguments that were worked on are there, and what is above them.
MkdirDone ==
    /\ \A j \in 1 .. Len(cmd.args) : j < run.i =>
          \A p \in NonemptyPrefixes(Names(cmd.args[j])) : tree[p] # "none" \/ p \in touched
    /\ run.pc = "exit" /\ run.code = 0 => run.i > Len(cmd.args)

MkdirInv ==
    cmd.util = "mkdir" =>
        MkdirTypeOK /\ WellFormed(tree) /\ MkdirPlace /\ MkdirDone /\ MakesOnlyWanted

\* The arguments of mkdir.
LEMMA MkdirArgsAre ==
  ASSUME MkdirTypeOK
  PROVE  /\ Len(cmd.args) \in Nat /\ DOMAIN cmd.args = 1 .. Len(cmd.args)
         /\ cmd.mode \in {"dir", "moded", "invalid"} /\ Path \subseteq Paths
         /\ \A j \in 1 .. Len(cmd.args) :
               /\ cmd.args[j] \in Paths /\ Names(cmd.args[j]) \in Paths
               /\ NonemptyPrefixes(Names(cmd.args[j])) \subseteq Path
               /\ NonemptyPrefixes(Names(cmd.args[j])) \subseteq Wanted
<1>1. /\ cmd.args \in Seq(Paths) /\ Path \subseteq Paths
      /\ cmd.mode \in {"dir", "moded", "invalid"}
      /\ \A j \in DOMAIN cmd.args : NonemptyPrefixes(Names(cmd.args[j])) \subseteq Path
  BY FsAssumption DEF MkdirTypeOK, Paths
<1>2. /\ Len(cmd.args) \in Nat /\ DOMAIN cmd.args = 1 .. Len(cmd.args)
      /\ \A j \in 1 .. Len(cmd.args) : cmd.args[j] \in Paths
  BY <1>1, LenProperties, ElementOfSeq
<1>3. ASSUME NEW j \in 1 .. Len(cmd.args) PROVE Names(cmd.args[j]) \in Paths
  <2>1. PICK f : NamesBy(f, cmd.args[j]) /\ Names(cmd.args[j]) = f[Len(cmd.args[j])]
    BY <1>2, NamesAre
  <2>2. Len(cmd.args[j]) \in 0 .. Len(cmd.args[j])
    BY <1>2, LenProperties DEF Paths
  <2> QED BY <2>1, <2>2 DEF NamesBy
<1>4. ASSUME NEW j \in 1 .. Len(cmd.args)
      PROVE  NonemptyPrefixes(Names(cmd.args[j])) \subseteq Wanted
  BY <1>2 DEF Wanted
<1> QED BY <1>1, <1>2, <1>3, <1>4

\* One call of mkdir(2), for the argument or for something above it.
LEMMA MkdirOne ==
  ASSUME MkdirTypeOK, WellFormed(tree), MakesOnlyWanted,
         NEW p \in Paths, p # <<>> => p \in Wanted /\ p \in Path,
         NEW kind \in {"dir", "moded"}, Mkdir(p, kind), UNCHANGED <<start, touched, cmd>>
  PROVE  /\ tree' \in [Path -> Kind] /\ WellFormed(tree)' /\ MakesOnlyWanted'
         /\ \A q \in Path : tree[q] # "none" => tree'[q] = tree[q]
         /\ p # <<>> /\ Error(p) # "ENOENT" => tree'[p] # "none"
<1>1. /\ tree \in [Path -> Kind] /\ Wanted' = Wanted /\ IsDir(kind)
      /\ kind \in Kind /\ kind # "none"
  BY DEF MkdirTypeOK, Wanted, Kind, IsDir
<1>2. CASE Error(p) = "none"
  <2>1. p # <<>> /\ tree[p] = "none" /\ (Len(p) > 1 => IsDir(tree[Above(p)]))
    BY <1>2 DEF Error
  <2>2. p \in Path /\ p \in Wanted
    BY <2>1
  <2>3. /\ tree' \in [Path -> Kind] /\ tree'[p] = kind
        /\ \A q \in Path : q # p => tree'[q] = tree[q]
    BY <1>1, <1>2, <2>2 DEF Mkdir
  <2>4. \A q \in Path : tree[q] # "none" => tree'[q] = tree[q]
    BY <2>1, <2>3
  <2>5. ASSUME NEW q \in Path, tree'[q] # "none", Len(q) > 1
        PROVE  IsDir(tree'[Above(q)])
    <3>1. Above(q) \in Path
      BY <2>5, FsAssumption DEF Above
    <3>2. IsDir(tree[Above(q)])
      BY <2>1, <2>3, <2>5 DEF WellFormed
    <3>3. tree[Above(q)] # "none"
      BY <3>2 DEF IsDir
    <3> QED BY <3>1, <3>2, <3>3, <2>4
  <2>6. ASSUME NEW q \in Path \ touched, tree'[q] # start[q]
        PROVE  start[q] = "none" /\ IsDir(tree'[q]) /\ q \in Wanted
    <3>1. CASE q = p
      <4>1. tree[p] = start[p]
        BY <3>1, <2>1, <2>6 DEF MakesOnlyWanted, IsDir
      <4> QED BY <4>1, <3>1, <2>1, <2>2, <2>3, <1>1
    <3>2. CASE q # p
      BY <3>2, <2>3, <2>6 DEF MakesOnlyWanted
    <3> QED BY <3>1, <3>2
  <2>7. WellFormed(tree)'
    BY <2>5 DEF WellFormed
  <2>8. MakesOnlyWanted'
    BY <2>6, <1>1 DEF MakesOnlyWanted
  <2> QED BY <2>3, <2>4, <2>7, <2>8, <1>1
<1>3. CASE Error(p) # "none"
  <2>1. tree' = tree
    BY <1>3 DEF Mkdir
  <2>2. WellFormed(tree)' /\ MakesOnlyWanted'
    BY <2>1, <1>1 DEF WellFormed, MakesOnlyWanted
  <2>3. p # <<>> /\ Error(p) # "ENOENT" => tree[p] # "none"
    BY <1>3 DEF Error
  <2> QED BY <1>1, <2>1, <2>2, <2>3
<1> QED BY <1>2, <1>3

\* What was there stays, or somebody else has changed it.
LEMMA MkdirDoneStays ==
  ASSUME MkdirTypeOK, MkdirDone, UNCHANGED <<touched, cmd>>,
         \A q \in Path : tree[q] # "none" => tree'[q] = tree[q]
  PROVE  \A j \in 1 .. Len(cmd.args) : j < run.i =>
           \A p \in NonemptyPrefixes(Names(cmd.args[j])) : tree'[p] # "none" \/ p \in touched
<1> TAKE j \in 1 .. Len(cmd.args)
<1> SUFFICES ASSUME j < run.i, NEW p \in NonemptyPrefixes(Names(cmd.args[j]))
             PROVE  tree'[p] # "none" \/ p \in touched
  OBVIOUS
<1>1. p \in Path
  BY MkdirArgsAre
<1> QED BY <1>1 DEF MkdirDone

LEMMA MkdirInitInv == FsInit => MkdirInv
<1> SUFFICES ASSUME FsInit, cmd.util = "mkdir"
             PROVE  MkdirTypeOK /\ WellFormed(tree) /\ MkdirPlace /\ MkdirDone /\ MakesOnlyWanted
  BY DEF MkdirInv
<1>1. /\ cmd \in Commands /\ start = tree /\ touched = {} /\ WellFormed(tree)
      /\ run = [pc |-> "arg", i |-> 1, path |-> <<>>, at |-> 0, dirs |-> <<>>, code |-> 0]
      /\ tree \in [Path -> {"none", "file", "dir"}]
  BY DEF FsInit
<1>2. run \in MkdirRun
  BY <1>1, EmptySeq DEF MkdirRun, Paths
<1>3. MkdirTypeOK
  BY <1>1, <1>2 DEF MkdirTypeOK, Kind
<1> QED BY <1>1, <1>3, MkdirArgsAre DEF MkdirPlace, MkdirDone, MakesOnlyWanted

\* A call at the current argument, after which the program goes on or ends.
LEMMA MkdirCalls ==
  ASSUME MkdirInv, cmd.util = "mkdir", run.pc \in {"parent", "mkdir"},
         NEW p, IsPrefix(p, Names(Argument)), p \in Paths,
         NEW kind \in {"dir", "moded"},
         Mkdir(p, kind) \/ UNCHANGED tree, UNCHANGED <<start, touched, cmd>>,
         \/ Exits(1)
         \/ \E j \in Nat : run' = [run EXCEPT !.at = j]
         \/ p = Names(Argument) /\ Error(p) # "ENOENT" /\ Mkdir(p, kind) /\ Continue
  PROVE  MkdirInv'
<1>1. /\ MkdirTypeOK /\ MkdirPlace /\ MkdirDone /\ WellFormed(tree) /\ MakesOnlyWanted
      /\ run \in MkdirRun /\ run.i \in 1 .. Len(cmd.args) /\ run.path = Argument
      /\ Len(cmd.args) \in Nat
  BY MkdirArgsAre DEF MkdirInv, MkdirTypeOK, MkdirPlace
<1> DEFINE names == Names(cmd.args[run.i])
<1>2. names \in Paths /\ NonemptyPrefixes(names) \subseteq Path
      /\ NonemptyPrefixes(names) \subseteq Wanted /\ names = Names(Argument)
  BY <1>1, MkdirArgsAre DEF Argument
<1> HIDE DEF names
<1>3. p # <<>> => p \in Wanted /\ p \in Path
  BY <1>2, PrefixAmong
<1>4. /\ tree' \in [Path -> Kind] /\ WellFormed(tree)' /\ MakesOnlyWanted'
      /\ \A q \in Path : tree[q] # "none" => tree'[q] = tree[q]
  <2>1. CASE Mkdir(p, kind)
    BY <1>1, <1>3, <2>1, MkdirOne
  <2>2. CASE UNCHANGED tree
    <3>1. Wanted' = Wanted /\ tree \in [Path -> Kind]
      BY <1>1 DEF Wanted, MkdirTypeOK
    <3> QED BY <3>1, <2>2, <1>1 DEF WellFormed, MakesOnlyWanted
  <2> QED BY <2>1, <2>2
<1>5. \A j \in 1 .. Len(cmd.args) : j < run.i =>
           \A q \in NonemptyPrefixes(Names(cmd.args[j])) : tree'[q] # "none" \/ q \in touched
  BY <1>1, <1>4, MkdirDoneStays
<1>6. CASE Exits(1) \/ \E j \in Nat : run' = [run EXCEPT !.at = j]
  <2>1. /\ run' \in MkdirRun /\ run'.i = run.i /\ run'.path = run.path
        /\ run'.pc \in {"parent", "mkdir"} \/ (run'.pc = "exit" /\ run'.code = 1)
    <3>1. CASE Exits(1)
      BY <3>1, <1>1 DEF Exits, MkdirRun
    <3>2. ASSUME NEW j \in Nat, run' = [run EXCEPT !.at = j]
          PROVE  /\ run' \in MkdirRun /\ run'.i = run.i /\ run'.path = run.path
                 /\ run'.pc = run.pc
      BY <3>2, <1>1 DEF MkdirRun
    <3> QED BY <3>1, <3>2, <1>6
  <2>2. MkdirTypeOK'
    BY <2>1, <1>1, <1>4 DEF MkdirTypeOK
  <2>3. MkdirPlace'
    BY <2>1, <1>1 DEF MkdirPlace, Argument
  <2>4. MkdirDone'
    <3>1. run'.pc = "exit" /\ run'.code = 0 => FALSE
      BY <2>1
    <3> QED BY <3>1, <2>1, <1>5 DEF MkdirDone
  <2> QED BY <2>2, <2>3, <2>4, <1>4 DEF MkdirInv
<1>7. CASE p = Names(Argument) /\ Error(p) # "ENOENT" /\ Mkdir(p, kind) /\ Continue
  <2>1. run' = [run EXCEPT !.pc = "arg", !.i = @ + 1]
    BY <1>7, <1>1 DEF Continue, MkdirRun
  <2>2. /\ run' \in MkdirRun /\ run'.i = run.i + 1 /\ run'.pc = "arg"
    <3>1. run.i + 1 \in Nat \ {0}
      BY <1>1
    <3> QED BY <3>1, <2>1, <1>1 DEF MkdirRun
  <2>3. MkdirTypeOK'
    BY <2>2, <1>1, <1>4 DEF MkdirTypeOK
  <2>4. MkdirPlace'
    BY <2>2 DEF MkdirPlace
  <2>5. p # <<>> => tree'[p] # "none"
    BY <1>1, <1>3, <1>7, MkdirOne
  <2>6. \A q \in NonemptyPrefixes(p) : tree'[q] # "none"
    <3> DEFINE t == tree'
    <3>1. WellFormed(t) /\ (p # <<>> => t[p] # "none") /\ NonemptyPrefixes(p) \subseteq Path
      BY <1>2, <1>4, <1>7, <2>5 DEF WellFormed
    <3> HIDE DEF t
    <3>2. \A q \in NonemptyPrefixes(p) : t[q] # "none"
      BY <3>1, AboveIsThere
    <3> QED BY <3>2 DEF t
  <2>7. ASSUME NEW j \in 1 .. Len(cmd.args), j < run.i + 1
        PROVE  \A q \in NonemptyPrefixes(Names(cmd.args[j])) :
                  tree'[q] # "none" \/ q \in touched
    <3>1. CASE j < run.i
      BY <3>1, <1>5
    <3>2. CASE ~ (j < run.i)
      <4>1. j = run.i
        BY <3>2, <2>7, <1>1
      <4>2. Names(cmd.args[j]) = p
        BY <4>1, <1>7 DEF Argument
      <4> QED BY <4>2, <2>6
    <3> QED BY <3>1, <3>2
  <2>8. MkdirDone'
    BY <2>2, <2>7 DEF MkdirDone
  <2> QED BY <2>3, <2>4, <2>8, <1>4 DEF MkdirInv
<1> QED BY <1>6, <1>7

\* The options, the next argument, or the end.
LEMMA MkdirNextKeeps == MkdirInv /\ (MkdirOptions \/ MkdirNext) => MkdirInv'
<1> SUFFICES ASSUME MkdirInv, MkdirOptions \/ MkdirNext PROVE MkdirInv'
  OBVIOUS
<1>1. /\ cmd.util = "mkdir" /\ run.pc = "arg" /\ Keeps
      /\ \/ Exits(1)
         \/ NoMore /\ Exits(0)
         \/ /\ ~ NoMore /\ cmd.mode # "invalid"
            /\ run' = [run EXCEPT !.pc = IF cmd.flag THEN "parent" ELSE "mkdir",
                                  !.path = Argument, !.at = 0]
  BY DEF MkdirOptions, MkdirNext, At
<1>2. /\ MkdirTypeOK /\ MkdirPlace /\ MkdirDone /\ WellFormed(tree) /\ MakesOnlyWanted
      /\ run \in MkdirRun /\ Len(cmd.args) \in Nat
  BY <1>1, MkdirArgsAre DEF MkdirInv, MkdirTypeOK
<1>3. WellFormed(tree)' /\ MakesOnlyWanted' /\ Wanted' = Wanted
  BY <1>1, <1>2 DEF WellFormed, MakesOnlyWanted, Wanted, Keeps
<1>4. run' \in MkdirRun => MkdirTypeOK'
  BY <1>1, <1>2 DEF MkdirTypeOK, Keeps
<1>5. ASSUME NEW code \in {0, 1}, run' = [run EXCEPT !.pc = "exit", !.code = code],
             code = 0 => run.i > Len(cmd.args)
      PROVE  MkdirInv'
  <2>1. run' \in MkdirRun /\ run'.pc = "exit" /\ run'.code = code /\ run'.i = run.i
    BY <1>2, <1>5 DEF MkdirRun
  <2>2. MkdirPlace' /\ MkdirDone'
    BY <1>1, <1>2, <1>5, <2>1 DEF MkdirPlace, MkdirDone, Keeps
  <2> QED BY <1>3, <1>4, <2>1, <2>2 DEF MkdirInv
<1>6. CASE Exits(1)
  BY <1>5, <1>6 DEF Exits
<1>7. CASE NoMore /\ Exits(0)
  BY <1>5, <1>7 DEF Exits, NoMore
<1>8. ASSUME ~ NoMore, cmd.mode # "invalid", NEW next \in {"parent", "mkdir"},
             run' = [run EXCEPT !.pc = next, !.path = Argument, !.at = 0]
      PROVE  MkdirInv'
  <2>1. run.i \in 1 .. Len(cmd.args)
    BY <1>2, <1>8 DEF NoMore, MkdirRun
  <2>2. Argument \in Paths
    BY <1>2, <2>1, MkdirArgsAre DEF Argument
  <2>3. /\ run' \in MkdirRun /\ run'.pc = next /\ run'.i = run.i /\ run'.path = Argument
    BY <1>2, <1>8, <2>2 DEF MkdirRun
  <2>4. MkdirPlace' /\ MkdirDone'
    BY <1>1, <1>2, <1>8, <2>1, <2>3 DEF MkdirPlace, MkdirDone, Keeps, Argument
  <2> QED BY <1>3, <1>4, <2>3, <2>4 DEF MkdirInv
<1>9. CASE /\ ~ NoMore /\ cmd.mode # "invalid"
           /\ run' = [run EXCEPT !.pc = IF cmd.flag THEN "parent" ELSE "mkdir",
                                 !.path = Argument, !.at = 0]
  <2>1. CASE cmd.flag
    BY <1>8, <1>9, <2>1
  <2>2. CASE ~ cmd.flag
    BY <1>8, <1>9, <2>2
  <2> QED BY <2>1, <2>2
<1> QED BY <1>1, <1>6, <1>7, <1>9

\* The path itself.
LEMMA MkdirLastKeeps == MkdirInv /\ (MkdirPlain \/ CreateLast) => MkdirInv'
<1> SUFFICES ASSUME MkdirInv, MkdirPlain \/ CreateLast PROVE MkdirInv'
  OBVIOUS
<1> DEFINE p == Names(run.path)
           kind == cmd.mode
<1>1. /\ cmd.util = "mkdir" /\ run.pc \in {"parent", "mkdir"}
      /\ Mkdir(p, kind) /\ UNCHANGED <<start, touched, cmd>>
      /\ Exits(1) \/ (Error(p) # "ENOENT" /\ Continue)
  <2>1. CASE MkdirPlain
    <3>1. Error(p) = "none" => Error(p) # "ENOENT"
      OBVIOUS
    <3> HIDE DEF p
    <3> QED BY <3>1, <2>1 DEF MkdirPlain, At, p
  <2>2. CASE CreateLast
    BY <2>2 DEF CreateLast, At
  <2> QED BY <2>1, <2>2
<1>2. /\ MkdirTypeOK /\ MkdirPlace /\ run.i \in 1 .. Len(cmd.args) /\ run.path = Argument
      /\ kind \in {"dir", "moded"}
  BY <1>1, MkdirArgsAre DEF MkdirInv, MkdirPlace
<1>3. p \in Paths /\ p = Names(Argument)
  BY <1>2, MkdirArgsAre DEF Argument
<1>4. IsPrefix(p, Names(Argument))
  BY <1>3, PrefixOfPrefix
<1> HIDE DEF p, kind
<1> QED BY <1>1, <1>2, <1>3, <1>4, MkdirCalls

\* What comes before a slash.
LEMMA MkdirParentKeeps == MkdirInv /\ CreateParents => MkdirInv'
<1> SUFFICES ASSUME MkdirInv, CreateParents PROVE MkdirInv'
  OBVIOUS
<1> DEFINE j == CHOOSE j \in Slashes : \A k \in Slashes : j <= k
           p == Names(SubSeq(run.path, 1, j - 1))
           kind == "dir"
<1>1. /\ cmd.util = "mkdir" /\ run.pc \in {"parent", "mkdir"} /\ Slashes # {}
      /\ UNCHANGED <<start, touched, cmd>>
      /\ \/ Exits(1) /\ UNCHANGED tree
         \/ /\ UNCHANGED tree \/ Mkdir(p, kind)
            /\ run' = [run EXCEPT !.at = j]
  BY DEF CreateParents, At
<1>2. /\ MkdirTypeOK /\ MkdirPlace /\ run.i \in 1 .. Len(cmd.args) /\ run.path = Argument
      /\ run \in MkdirRun
  BY <1>1 DEF MkdirInv, MkdirPlace, MkdirTypeOK
<1>3. Argument \in Paths /\ Len(Argument) \in Nat
  BY <1>2, MkdirArgsAre, LenProperties DEF Argument, Paths
<1>4. Slashes \in SUBSET (1 .. Len(Argument)) /\ Slashes \in SUBSET Nat
  BY <1>2, <1>3 DEF Slashes, MkdirRun
<1>5. j \in Slashes
  <2>1. \E i \in Slashes : \A k \in Slashes : i <= k
    BY <1>1, <1>4, MinIsLeast
  <2> QED BY <2>1
<1> HIDE DEF j
<1>6. j - 1 \in 0 .. Len(Argument) /\ j \in Nat
  BY <1>3, <1>4, <1>5
<1>7. p \in Paths /\ IsPrefix(p, Names(Argument))
  BY <1>2, <1>3, <1>6, NamesOfPart
<1>8. Exits(1) \/ \E i \in Nat : run' = [run EXCEPT !.at = i]
  BY <1>1, <1>6
<1>9. kind \in {"dir", "moded"} /\ (Mkdir(p, kind) \/ UNCHANGED tree)
  BY <1>1
<1> HIDE DEF p, kind
<1> QED BY <1>1, <1>7, <1>8, <1>9, MkdirCalls

\* What others change is touched.
LEMMA MkdirTouchKeeps ==
  ASSUME MkdirInv, NEW p \in Path, NEW kind \in {"none", "file", "dir"}, Touch(p, kind)
  PROVE  MkdirInv'
<1> SUFFICES ASSUME cmd.util = "mkdir" PROVE MkdirInv'
  BY DEF MkdirInv, Touch
<1>1. /\ tree' = [tree EXCEPT ![p] = kind] /\ touched' = touched \cup {p}
      /\ WellFormed(tree') /\ UNCHANGED <<start, cmd, run>>
      /\ MkdirTypeOK /\ MkdirPlace /\ MkdirDone /\ MakesOnlyWanted
  BY DEF Touch, MkdirInv
<1>2. MkdirTypeOK' /\ MkdirPlace'
  BY <1>1 DEF MkdirTypeOK, MkdirPlace, Kind, Argument
<1>3. \A q \in Path : q # p => tree'[q] = tree[q]
  BY <1>1 DEF MkdirTypeOK
<1>4. MkdirDone'
  BY <1>1, <1>3, MkdirArgsAre DEF MkdirDone
<1>5. MakesOnlyWanted'
  BY <1>1, <1>3 DEF MakesOnlyWanted, Wanted
<1>6. WellFormed(tree)'
  BY <1>1 DEF WellFormed
<1> QED BY <1>2, <1>4, <1>5, <1>6 DEF MkdirInv

\* Every step of mkdir, and of those who work in the same directories, keeps the
\* invariant; rm is another program.
LEMMA MkdirNextInv == MkdirInv /\ [FsNext]_fsVars => MkdirInv'
<1> SUFFICES ASSUME MkdirInv, [FsNext]_fsVars PROVE MkdirInv'
  OBVIOUS
<1>1. CASE UNCHANGED fsVars
  BY <1>1 DEF fsVars, MkdirInv, MkdirTypeOK, MkdirPlace, MkdirDone, MakesOnlyWanted, Wanted,
              WellFormed, Argument
<1>2. CASE MkdirOptions \/ MkdirNext
  BY <1>2, MkdirNextKeeps
<1>3. CASE MkdirPlain \/ CreateParents \/ CreateLast
  BY <1>3, MkdirLastKeeps, MkdirParentKeeps
<1>4. CASE RmUsage \/ RmNext \/ LstatArgument \/ LstatEntry \/ RecursiveRemove \/ ReadDir
           \/ Rmdir \/ RemoveFile
  <2>1. cmd.util = "rm" /\ cmd' = cmd
    BY <1>4 DEF RmUsage, RmNext, LstatArgument, LstatEntry, RecursiveRemove, ReadDir, Rmdir,
                RemoveFile, At, Keeps
  <2> QED BY <2>1 DEF MkdirInv
<1>5. ASSUME NEW p \in Path, NEW kind \in {"none", "file", "dir"}, Touch(p, kind)
      PROVE  MkdirInv'
  BY <1>5, MkdirTouchKeeps
<1> QED BY <1>1, <1>2, <1>3, <1>4, <1>5 DEF FsNext

\* What mkdir has made when it works on its argument, and that the tree stays a
\* tree.
THEOREM MkdirInvariant == FsSpec => []MkdirInv
<1> QED BY MkdirInitInv, MkdirNextInv, PTL DEF FsSpec

\* mkdir makes nothing but its arguments and what is above them, and if it
\* reports success they are there: for all texts, with any slashes, while others
\* create and remove what they like in the tree (mkdir.c).
THEOREM MkdirSafety ==
  FsSpec => [](cmd.util = "mkdir" => MakesOnlyWanted /\ WantedIsThere)
<1>1. ASSUME MkdirInv, cmd.util = "mkdir" PROVE MakesOnlyWanted /\ WantedIsThere
  <2>1. MkdirTypeOK /\ MkdirDone /\ MakesOnlyWanted
    BY <1>1 DEF MkdirInv
  <2>2. ASSUME Ended("mkdir", 0), NEW p \in Wanted
        PROVE  tree[p] # "none" \/ p \in touched
    <3>1. PICK j \in 1 .. Len(cmd.args) : p \in NonemptyPrefixes(Names(cmd.args[j]))
      BY <2>1, MkdirArgsAre DEF Wanted
    <3>2. run.i > Len(cmd.args) /\ run.i \in Nat /\ Len(cmd.args) \in Nat
      BY <2>1, <2>2, MkdirArgsAre DEF Ended, At, MkdirDone, MkdirTypeOK, MkdirRun
    <3>3. j < run.i
      BY <3>1, <3>2
    <3> QED BY <3>1, <3>3, <2>1 DEF MkdirDone
  <2> QED BY <2>1, <2>2 DEF WantedIsThere
<1>2. MkdirInv => (cmd.util = "mkdir" => MakesOnlyWanted /\ WantedIsThere)
  BY <1>1
<1> QED BY <1>2, MkdirInvariant, PTL

\* Two names have a slash between them.
Apart(s) == \A k \in 1 .. Len(s) - 1 : "/" \in {s[k], s[k + 1]}

\* From one slash to the next there is at most one name, and the next slash adds none.
LEMMA NextName ==
  ASSUME NEW s \in Paths, Apart(s), NEW m \in 0 .. Len(s), NEW n \in m .. Len(s),
         \A i \in m + 1 .. n : s[i] # "/"
  PROVE  LET a == Names(SubSeq(s, 1, m))
             b == Names(SubSeq(s, 1, n))
         IN  /\ a \in Paths /\ b \in Paths
             /\ m = n => b = a
             /\ m # n => b # <<>> /\ Front(b) = a /\ Len(b) = Len(a) + 1
             /\ n < Len(s) /\ s[n + 1] = "/" => Names(SubSeq(s, 1, n + 1)) = b
             /\ n = Len(s) => b = Names(s)
<1>0. Len(s) \in Nat /\ m \in Nat /\ n \in Nat /\ m <= n /\ n <= Len(s)
      /\ n \in 0 .. Len(s) /\ \A i \in 1 .. Len(s) : s[i] \in STRING
  <2>1. Len(s) \in Nat /\ \A i \in 1 .. Len(s) : s[i] \in STRING
    BY LenProperties, ElementOfSeq DEF Paths
  <2> QED BY <2>1
<1>1. PICK f : /\ NamesBy(f, s) /\ Names(s) = f[Len(s)]
               /\ \A i \in 0 .. Len(s) : Names(SubSeq(s, 1, i)) = f[i]
  BY NamesOfParts
<1>2. f[m] \in Paths /\ f[n] \in Paths
  BY <1>0, <1>1 DEF NamesBy
<1>3. m # n => n = m + 1
  <2>1. ASSUME n >= m + 2 PROVE FALSE
    <3>1. /\ m + 1 \in m + 1 .. n /\ m + 2 \in m + 1 .. n
          /\ m + 1 \in 1 .. Len(s) - 1 /\ m + 1 + 1 = m + 2
      BY <2>1, <1>0
    <3>2. s[m + 1] # "/" /\ s[m + 2] # "/"
      BY <3>1
    <3>3. "/" \in {s[m + 1], s[m + 2]}
      BY <3>1 DEF Apart
    <3> QED BY <3>2, <3>3
  <2> QED BY <2>1, <1>0
<1>4. ASSUME m # n PROVE f[n] # <<>> /\ Front(f[n]) = f[m] /\ Len(f[n]) = Len(f[m]) + 1
  <2>1. n = m + 1 /\ n \in 1 .. Len(s) /\ n \in m + 1 .. n /\ n - 1 = m
    BY <1>0, <1>3, <1>4
  <2> DEFINE a == f[m]
             x == s[n]
  <2>2. f[n] = Append(a, x) /\ x \in STRING /\ a \in Paths
    BY <2>1, <1>0, <1>1, <1>2 DEF NamesBy
  <2> HIDE DEF a, x
  <2> DEFINE b == Append(a, x)
  <2>3. /\ b \in Paths /\ Len(b) = Len(a) + 1 /\ b # <<>> /\ Len(a) \in Nat
        /\ \A k \in 1 .. Len(a) : b[k] = a[k]
    BY <2>2, AppendProperties, LenProperties DEF Paths
  <2> HIDE DEF b
  <2>4. Front(b) = a
    <3>1. /\ Front(b) \in Paths /\ Len(Front(b)) = Len(b) - 1
          /\ \A k \in 1 .. Len(b) - 1 : Front(b)[k] = b[k]
      BY <2>3, FrontIs DEF Paths
    <3>2. Len(b) - 1 = Len(a)
      BY <2>3
    <3>3. \A k \in 1 .. Len(a) : Front(b)[k] = a[k]
      BY <3>1, <3>2, <2>3
    <3> QED BY <3>1, <3>2, <3>3, <2>2, SeqEqual DEF Paths
  <2> QED BY <2>2, <2>3, <2>4 DEF a, b
<1>5. n < Len(s) /\ s[n + 1] = "/" => f[n + 1] = f[n] /\ n + 1 \in 0 .. Len(s)
  <2>1. n < Len(s) => n + 1 \in 1 .. Len(s) /\ n + 1 \in 0 .. Len(s) /\ n + 1 - 1 = n
    BY <1>0
  <2> QED BY <2>1, <1>1 DEF NamesBy
<1>6. Names(SubSeq(s, 1, m)) = f[m] /\ Names(SubSeq(s, 1, n)) = f[n]
  BY <1>0, <1>1
<1>7. n < Len(s) /\ s[n + 1] = "/" => Names(SubSeq(s, 1, n + 1)) = f[n]
  BY <1>1, <1>5
<1> QED BY <1>1, <1>2, <1>4, <1>6, <1>7

\* The paths above one, and with it.
LEMMA OneMoreName ==
  ASSUME NEW b \in Paths, b # <<>>
  PROVE  /\ Front(b) \in Paths /\ Len(b) = Len(Front(b)) + 1 /\ Len(b) \in Nat
         /\ NonemptyPrefixes(b) = NonemptyPrefixes(Front(b)) \cup {b}
         /\ b \notin NonemptyPrefixes(Front(b))
         /\ Len(b) > 1 <=> Front(b) # <<>>
         /\ Front(b) # <<>> => Front(b) \in NonemptyPrefixes(Front(b))
<1> DEFINE a == Front(b)
           n == Len(a)
<1>1. /\ a \in Paths /\ Len(b) = n + 1 /\ n \in Nat /\ Len(b) \in Nat
      /\ \A k \in 1 .. n : a[k] = b[k]
  <2>1. /\ Len(b) \in Nat /\ Len(b) >= 1 /\ a \in Paths /\ Len(a) = Len(b) - 1
        /\ \A k \in 1 .. Len(b) - 1 : a[k] = b[k]
    BY FrontIs DEF Paths
  <2> HIDE DEF a
  <2> QED BY <2>1
<1> HIDE DEF a
<1>2. ASSUME NEW i \in 1 .. n PROVE SubSeq(a, 1, i) = SubSeq(b, 1, i)
  <2> DEFINE x == SubSeq(a, 1, i)
             y == SubSeq(b, 1, i)
  <2>0. i \in 0 .. Len(a) /\ i \in 0 .. Len(b)
    BY <1>1
  <2>1. x \in Paths /\ Len(x) = i /\ \A k \in 1 .. i : x[k] = a[k]
    BY <2>0, <1>1, PartsAre
  <2>2. y \in Paths /\ Len(y) = i /\ \A k \in 1 .. i : y[k] = b[k]
    BY <2>0, <1>1, PartsAre
  <2> HIDE DEF x, y
  <2>3. \A k \in 1 .. i : x[k] = y[k]
    BY <2>1, <2>2, <1>1
  <2>4. x = y
    BY <2>1, <2>2, <2>3, SeqEqual DEF Paths
  <2> QED BY <2>4 DEF x, y
<1>3. SubSeq(b, 1, n + 1) = b /\ SubSeq(a, 1, n) = a
  BY <1>1, PartsAre
<1>4. NonemptyPrefixes(b) = NonemptyPrefixes(a) \cup {b}
  <2>1. 1 .. n + 1 = (1 .. n) \cup {n + 1}
    BY <1>1
  <2> HIDE DEF n
  <2> QED BY <2>1, <1>1, <1>2, <1>3 DEF NonemptyPrefixes, n
<1>5. b \notin NonemptyPrefixes(a)
  <2>1. \A i \in 1 .. n : Len(SubSeq(a, 1, i)) = i /\ i # n + 1
    BY <1>1, PartsAre
  <2> QED BY <2>1, <1>1 DEF NonemptyPrefixes
<1>6. a # <<>> <=> n # 0
  BY <1>1, EmptySeq DEF Paths
<1>7. a # <<>> => a \in NonemptyPrefixes(a)
  <2>1. n # 0 => n \in 1 .. n
    BY <1>1
  <2> QED BY <2>1, <1>3, <1>6 DEF NonemptyPrefixes
<1>8. Len(b) > 1 <=> a # <<>>
  BY <1>1, <1>6
<1> QED BY <1>1, <1>4, <1>5, <1>7, <1>8 DEF a

\* What is above an entry is a directory.
LEMMA AboveAreDirs ==
  ASSUME NEW t, WellFormed(t), NEW p \in Paths, NonemptyPrefixes(p) \subseteq Path,
         p # <<>>, t[p] # "none", NEW q \in NonemptyPrefixes(p) \ {p}
  PROVE  IsDir(t[q])
<1>0. Len(p) \in Nat
  BY LenProperties DEF Paths
<1>1. PICK i \in 1 .. Len(p) : q = SubSeq(p, 1, i)
  BY DEF NonemptyPrefixes
<1>2. i # Len(p)
  BY <1>1, PartsAre
<1>3. i + 1 \in 1 .. Len(p) /\ i \in 1 .. Len(p) - 1 /\ i + 1 \in 0 .. Len(p) /\ i + 1 > 1
  BY <1>0, <1>1, <1>2
<1> DEFINE u == SubSeq(p, 1, i + 1)
<1>4. u \in NonemptyPrefixes(p)
  BY <1>3 DEF NonemptyPrefixes
<1>5. Len(u) = i + 1 /\ Front(u) = q
  BY <1>1, <1>3, PartsAre
<1> HIDE DEF u
<1>6. t[u] # "none" /\ u \in Path
  BY <1>4, AboveIsThere
<1>7. Len(u) > 1
  BY <1>3, <1>5
<1> QED BY <1>5, <1>6, <1>7 DEF WellFormed, Above

\* Alone in the tree, mkdir does just what was asked.

MkdirSoFar == MkdirResults(cmd.args, cmd.flag, cmd.mode, "dir", start)

MkdirResult == [tree : [Path -> Kind \cup {"invalid"}], code : {0, 1}]

MkdirCall(args, flag, mode, t) ==
    /\ args \in Seq(Paths) /\ flag \in BOOLEAN /\ mode \in Kind \cup {"invalid"}
    /\ t \in [Path -> Kind]

\* What MkdirArgument does to the tree.
Makes(t, a, parents, mode) ==
    [q \in Path |->
        IF q \notin NonemptyPrefixes(Names(a)) \/ t[q] # "none" THEN t[q]
        ELSE IF q # Names(a) THEN "dir"
        ELSE IF parents /\ Last(a) = "/" THEN "dir" ELSE mode]

\* The recursion that MkdirResults is.
LEMMA MkdirResultsAre ==
  ASSUME NEW args, NEW flag, NEW mode, NEW t, MkdirCall(args, flag, mode, t)
  PROVE  LET R == MkdirResults(args, flag, mode, "dir", t)
         IN  /\ R[0] = [tree |-> t, code |-> IF args = <<>> \/ mode = "invalid" THEN 1 ELSE 0]
             /\ \A i \in 1 .. Len(args) : R[i] = MkdirArgument(R[i - 1], args[i], flag, mode, "dir")
             /\ \A i \in 0 .. Len(args) : R[i] \in MkdirResult
<1> DEFINE n == Len(args)
           S == MkdirResult
           origin == [tree |-> t, code |-> IF args = <<>> \/ mode = "invalid" THEN 1 ELSE 0]
           step(i, r) == MkdirArgument(r, args[i], flag, mode, "dir")
           R == CHOOSE f : f = [i \in 0 .. n |-> IF i = 0 THEN origin ELSE step(i, f[i - 1])]
<1>0. n \in Nat /\ origin \in S /\ \A i \in 1 .. n : args[i] \in Paths
  <2>1. origin \in S
    BY DEF MkdirResult, MkdirCall
  <2> HIDE DEF origin
  <2>2. args \in Seq(Paths)
    BY DEF MkdirCall
  <2> QED BY <2>1, <2>2, LenProperties, ElementOfSeq
<1>1. \A i \in 1 .. n, r \in S : step(i, r) \in S
  <2> TAKE i \in 1 .. n, r \in S
  <2> DEFINE a == args[i]
             u == Makes(r.tree, a, flag, mode)
  <2>1. r.tree \in [Path -> Kind \cup {"invalid"}] /\ r.code \in {0, 1}
    BY DEF MkdirResult
  <2> HIDE DEF a
  <2>2. Fail(r) \in S
    BY DEF Fail, MkdirResult
  <2>3. u \in [Path -> Kind \cup {"invalid"}]
    <3>1. mode \in Kind \cup {"invalid"} /\ "dir" \in Kind
      BY DEF MkdirCall, Kind
    <3> QED BY <3>1, <2>1 DEF Makes
  <2>4. MkdirArgument(r, a, flag, mode, "dir") \in {Fail(r), [r EXCEPT !.tree = u]}
    BY DEF MkdirArgument, Makes
  <2> HIDE DEF u
  <2>5. [r EXCEPT !.tree = u] \in S
    BY <2>3 DEF MkdirResult
  <2> QED BY <2>2, <2>4, <2>5 DEF a
<1> HIDE DEF step, S, n, origin
<1>2. \E f \in [0 .. n -> S] :
         f = [i \in 0 .. n |-> IF i = 0 THEN origin ELSE step(i, f[i - 1])]
  <2> DEFINE G == [i \in 1 .. n |-> [r \in S |-> step(i, r)]]
  <2>1. G \in [1 .. n -> [S -> S]] /\ origin \in S /\ n \in Nat
    BY <1>0, <1>1
  <2>2. \A i \in 1 .. n, r \in S : G[i][r] = step(i, r)
    OBVIOUS
  <2> HIDE DEF G, R
  <2>3. PICK f \in [0 .. n -> S] : f[0] = origin /\ \A i \in 1 .. n : f[i] = G[i][f[i - 1]]
    BY <2>1, RecursionHasValue, SMTT(60)
  <2>4. \A i \in 0 .. n : f[i] = IF i = 0 THEN origin ELSE step(i, f[i - 1])
    <3> TAKE i \in 0 .. n
    <3>1. CASE i = 0
      BY <3>1, <2>3
    <3>2. CASE i # 0
      <4>1. i \in 1 .. n /\ i - 1 \in 0 .. n
        BY <3>2, <2>1
      <4>2. f[i - 1] \in S /\ f[i] = G[i][f[i - 1]]
        BY <4>1, <2>3
      <4> QED BY <4>1, <4>2, <3>2, <2>2
    <3> QED BY <3>1, <3>2
  <2>5. f = [i \in 0 .. n |-> IF i = 0 THEN origin ELSE step(i, f[i - 1])]
    BY <2>3, <2>4
  <2> QED BY <2>3, <2>5
<1>3. R = [i \in 0 .. n |-> IF i = 0 THEN origin ELSE step(i, R[i - 1])]
  BY <1>2
<1>4. MkdirResults(args, flag, mode, "dir", t) = R
  BY DEF MkdirResults, R, n, origin, step
<1> HIDE DEF R
<1>5. R[0] = origin /\ \A i \in 1 .. n : i - 1 \in 0 .. n /\ R[i] = step(i, R[i - 1])
  <2>1. \A i \in 0 .. n : R[i] = IF i = 0 THEN origin ELSE step(i, R[i - 1])
    BY <1>3
  <2>2. 0 \in 0 .. n /\ \A i \in 1 .. n : i \in 0 .. n /\ i # 0 /\ i - 1 \in 0 .. n
    BY <1>0
  <2> QED BY <2>1, <2>2
<1> DEFINE P == {i \in 0 .. n : R[i] \in S}
<1>6. 0 \in P
  BY <1>0, <1>5
<1>7. ASSUME NEW i \in 0 .. n - 1, i \in P PROVE i + 1 \in P
  <2>1. i + 1 \in 1 .. n /\ i + 1 \in 0 .. n /\ i + 1 - 1 = i
    BY <1>0
  <2>2. R[i + 1] = step(i + 1, R[i])
    BY <2>1, <1>5
  <2> QED BY <2>1, <2>2, <1>1, <1>7
<1>8. \A i \in 0 .. n : i \in P
  <2> HIDE DEF P
  <2> QED BY <1>0, <1>6, <1>7, StepByStep
<1> QED BY <1>4, <1>5, <1>8 DEF origin, step, n, S

\* What mkdir should have done so far.
LEMMA MkdirSoFarIs ==
  ASSUME MkdirTypeOK
  PROVE  /\ MkdirSoFar[0] = [tree |-> start,
                             code |-> IF cmd.args = <<>> \/ cmd.mode = "invalid" THEN 1 ELSE 0]
         /\ \A i \in 1 .. Len(cmd.args) :
               MkdirSoFar[i] = MkdirArgument(MkdirSoFar[i - 1], cmd.args[i], cmd.flag, cmd.mode, "dir")
         /\ \A i \in 0 .. Len(cmd.args) : MkdirSoFar[i] \in MkdirResult
         /\ MkdirReference("dir") = MkdirSoFar[Len(cmd.args)]
<1>1. /\ cmd.args \in Seq(Paths) /\ cmd.flag \in BOOLEAN /\ start \in [Path -> Kind]
      /\ cmd.mode \in Kind \cup {"invalid"}
  <2>1. cmd.args \in Seq(Paths) /\ cmd.flag \in BOOLEAN
    BY FsAssumption DEF MkdirTypeOK, Paths
  <2>2. cmd.mode \in {"dir", "moded", "invalid"} /\ start \in [Path -> Kind]
    BY MkdirArgsAre DEF MkdirTypeOK
  <2> QED BY <2>1, <2>2 DEF Kind
<1> DEFINE args == cmd.args
           flag == cmd.flag
           mode == cmd.mode
<1> HIDE DEF args, flag, mode
<1>2. MkdirCall(args, flag, mode, start)
  BY <1>1 DEF args, flag, mode, MkdirCall
<1>3. LET R == MkdirResults(args, flag, mode, "dir", start)
      IN  /\ R[0] = [tree |-> start, code |-> IF args = <<>> \/ mode = "invalid" THEN 1 ELSE 0]
          /\ \A i \in 1 .. Len(args) : R[i] = MkdirArgument(R[i - 1], args[i], flag, mode, "dir")
          /\ \A i \in 0 .. Len(args) : R[i] \in MkdirResult
  BY <1>2, MkdirResultsAre
<1> QED BY <1>3 DEF args, flag, mode, MkdirSoFar, MkdirReference

\* After an argument that fails nothing more is done.
LEMMA MkdirFailStays ==
  ASSUME MkdirTypeOK, NEW i \in 0 .. Len(cmd.args), MkdirSoFar[i].code = 1
  PROVE  MkdirReference("dir") = [tree |-> MkdirSoFar[i].tree, code |-> 1]
<1> DEFINE n == Len(cmd.args)
           R == MkdirSoFar
           P == {k \in i .. n : R[k] = R[i]}
<1>0. /\ n \in Nat /\ i \in 0 .. n /\ i \in Nat /\ R[i].code = 1
      /\ \A k \in 1 .. n : R[k] = MkdirArgument(R[k - 1], cmd.args[k], cmd.flag, cmd.mode, "dir")
      /\ \A k \in 0 .. n : R[k] \in MkdirResult
      /\ MkdirReference("dir") = R[n]
  <2>1. n \in Nat
    BY MkdirArgsAre
  <2> QED BY <2>1, MkdirSoFarIs
<1> HIDE DEF R, n
<1>1. Fail(R[i]) = R[i] /\ R[i] = [tree |-> R[i].tree, code |-> 1]
  BY <1>0 DEF Fail, MkdirResult
<1>2. i \in P
  BY <1>0
<1>3. ASSUME NEW k \in i .. n - 1, k \in P PROVE k + 1 \in P
  <2>1. k + 1 \in 1 .. n /\ k + 1 \in i .. n /\ k + 1 - 1 = k
    BY <1>0
  <2>2. R[k + 1] = MkdirArgument(R[i], cmd.args[k + 1], cmd.flag, cmd.mode, "dir")
    BY <2>1, <1>0, <1>3
  <2>3. R[k + 1] = Fail(R[i])
    BY <2>2, <1>0 DEF MkdirArgument
  <2> QED BY <2>1, <2>3, <1>1
<1>4. \A k \in i .. n : k \in P
  <2> HIDE DEF P
  <2> QED BY <1>0, <1>2, <1>3, StepByStep
<1>5. n \in i .. n
  BY <1>0
<1>6. R[n] = R[i]
  BY <1>4, <1>5
<1> QED BY <1>0, <1>1, <1>6 DEF R

\* What mkdir(2) says, whichever of its conditions is looked at first.
LEMMA ErrorIs ==
  ASSUME WellFormed(tree), NEW p \in Paths, NonemptyPrefixes(p) \subseteq Path
  PROVE  Error(p) = IF p = <<>> \/ tree[p] # "none" THEN "EEXIST"
                    ELSE IF Front(p) # <<>> /\ ~ IsDir(tree[Front(p)]) THEN "ENOENT" ELSE "none"
<1>1. CASE p = <<>>
  <2>1. Len(p) = 0
    BY <1>1
  <2> QED BY <1>1, <2>1 DEF Error
<1>2. CASE p # <<>>
  <2>1. /\ Len(p) > 1 <=> Front(p) # <<>>
        /\ NonemptyPrefixes(p) = NonemptyPrefixes(Front(p)) \cup {p}
    BY <1>2, OneMoreName
  <2>2. p \in Path
    BY <2>1
  <2>3. tree[p] # "none" /\ Front(p) # <<>> => IsDir(tree[Front(p)])
    BY <2>1, <2>2 DEF WellFormed, Above
  <2> QED BY <1>2, <2>1, <2>3 DEF Error, Above
<1> QED BY <1>1, <1>2

\* A tree in which everything above p that was missing has been made.
WithParents(t, p) ==
    [q \in Path |-> IF q \in NonemptyPrefixes(p) /\ t[q] = "none" THEN "dir" ELSE t[q]]

\* The path that comes before the slash that mkdir -p has reached.
Passed == Names(SubSeq(run.path, 1, run.at))

\* mkdir -p works on r.
Underway(r) == /\ r.code = 0 /\ r.tree \in [Path -> Kind] /\ WellFormed(r.tree)
               /\ tree = WithParents(r.tree, Passed)

\* What mkdir -p has passed was there.
MkdirAbove ==
    /\ run.pc = "mkdir" => ~ cmd.flag
    /\ run.pc = "parent" =>
          /\ cmd.flag /\ run.at \in 0 .. Len(run.path)
          /\ run.at # 0 => run.path[run.at] = "/"
          /\ \A q \in NonemptyPrefixes(Passed) : tree[q] # "none" \/ q \in touched

\* mkdir -p fails because of others only where they removed a directory or made
\* something else.
MkdirFails ==
    run.pc = "exit" /\ run.code = 1 /\ cmd.flag =>
        MkdirReference("dir").code = 1 \/ \E q \in touched : ~ IsDir(tree[q])

MkdirAlone ==
    touched = {} =>
        /\ run.pc = "exit" => MkdirReference("dir") = [tree |-> tree, code |-> run.code]
        /\ run.pc = "arg" =>
              MkdirSoFar[run.i - 1] =
                 [tree |-> tree, code |-> IF cmd.args = <<>> \/ cmd.mode = "invalid" THEN 1 ELSE 0]
        /\ run.pc = "mkdir" => MkdirSoFar[run.i - 1] = [tree |-> tree, code |-> 0]
        /\ run.pc = "parent" => Underway(MkdirSoFar[run.i - 1])

MkdirAsked ==
    cmd.util = "mkdir" =>
        run.i <= Len(cmd.args) + 1 /\ MkdirAbove /\ MkdirFails /\ MkdirAlone

\* The paths above one, without it.
StrictlyAbove(p) == IF p = <<>> THEN {} ELSE NonemptyPrefixes(Front(p))

\* What stands in the way of mkdir, and what else without -p.
Blocked(t, p) == \E q \in StrictlyAbove(p) : t[q] \notin {"none", "dir", "moded"}
Refused(t, p) == p = <<>> \/ t[p] # "none" \/ \E q \in StrictlyAbove(p) : t[q] = "none"

\* What an argument of mkdir makes when there is nothing in its way.
LEMMA MkdirArgumentIs ==
  ASSUME NEW r, NEW a, NEW parents \in BOOLEAN, NEW mode, Names(a) \in Paths
  PROVE  MkdirArgument(r, a, parents, mode, "dir") =
            IF r.code = 1 \/ Blocked(r.tree, Names(a)) \/ (~ parents /\ Refused(r.tree, Names(a)))
            THEN Fail(r) ELSE [r EXCEPT !.tree = Makes(r.tree, a, parents, mode)]
<1> DEFINE p == Names(a)
<1>1. NonemptyPrefixes(p) \ {p} = StrictlyAbove(p)
  <2>1. CASE p = <<>>
    <3>1. Len(p) = 0
      BY <2>1
    <3>2. NonemptyPrefixes(p) = {}
      BY <3>1 DEF NonemptyPrefixes
    <3> QED BY <2>1, <3>2 DEF StrictlyAbove
  <2>2. CASE p # <<>>
    <3>1. /\ NonemptyPrefixes(p) = NonemptyPrefixes(Front(p)) \cup {p}
          /\ p \notin NonemptyPrefixes(Front(p))
      BY <2>2, OneMoreName
    <3> HIDE DEF p
    <3> QED BY <2>2, <3>1 DEF StrictlyAbove
  <2> QED BY <2>1, <2>2
<1> QED BY <1>1 DEF MkdirArgument, Makes, Blocked, Refused

\* One argument without -p.
LEMMA PlainIs ==
  ASSUME MkdirTypeOK, WellFormed(tree), NEW a, Names(a) \in Paths,
         NonemptyPrefixes(Names(a)) \subseteq Path, NEW mode, NEW r,
         r = [tree |-> tree, code |-> 0]
  PROVE  MkdirArgument(r, a, FALSE, mode, "dir") =
            IF Error(Names(a)) = "none"
            THEN [tree |-> [tree EXCEPT ![Names(a)] = mode], code |-> 0]
            ELSE [tree |-> tree, code |-> 1]
<1> DEFINE p == Names(a)
           above == StrictlyAbove(p)
<1>0. tree \in [Path -> Kind] /\ r.tree = tree /\ r.code = 0 /\ Fail(r) = [tree |-> tree, code |-> 1]
  BY DEF MkdirTypeOK, Fail
<1>1. MkdirArgument(r, a, FALSE, mode, "dir") =
               IF Blocked(tree, p) \/ Refused(tree, p)
               THEN Fail(r) ELSE [r EXCEPT !.tree = Makes(tree, a, FALSE, mode)]
  <2>1. \A b \in BOOLEAN : MkdirArgument(r, a, b, mode, "dir") =
            IF r.code = 1 \/ Blocked(r.tree, p) \/ (~ b /\ Refused(r.tree, p))
            THEN Fail(r) ELSE [r EXCEPT !.tree = Makes(r.tree, a, b, mode)]
    BY MkdirArgumentIs
  <2> HIDE DEF p
  <2>2. MkdirArgument(r, a, FALSE, mode, "dir") =
            IF r.code = 1 \/ Blocked(r.tree, p) \/ (~ FALSE /\ Refused(r.tree, p))
            THEN Fail(r) ELSE [r EXCEPT !.tree = Makes(r.tree, a, FALSE, mode)]
    BY <2>1, Zenon
  <2>3. r.code # 1
    BY <1>0
  <2>4. /\ Blocked(r.tree, p) <=> Blocked(tree, p)
        /\ Refused(r.tree, p) <=> Refused(tree, p)
        /\ Makes(r.tree, a, FALSE, mode) = Makes(tree, a, FALSE, mode)
    BY <1>0 DEF Blocked, Refused
  <2> QED BY <2>2, <2>3, <2>4, Zenon
<1>2. Error(p) = IF p = <<>> \/ tree[p] # "none" THEN "EEXIST"
                 ELSE IF Front(p) # <<>> /\ ~ IsDir(tree[Front(p)]) THEN "ENOENT" ELSE "none"
  BY ErrorIs
<1> HIDE DEF p
<1>3. CASE p = <<>> \/ tree[p] # "none"
  BY <1>0, <1>1, <1>2, <1>3 DEF p, Refused
<1>4. CASE p # <<>> /\ tree[p] = "none"
  <2>1. /\ Front(p) \in Paths /\ above = NonemptyPrefixes(Front(p))
        /\ NonemptyPrefixes(p) = NonemptyPrefixes(Front(p)) \cup {p}
        /\ p \notin NonemptyPrefixes(Front(p))
        /\ Front(p) # <<>> => Front(p) \in NonemptyPrefixes(Front(p))
    <3>1. p \in Paths
      BY DEF p
    <3> QED BY <1>4, <3>1, OneMoreName DEF StrictlyAbove
  <2>2. NonemptyPrefixes(Front(p)) \subseteq Path /\ p \in Path
    BY <2>1 DEF p
  <2>3. CASE Front(p) # <<>> /\ ~ IsDir(tree[Front(p)])
    <3>1. tree[Front(p)] \notin {"none", "dir", "moded"} \/ tree[Front(p)] = "none"
      BY <2>3 DEF IsDir
    <3>2. Blocked(tree, p) \/ Refused(tree, p)
      BY <3>1, <2>1, <2>3 DEF Blocked, Refused
    <3> QED BY <3>2, <2>3, <1>0, <1>1, <1>2, <1>4 DEF p
  <2>4. CASE Front(p) = <<>> \/ IsDir(tree[Front(p)])
    <3>1. \A q \in above : IsDir(tree[q])
      <4>1. CASE Front(p) = <<>>
        <5>1. Len(Front(p)) = 0
          BY <4>1
        <5>2. above = {}
          BY <2>1, <5>1 DEF NonemptyPrefixes
        <5> QED BY <5>2
      <4>2. CASE Front(p) # <<>>
        <5>1. tree[Front(p)] # "none" /\ IsDir(tree[Front(p)])
          BY <2>4, <4>2 DEF IsDir
        <5> QED BY <5>1, <4>2, <2>1, <2>2, AboveAreDirs
      <4> QED BY <4>1, <4>2
    <3>2. \A q \in above : tree[q] \in {"dir", "moded"} /\ tree[q] # "none"
      BY <3>1 DEF IsDir
    <3>3. MkdirArgument(r, a, FALSE, mode, "dir") = [r EXCEPT !.tree = Makes(tree, a, FALSE, mode)]
      BY <3>2, <1>1, <1>4 DEF Blocked, Refused
    <3>4. Makes(tree, a, FALSE, mode) = [tree EXCEPT ![p] = mode]
      <4>1. \A q \in Path : q \in NonemptyPrefixes(p) /\ tree[q] = "none" <=> q = p
        BY <2>1, <2>2, <3>2, <1>4
      <4>2. Makes(tree, a, FALSE, mode) = [q \in Path |-> IF q = p THEN mode ELSE tree[q]]
        BY <4>1 DEF Makes, p
      <4> QED BY <4>2, <1>0
    <3>5. Error(p) = "none"
      BY <1>2, <1>4, <2>4
    <3> QED BY <3>3, <3>4, <3>5, <1>0 DEF p
  <2> QED BY <2>3, <2>4
<1> QED BY <1>3, <1>4

\* mkdir -p finds a file above its argument: it has not made anything for it.
LEMMA ParentsBlocked ==
  ASSUME NEW r, r.code = 0, r.tree \in [Path -> Kind], WellFormed(r.tree),
         NEW g \in Paths, g # <<>>, NonemptyPrefixes(g) \subseteq Path,
         tree = WithParents(r.tree, g), ~ IsDir(tree[g]),
         NEW a, Names(a) \in Paths, g \in StrictlyAbove(Names(a)), NEW mode
  PROVE  r.tree = tree /\ MkdirArgument(r, a, TRUE, mode, "dir") = Fail(r)
<1> DEFINE t == r.tree
<1>1. g \in NonemptyPrefixes(g) /\ g \in Path
  <2>1. NonemptyPrefixes(g) = NonemptyPrefixes(Front(g)) \cup {g}
    BY OneMoreName
  <2>2. g \in NonemptyPrefixes(g)
    BY <2>1
  <2> QED BY <2>2
<1>2. tree[g] = IF t[g] = "none" THEN "dir" ELSE t[g]
  BY <1>1 DEF WithParents
<1>3. t[g] # "none" /\ t[g] \notin {"none", "dir", "moded"}
  BY <1>2 DEF IsDir
<1>4. \A q \in NonemptyPrefixes(g) : t[q] # "none"
  <2> HIDE DEF t
  <2>1. WellFormed(t) /\ t[g] # "none"
    BY <1>3 DEF t
  <2> QED BY <2>1, AboveIsThere
<1>5. WithParents(t, g) = t
  <2>1. \A q \in Path : ~ (q \in NonemptyPrefixes(g) /\ t[q] = "none")
    BY <1>4
  <2>2. WithParents(t, g) = [q \in Path |-> t[q]]
    BY <2>1 DEF WithParents
  <2> QED BY <2>2
<1>6. Blocked(t, Names(a))
  BY <1>3 DEF Blocked
<1>7. MkdirArgument(r, a, TRUE, mode, "dir") = Fail(r)
  <2>1. \A b \in BOOLEAN : MkdirArgument(r, a, b, mode, "dir") =
            IF r.code = 1 \/ Blocked(r.tree, Names(a)) \/ (~ b /\ Refused(r.tree, Names(a)))
            THEN Fail(r) ELSE [r EXCEPT !.tree = Makes(r.tree, a, b, mode)]
    BY MkdirArgumentIs
  <2> QED BY <2>1, <1>6, Zenon
<1> QED BY <1>5, <1>7

\* A call of mkdir -p that is not refused.
LEMMA ParentsMake ==
  ASSUME NEW t, t \in [Path -> Kind], WellFormed(tree), tree \in [Path -> Kind],
         NEW g \in Paths, NonemptyPrefixes(g) \subseteq Path, tree = WithParents(t, g),
         NEW p \in Paths, NonemptyPrefixes(p) \subseteq Path,
         p = g \/ (p # <<>> /\ Front(p) = g),
         NEW kind, kind # "none", Error(p) # "ENOENT", Mkdir(p, kind)
  PROVE  /\ tree' = [q \in Path |-> IF q \in NonemptyPrefixes(p) /\ t[q] = "none"
                                    THEN IF q = p /\ p # g THEN kind ELSE "dir"
                                    ELSE t[q]]
         /\ p # <<>> => tree'[p] # "none"
<1>1. Error(p) = IF p = <<>> \/ tree[p] # "none" THEN "EEXIST"
                 ELSE IF Front(p) # <<>> /\ ~ IsDir(tree[Front(p)]) THEN "ENOENT" ELSE "none"
  BY ErrorIs
<1>2. p # <<>> => p \in NonemptyPrefixes(p) /\ p \in Path
  BY OneMoreName, SMTT(30)
<1>3. CASE p = g
  <2>1. p # <<>> => tree[p] # "none"
    <3>1. p # <<>> => tree[p] = IF t[p] = "none" THEN "dir" ELSE t[p]
      BY <1>2, <1>3 DEF WithParents
    <3> QED BY <3>1
  <2>2. Error(p) # "none"
    BY <1>1, <2>1
  <2>3. tree' = tree
    BY <2>2 DEF Mkdir
  <2> QED BY <2>1, <2>3, <1>3 DEF WithParents
<1>4. CASE p # g
  <2>1. /\ p # <<>> /\ NonemptyPrefixes(p) = NonemptyPrefixes(g) \cup {p}
        /\ p \notin NonemptyPrefixes(g) /\ p \in Path
    BY <1>2, <1>4, OneMoreName
  <2>2. tree[p] = t[p]
    BY <2>1 DEF WithParents
  <2>3. CASE tree[p] # "none"
    <3>1. tree' = tree
      BY <1>1, <2>3 DEF Mkdir
    <3>2. \A q \in Path : q \in NonemptyPrefixes(p) /\ t[q] = "none" =>
                            q # p /\ q \in NonemptyPrefixes(g)
      BY <2>1, <2>2, <2>3
    <3>3. \A q \in NonemptyPrefixes(g) : q \in NonemptyPrefixes(p)
      BY <2>1
    <3> QED BY <3>1, <3>2, <3>3, <2>3 DEF WithParents
  <2>4. CASE tree[p] = "none"
    <3>1. tree' = [tree EXCEPT ![p] = kind]
      BY <1>1, <2>1, <2>4 DEF Mkdir
    <3>2. tree' = [q \in Path |-> IF q = p THEN kind ELSE tree[q]]
      BY <3>1
    <3>3. \A q \in Path : tree[q] = IF q \in NonemptyPrefixes(g) /\ t[q] = "none" THEN "dir"
                                    ELSE t[q]
      BY DEF WithParents
    <3>4. \A q \in Path : q # p => (q \in NonemptyPrefixes(p) <=> q \in NonemptyPrefixes(g))
      BY <2>1
    <3>5. p \in NonemptyPrefixes(p) /\ t[p] = "none"
      BY <2>1, <2>2, <2>4
    <3>6. ASSUME NEW q \in Path
          PROVE  tree'[q] = IF q \in NonemptyPrefixes(p) /\ t[q] = "none"
                            THEN IF q = p /\ p # g THEN kind ELSE "dir"
                            ELSE t[q]
      <4>1. CASE q = p
        BY <4>1, <3>2, <3>5, <1>4
      <4>2. CASE q # p
        BY <4>2, <3>2, <3>3, <3>4
      <4> QED BY <4>1, <4>2
    <3>7. tree'[p] # "none"
      BY <3>2, <2>1
    <3>8. tree' = [q \in Path |-> tree'[q]]
      BY <3>2
    <3> HIDE DEF Mkdir
    <3> QED BY <3>6, <3>7, <3>8
  <2> QED BY <2>3, <2>4
<1> QED BY <1>3, <1>4

\* The last call of mkdir -p for an argument.
LEMMA ParentsDone ==
  ASSUME NEW r, r.code = 0, r.tree \in [Path -> Kind], WellFormed(tree), tree \in [Path -> Kind],
         NEW g \in Paths, NonemptyPrefixes(g) \subseteq Path, tree = WithParents(r.tree, g),
         NEW a, Names(a) \in Paths, NonemptyPrefixes(Names(a)) \subseteq Path,
         Names(a) = g \/ (Names(a) # <<>> /\ Front(Names(a)) = g),
         Names(a) # <<>> => (Names(a) = g <=> Last(a) = "/"),
         NEW mode, mode # "none", Error(Names(a)) # "ENOENT", Mkdir(Names(a), mode),
         WellFormed(tree')
  PROVE  MkdirArgument(r, a, TRUE, mode, "dir") = [r EXCEPT !.tree = tree']
<1> DEFINE p == Names(a)
           t == r.tree
<1>1. /\ tree' = [q \in Path |-> IF q \in NonemptyPrefixes(p) /\ t[q] = "none"
                                    THEN IF q = p /\ p # g THEN mode ELSE "dir"
                                    ELSE t[q]]
      /\ p # <<>> => tree'[p] # "none"
  BY ParentsMake
<1>2. ~ Blocked(t, p)
  <2> DEFINE u == tree'
  <2>1. ASSUME NEW q \in StrictlyAbove(p) PROVE t[q] \in {"none", "dir", "moded"}
    <3>1. p # <<>> /\ q \in NonemptyPrefixes(p) /\ q # p
      <4>1. p # <<>> /\ q \in NonemptyPrefixes(Front(p))
        BY <2>1 DEF StrictlyAbove
      <4>2. /\ NonemptyPrefixes(p) = NonemptyPrefixes(Front(p)) \cup {p}
            /\ p \notin NonemptyPrefixes(Front(p))
        BY <4>1, OneMoreName
      <4> HIDE DEF p
      <4> QED BY <4>1, <4>2
    <3>2. WellFormed(u) /\ u[p] # "none"
      BY <1>1, <3>1
    <3>3. IsDir(u[q])
      <4>1. q \in NonemptyPrefixes(p) \ {p}
        BY <3>1
      <4> HIDE DEF u
      <4> QED BY <4>1, <3>1, <3>2, AboveAreDirs
    <3>4. q \in Path
      BY <3>1
    <3>5. t[q] # "none" => u[q] = t[q]
      BY <1>1, <3>4
    <3> QED BY <3>3, <3>5 DEF IsDir
  <2> QED BY <2>1 DEF Blocked
<1>3. Makes(t, a, TRUE, mode) = tree'
  <2>1. ASSUME NEW q \in Path
        PROVE  Makes(t, a, TRUE, mode)[q] = tree'[q]
    <3>1. Makes(t, a, TRUE, mode)[q] =
             IF q \notin NonemptyPrefixes(p) \/ t[q] # "none" THEN t[q]
             ELSE IF q = p /\ ~ (Last(a) = "/") THEN mode
             ELSE "dir"
      BY DEF Makes
    <3>2. tree'[q] = IF q \in NonemptyPrefixes(p) /\ t[q] = "none"
                     THEN IF q = p /\ p # g THEN mode ELSE "dir"
                     ELSE t[q]
      BY <1>1
    <3>3. q = p => p # <<>>
      BY FsAssumption
    <3> HIDE DEF p, t
    <3> QED BY <3>1, <3>2, <3>3 DEF p
  <2>2. Makes(t, a, TRUE, mode) = [q \in Path |-> Makes(t, a, TRUE, mode)[q]]
    BY DEF Makes
  <2>3. tree' = [q \in Path |-> tree'[q]]
    BY <1>1
  <2> QED BY <2>1, <2>2, <2>3
<1>4. \A b \in BOOLEAN : MkdirArgument(r, a, b, mode, "dir") =
            IF r.code = 1 \/ Blocked(r.tree, Names(a)) \/ (~ b /\ Refused(r.tree, Names(a)))
            THEN Fail(r) ELSE [r EXCEPT !.tree = Makes(r.tree, a, b, mode)]
  BY MkdirArgumentIs
<1>5. r.code # 1
  OBVIOUS
<1> HIDE DEF p
<1>6. MkdirArgument(r, a, TRUE, mode, "dir") = [r EXCEPT !.tree = Makes(r.tree, a, TRUE, mode)]
  BY <1>4, <1>5, <1>2, Zenon DEF p
<1> QED BY <1>3, <1>6

LEMMA MkdirAskedInit == FsInit => MkdirAsked
<1> SUFFICES ASSUME FsInit, cmd.util = "mkdir" PROVE MkdirAsked
  BY DEF MkdirAsked
<1>1. MkdirTypeOK /\ run.i = 1 /\ run.pc = "arg" /\ start = tree
  BY MkdirInitInv DEF MkdirInv, FsInit
<1>2. MkdirSoFar[0] = [tree |-> start,
                       code |-> IF cmd.args = <<>> \/ cmd.mode = "invalid" THEN 1 ELSE 0]
  BY <1>1, MkdirSoFarIs
<1>3. run.i - 1 = 0 /\ run.i <= Len(cmd.args) + 1
  BY <1>1, MkdirArgsAre
<1> QED BY <1>1, <1>2, <1>3 DEF MkdirAsked, MkdirAbove, MkdirFails, MkdirAlone

\* Where mkdir is when it has the invariants and takes a step of its own.
LEMMA MkdirIsAt ==
  ASSUME MkdirInv, MkdirAsked, cmd.util = "mkdir"
  PROVE  /\ MkdirTypeOK /\ MkdirPlace /\ WellFormed(tree) /\ run \in MkdirRun
         /\ MakesOnlyWanted /\ tree \in [Path -> Kind]
         /\ Len(cmd.args) \in Nat /\ run.i \in Nat \ {0} /\ run.i <= Len(cmd.args) + 1
         /\ run.i - 1 \in 0 .. Len(cmd.args)
         /\ run.pc \in {"parent", "mkdir"} =>
               /\ run.i \in 1 .. Len(cmd.args) /\ run.path = Argument /\ Argument \in Paths
               /\ Names(Argument) \in Paths /\ NonemptyPrefixes(Names(Argument)) \subseteq Path
               /\ Apart(Argument) /\ cmd.mode \in {"dir", "moded"}
               /\ MkdirSoFar[run.i] =
                     MkdirArgument(MkdirSoFar[run.i - 1], Argument, cmd.flag, cmd.mode, "dir")
<1>1. /\ MkdirTypeOK /\ MkdirPlace /\ WellFormed(tree) /\ run \in MkdirRun
      /\ MakesOnlyWanted /\ tree \in [Path -> Kind]
      /\ run.i \in Nat \ {0} /\ run.i <= Len(cmd.args) + 1
  BY DEF MkdirInv, MkdirAsked, MkdirTypeOK, MkdirRun
<1>2. /\ Len(cmd.args) \in Nat /\ cmd.mode \in {"dir", "moded", "invalid"}
      /\ DOMAIN cmd.args = 1 .. Len(cmd.args)
      /\ \A j \in 1 .. Len(cmd.args) :
            /\ cmd.args[j] \in Paths /\ Names(cmd.args[j]) \in Paths
            /\ NonemptyPrefixes(Names(cmd.args[j])) \subseteq Path
  BY <1>1, MkdirArgsAre
<1>3. ASSUME run.pc \in {"parent", "mkdir"}
      PROVE  /\ run.i \in 1 .. Len(cmd.args) /\ run.path = Argument /\ Argument \in Paths
             /\ Names(Argument) \in Paths /\ NonemptyPrefixes(Names(Argument)) \subseteq Path
             /\ Apart(Argument) /\ cmd.mode \in {"dir", "moded"}
             /\ MkdirSoFar[run.i] =
                   MkdirArgument(MkdirSoFar[run.i - 1], Argument, cmd.flag, cmd.mode, "dir")
  <2>1. run.i \in 1 .. Len(cmd.args) /\ run.path = Argument /\ cmd.mode \in {"dir", "moded"}
    BY <1>1, <1>2, <1>3 DEF MkdirPlace
  <2>2. \A j \in DOMAIN cmd.args : Apart(cmd.args[j])
    BY <1>1, FsAssumption DEF MkdirTypeOK, Apart
  <2>3. MkdirSoFar[run.i] = MkdirArgument(MkdirSoFar[run.i - 1], cmd.args[run.i], cmd.flag, cmd.mode, "dir")
    BY <1>1, <2>1, MkdirSoFarIs
  <2> QED BY <1>2, <2>1, <2>2, <2>3 DEF Argument
<1>4. run.i - 1 \in 0 .. Len(cmd.args)
  BY <1>1, <1>2
<1> QED BY <1>1, <1>2, <1>3, <1>4

\* mkdir leaves the program.
LEMMA MkdirExits ==
  ASSUME MkdirInv, MkdirAsked, cmd.util = "mkdir", Keeps, NEW code \in {0, 1}, Exits(code),
         code = 1 /\ cmd.flag => MkdirReference("dir").code = 1 \/ \E q \in touched : ~ IsDir(tree[q]),
         touched = {} => MkdirReference("dir") = [tree |-> tree, code |-> code]
  PROVE  MkdirAsked'
<1>1. run \in MkdirRun /\ run.i <= Len(cmd.args) + 1 /\ UNCHANGED <<tree, start, touched, cmd>>
  BY MkdirIsAt DEF Keeps
<1>2. run'.pc = "exit" /\ run'.code = code /\ run'.i = run.i
  BY <1>1 DEF Exits, MkdirRun
<1>3. MkdirReference("dir")' = MkdirReference("dir")
  BY <1>1 DEF MkdirReference
<1>4. MkdirFails' /\ MkdirAlone'
  BY <1>1, <1>2, <1>3 DEF MkdirFails, MkdirAlone
<1> QED BY <1>1, <1>2, <1>4 DEF MkdirAsked, MkdirAbove

\* The options, the next argument, or the end.
LEMMA MkdirAskedNext == MkdirInv /\ MkdirAsked /\ (MkdirOptions \/ MkdirNext) => MkdirAsked'
<1> SUFFICES ASSUME MkdirInv, MkdirAsked, MkdirOptions \/ MkdirNext PROVE MkdirAsked'
  OBVIOUS
<1>1. cmd.util = "mkdir" /\ run.pc = "arg" /\ Keeps
  BY DEF MkdirOptions, MkdirNext, At
<1>2. /\ MkdirTypeOK /\ run \in MkdirRun /\ WellFormed(tree) /\ tree \in [Path -> Kind]
      /\ Len(cmd.args) \in Nat /\ run.i \in Nat \ {0} /\ run.i <= Len(cmd.args) + 1
      /\ run.i - 1 \in 0 .. Len(cmd.args) /\ UNCHANGED <<tree, start, touched, cmd>>
  BY <1>1, MkdirIsAt DEF Keeps
<1>3. /\ MkdirSoFar[0] = [tree |-> start,
                          code |-> IF cmd.args = <<>> \/ cmd.mode = "invalid" THEN 1 ELSE 0]
      /\ MkdirReference("dir") = MkdirSoFar[Len(cmd.args)]
  BY <1>2, MkdirSoFarIs
<1>4. touched = {} =>
         MkdirSoFar[run.i - 1] =
            [tree |-> tree, code |-> IF cmd.args = <<>> \/ cmd.mode = "invalid" THEN 1 ELSE 0]
  BY <1>1 DEF MkdirAsked, MkdirAlone
<1>5. CASE MkdirOptions
  <2>1. Exits(1) /\ run.i = 1 /\ (cmd.args = <<>> \/ cmd.mode = "invalid")
    BY <1>5 DEF MkdirOptions
  <2>2. MkdirSoFar[0] = [tree |-> start, code |-> 1] /\ 0 \in 0 .. Len(cmd.args) /\ run.i - 1 = 0
    BY <1>2, <1>3, <2>1
  <2>3. MkdirReference("dir") = [tree |-> start, code |-> 1]
    BY <1>2, <2>2, MkdirFailStays
  <2>4. touched = {} => start = tree
    BY <1>4, <2>2
  <2> QED BY <1>1, <2>1, <2>3, <2>4, MkdirExits
<1>6. CASE MkdirNext /\ NoMore
  <2>1. Exits(0) /\ cmd.args # <<>> /\ cmd.mode # "invalid"
    BY <1>6 DEF MkdirNext
  <2>2. run.i - 1 = Len(cmd.args)
    BY <1>2, <1>6 DEF NoMore
  <2>3. touched = {} => MkdirReference("dir") = [tree |-> tree, code |-> 0]
    BY <1>3, <1>4, <2>1, <2>2
  <2> QED BY <1>1, <2>1, <2>3, MkdirExits
<1>7. CASE MkdirNext /\ ~ NoMore
  <2>1. /\ run' = [run EXCEPT !.pc = IF cmd.flag THEN "parent" ELSE "mkdir",
                              !.path = Argument, !.at = 0]
        /\ cmd.args # <<>> /\ cmd.mode # "invalid"
    BY <1>7 DEF MkdirNext
  <2>2. /\ run'.pc = IF cmd.flag THEN "parent" ELSE "mkdir"
        /\ run'.i = run.i /\ run'.path = Argument /\ run'.at = 0
    BY <1>2, <2>1 DEF MkdirRun
  <2>3. run.i \in 1 .. Len(cmd.args)
    BY <1>2, <1>7 DEF NoMore
  <2>4. Argument \in Paths /\ Len(Argument) \in Nat
    <3>1. Argument \in Paths
      BY <1>2, <2>3, MkdirArgsAre DEF Argument
    <3> QED BY <3>1, LenProperties DEF Paths
  <2>5. NonemptyPrefixes(Passed') = {} /\ Passed' \in Paths
    <3>1. Passed' = Names(SubSeq(Argument, 1, 0))
      BY <2>2 DEF Passed
    <3> DEFINE a == Argument
    <3>2. a \in Paths /\ 0 \in 0 .. Len(a)
      BY <2>4
    <3> HIDE DEF a
    <3>3. PICK f : NamesBy(f, a) /\ \A m \in 0 .. Len(a) : Names(SubSeq(a, 1, m)) = f[m]
      BY <3>2, NamesOfParts
    <3>4. Names(SubSeq(a, 1, 0)) = <<>>
      BY <3>2, <3>3 DEF NamesBy
    <3>5. Passed' = <<>> /\ Len(<<>>) = 0 /\ <<>> \in Paths
      BY <3>1, <3>4, EmptySeq DEF a, Paths
    <3> QED BY <3>5 DEF NonemptyPrefixes
  <2>6. MkdirAbove'
    BY <1>2, <2>2, <2>4, <2>5 DEF MkdirAbove
  <2>7. touched = {} => MkdirSoFar[run.i - 1] = [tree |-> tree, code |-> 0]
    BY <1>4, <2>1
  <2>8. WithParents(tree, Passed') = tree
    BY <1>2, <2>5 DEF WithParents
  <2>9. ASSUME NEW r, r = [tree |-> tree, code |-> 0] PROVE Underway(r)'
    <3>1. r.code = 0 /\ r.tree = tree /\ WellFormed(r.tree)' /\ r.tree \in [Path -> Kind]
      BY <1>2, <2>9 DEF WellFormed
    <3>2. tree' = WithParents(r.tree, Passed')
      BY <1>2, <2>8, <3>1
    <3> QED BY <3>1, <3>2 DEF Underway, WithParents
  <2>10. MkdirAlone'
    <3>1. MkdirSoFar' = MkdirSoFar
      BY <1>2 DEF MkdirSoFar
    <3> QED BY <3>1, <1>2, <2>2, <2>7, <2>9 DEF MkdirAlone
  <2>11. MkdirFails'
    BY <2>2 DEF MkdirFails
  <2> QED BY <1>2, <2>2, <2>6, <2>10, <2>11 DEF MkdirAsked
<1> QED BY <1>5, <1>6, <1>7

\* One argument without -p.
LEMMA MkdirAskedPlain == MkdirInv /\ MkdirAsked /\ MkdirPlain => MkdirAsked'
<1> SUFFICES ASSUME MkdirInv, MkdirAsked, MkdirPlain PROVE MkdirAsked'
  OBVIOUS
<1> DEFINE a == Argument
           r == MkdirSoFar[run.i - 1]
<1>1. /\ cmd.util = "mkdir" /\ run.pc = "mkdir" /\ UNCHANGED <<start, touched, cmd>>
      /\ Mkdir(Names(run.path), cmd.mode)
      /\ IF Error(Names(run.path)) = "none" THEN Continue ELSE Exits(1)
  BY DEF MkdirPlain, At
<1>2. /\ MkdirTypeOK /\ WellFormed(tree) /\ run \in MkdirRun /\ tree \in [Path -> Kind]
      /\ run.i \in 1 .. Len(cmd.args) /\ run.path = a /\ a \in Paths
      /\ Names(a) \in Paths /\ NonemptyPrefixes(Names(a)) \subseteq Path
      /\ cmd.mode \in {"dir", "moded"} /\ Len(cmd.args) \in Nat
      /\ MkdirSoFar[run.i] = MkdirArgument(r, a, cmd.flag, cmd.mode, "dir")
  BY <1>1, MkdirIsAt
<1>3. ~ cmd.flag /\ (touched = {} => r = [tree |-> tree, code |-> 0])
  BY <1>1 DEF MkdirAsked, MkdirAbove, MkdirAlone
<1>4. cmd.flag = FALSE
  BY <1>2, <1>3, FsAssumption DEF MkdirTypeOK
<1> HIDE DEF a, r
<1>5. touched = {} =>
         MkdirSoFar[run.i] = IF Error(Names(a)) = "none"
                             THEN [tree |-> [tree EXCEPT ![Names(a)] = cmd.mode], code |-> 0]
                             ELSE [tree |-> tree, code |-> 1]
  BY <1>2, <1>3, <1>4, PlainIs, ZenonT(60)
<1>6. CASE Error(Names(a)) # "none"
  <2>1. tree' = tree /\ Exits(1)
    BY <1>1, <1>2, <1>6 DEF Mkdir
  <2>2. run.i \in 0 .. Len(cmd.args)
    BY <1>2
  <2>3. touched = {} => MkdirSoFar[run.i].tree = tree /\ MkdirSoFar[run.i].code = 1
    BY <1>5, <1>6
  <2>4. touched = {} => MkdirReference("dir") = [tree |-> tree, code |-> 1]
    BY <2>2, <2>3, <1>2, MkdirFailStays
  <2>5. Keeps
    BY <2>1, <1>1 DEF Keeps
  <2> QED BY <1>1, <1>3, <2>1, <2>4, <2>5, MkdirExits
<1>7. CASE Error(Names(a)) = "none"
  <2>1. tree' = [tree EXCEPT ![Names(a)] = cmd.mode] /\ Continue
    BY <1>1, <1>2, <1>7 DEF Mkdir
  <2>2. run'.pc = "arg" /\ run'.i = run.i + 1 /\ run.i + 1 - 1 = run.i
    BY <1>2, <2>1 DEF Continue, MkdirRun
  <2>3. cmd.args # <<>> /\ run.i + 1 <= Len(cmd.args) + 1
    <3>1. Len(cmd.args) # 0 /\ Len(<<>>) = 0
      BY <1>2
    <3> QED BY <3>1, <1>2
  <2>4. touched = {} => MkdirSoFar[run.i] = [tree |-> tree', code |-> 0]
    BY <1>5, <1>7, <2>1
  <2>5. MkdirSoFar' = MkdirSoFar
    BY <1>1 DEF MkdirSoFar
  <2>6. MkdirAlone'
    BY <1>1, <1>2, <2>2, <2>3, <2>4, <2>5 DEF MkdirAlone
  <2> QED BY <1>1, <2>2, <2>3, <2>6 DEF MkdirAsked, MkdirAbove, MkdirFails
<1> QED BY <1>6, <1>7

\* What is above a prefix is above the path.
LEMMA PrefixesOfPart ==
  ASSUME NEW p \in Paths, NEW b \in Paths, IsPrefix(p, b)
  PROVE  NonemptyPrefixes(p) \subseteq NonemptyPrefixes(b)
<1> SUFFICES ASSUME NEW q \in NonemptyPrefixes(p) PROVE q \in NonemptyPrefixes(b)
  OBVIOUS
<1>1. PICK i \in 1 .. Len(p) : q = SubSeq(p, 1, i)
  BY DEF NonemptyPrefixes
<1>2. i \in 0 .. Len(p) /\ Len(p) \in Nat /\ i # 0 /\ i <= Len(p)
  <2>1. Len(p) \in Nat
    BY LenProperties DEF Paths
  <2> QED BY <2>1
<1>3. q \in Paths /\ Len(q) = i /\ \A k \in 1 .. i : q[k] = p[k]
  BY <1>1, <1>2, PartsAre
<1>4. IsPrefix(q, p) /\ q # <<>>
  BY <1>2, <1>3, PrefixIs
<1>5. IsPrefix(q, b)
  BY <1>3, <1>4, PrefixOfPrefix
<1> QED BY <1>3, <1>4, <1>5, PrefixAmong

\* mkdir leaves alone what was there, and so does its reference.
LEMMA SoFarKeeps ==
  ASSUME MkdirTypeOK, NEW h \in Path, start[h] # "none", NEW i \in 0 .. Len(cmd.args)
  PROVE  MkdirSoFar[i].tree[h] = start[h]
<1> DEFINE n == Len(cmd.args)
           R == MkdirSoFar
           P == {k \in 0 .. n : R[k].tree[h] = start[h]}
<1>0. /\ n \in Nat /\ R[0].tree = start
      /\ \A k \in 1 .. n : R[k] = MkdirArgument(R[k - 1], cmd.args[k], cmd.flag, cmd.mode, "dir")
      /\ \A k \in 0 .. n : R[k] \in MkdirResult
      /\ \A k \in 1 .. n : Names(cmd.args[k]) \in Paths
      /\ cmd.flag \in BOOLEAN
  <2>1. n \in Nat /\ \A k \in 1 .. n : Names(cmd.args[k]) \in Paths
    BY MkdirArgsAre
  <2>2. cmd.flag \in BOOLEAN
    BY FsAssumption DEF MkdirTypeOK
  <2> QED BY <2>1, <2>2, MkdirSoFarIs
<1> HIDE DEF R, n
<1>1. 0 \in P
  BY <1>0
<1>2. ASSUME NEW k \in 0 .. n - 1, k \in P PROVE k + 1 \in P
  <2>1. k + 1 \in 1 .. n /\ k + 1 \in 0 .. n /\ k + 1 - 1 = k /\ k \in 0 .. n
    BY <1>0
  <2> DEFINE a == cmd.args[k + 1]
             r == R[k]
             u == Makes(r.tree, a, cmd.flag, cmd.mode)
  <2>2. R[k + 1] = MkdirArgument(r, a, cmd.flag, cmd.mode, "dir") /\ r \in MkdirResult
        /\ Names(a) \in Paths /\ r.tree[h] = start[h]
    BY <2>1, <1>0, <1>2
  <2> HIDE DEF a, r
  <2>3. MkdirArgument(r, a, cmd.flag, cmd.mode, "dir") \in {Fail(r), [r EXCEPT !.tree = u]}
    BY <2>2, <1>0, MkdirArgumentIs
  <2>4. u[h] = start[h]
    BY <2>2 DEF Makes
  <2> HIDE DEF u
  <2>5. [r EXCEPT !.tree = u].tree = u /\ Fail(r).tree = r.tree
    BY <2>2 DEF Fail, MkdirResult
  <2> QED BY <2>1, <2>2, <2>3, <2>4, <2>5
<1>3. \A k \in 0 .. n : k \in P
  <2> HIDE DEF P
  <2> QED BY <1>0, <1>1, <1>2, StepByStep
<1> QED BY <1>3 DEF n, R

\* mkdir -p finds no directory above the path it is at: a file that was there
\* when it started, or something that others changed.
LEMMA MkdirBlocked ==
  ASSUME MkdirInv, MkdirAsked, cmd.util = "mkdir", run.pc = "parent", Keeps, Exits(1),
         Passed \in Paths, NEW p \in Paths, p = Passed \/ (p # <<>> /\ Front(p) = Passed),
         NonemptyPrefixes(p) \subseteq NonemptyPrefixes(Names(Argument)), Error(p) = "ENOENT"
  PROVE  MkdirAsked'
<1> DEFINE a == Argument
           g == Passed
           h == Front(p)
           r == MkdirSoFar[run.i - 1]
<1>1. /\ MkdirTypeOK /\ WellFormed(tree) /\ tree \in [Path -> Kind] /\ MakesOnlyWanted
      /\ run.i \in 1 .. Len(cmd.args) /\ run.i \in 0 .. Len(cmd.args)
      /\ Names(a) \in Paths /\ NonemptyPrefixes(Names(a)) \subseteq Path
      /\ MkdirSoFar[run.i] = MkdirArgument(r, a, cmd.flag, cmd.mode, "dir")
      /\ run.i - 1 \in 0 .. Len(cmd.args)
  <2>1. /\ MkdirTypeOK /\ WellFormed(tree) /\ tree \in [Path -> Kind] /\ MakesOnlyWanted
        /\ run.i \in 1 .. Len(cmd.args) /\ run.i - 1 \in 0 .. Len(cmd.args)
        /\ Names(a) \in Paths /\ NonemptyPrefixes(Names(a)) \subseteq Path
        /\ MkdirSoFar[run.i] = MkdirArgument(r, a, cmd.flag, cmd.mode, "dir")
    BY MkdirIsAt
  <2>2. run.i \in 0 .. Len(cmd.args)
    BY <2>1
  <2> QED BY <2>1, <2>2
<1>2. /\ cmd.flag /\ cmd.flag = TRUE
      /\ \A q \in NonemptyPrefixes(g) : tree[q] # "none" \/ q \in touched
      /\ touched = {} => Underway(r)
  <2>1. cmd.flag \in BOOLEAN
    BY <1>1, FsAssumption DEF MkdirTypeOK
  <2>2. /\ cmd.flag
        /\ \A q \in NonemptyPrefixes(g) : tree[q] # "none" \/ q \in touched
        /\ touched = {} => Underway(r)
    BY DEF MkdirAsked, MkdirAbove, MkdirAlone
  <2> QED BY <2>1, <2>2
<1>3. p # <<>> /\ tree[p] = "none" /\ h # <<>> /\ ~ IsDir(tree[h])
  <2>1. Error(p) = IF p = <<>> \/ tree[p] # "none" THEN "EEXIST"
                   ELSE IF Front(p) # <<>> /\ ~ IsDir(tree[Front(p)]) THEN "ENOENT" ELSE "none"
    BY <1>1, ErrorIs
  <2> QED BY <2>1
<1>4. /\ h \in Paths /\ NonemptyPrefixes(p) = NonemptyPrefixes(h) \cup {p}
      /\ h \in NonemptyPrefixes(h) /\ p \notin NonemptyPrefixes(h)
  BY <1>3, OneMoreName
<1>5. p \in Path /\ h \in Path /\ h \in NonemptyPrefixes(g)
  BY <1>1, <1>4
<1>6. h \in StrictlyAbove(Names(a))
  <2>1. Names(a) # <<>>
    <3>1. NonemptyPrefixes(Names(a)) # {} /\ Len(<<>>) = 0
      BY <1>4
    <3> QED BY <3>1 DEF NonemptyPrefixes
  <2>2. NonemptyPrefixes(Names(a)) = NonemptyPrefixes(Front(Names(a))) \cup {Names(a)}
        /\ Front(Names(a)) \in Paths
    BY <1>1, <2>1, OneMoreName
  <2>3. h # Names(a)
    <3>1. p \in NonemptyPrefixes(Names(a)) /\ p \notin NonemptyPrefixes(h)
      BY <1>4
    <3> QED BY <3>1
  <2>4. h \in NonemptyPrefixes(Names(a))
    BY <1>4
  <2> QED BY <2>1, <2>2, <2>3, <2>4 DEF StrictlyAbove
<1> HIDE DEF a, g, h, r
<1>7. MkdirReference("dir").code = 1 \/ \E q \in touched : ~ IsDir(tree[q])
  <2> SUFFICES ASSUME h \notin touched PROVE MkdirReference("dir").code = 1
    BY <1>3
  <2>1. tree[h] # "none"
    BY <1>2, <1>5
  <2>2. start[h] = tree[h]
    BY <1>3, <1>5 , <1>1 DEF MakesOnlyWanted
  <2>3. r.tree[h] = start[h]
    BY <1>1, <1>5, <2>1, <2>2, SoFarKeeps DEF r
  <2>4. Blocked(r.tree, Names(a))
    <3>1. tree[h] \notin {"none", "dir", "moded"}
      BY <1>3, <2>1 DEF IsDir
    <3> QED BY <3>1, <2>2, <2>3, <1>6 DEF Blocked
  <2>5. MkdirSoFar[run.i] = Fail(r)
    <3>1. \A b \in BOOLEAN : MkdirArgument(r, a, b, cmd.mode, "dir") =
            IF r.code = 1 \/ Blocked(r.tree, Names(a)) \/ (~ b /\ Refused(r.tree, Names(a)))
            THEN Fail(r) ELSE [r EXCEPT !.tree = Makes(r.tree, a, b, cmd.mode)]
      BY <1>1, MkdirArgumentIs
    <3>2. MkdirArgument(r, a, TRUE, cmd.mode, "dir") = Fail(r)
      BY <3>1, <2>4, Zenon
    <3> QED BY <3>2, <1>1, <1>2
  <2>6. r \in MkdirResult
    BY <1>1, MkdirSoFarIs DEF r
  <2>7. MkdirSoFar[run.i].code = 1
    BY <2>5, <2>6 DEF Fail, MkdirResult
  <2> QED BY <2>7, <1>1, MkdirFailStays
<1>8. ASSUME touched = {} PROVE MkdirReference("dir") = [tree |-> tree, code |-> 1]
  <2>1. /\ r.code = 0 /\ r.tree \in [Path -> Kind] /\ WellFormed(r.tree)
        /\ tree = WithParents(r.tree, g)
    BY <1>2, <1>8 DEF Underway, g
  <2>2. p # g
    <3>1. p = g => p \in NonemptyPrefixes(g)
      BY <1>4
    <3> QED BY <3>1, <1>2, <1>3, <1>8
  <2>3. h = g /\ NonemptyPrefixes(g) \subseteq Path
    <3>1. h = g
      BY <2>2 DEF g, h
    <3> QED BY <3>1, <1>1, <1>4 DEF a
  <2>4. r.tree = tree /\ MkdirArgument(r, a, TRUE, cmd.mode, "dir") = Fail(r)
    <3>1. g \in Paths /\ g # <<>> /\ ~ IsDir(tree[g]) /\ g \in StrictlyAbove(Names(a))
      BY <2>3, <1>3, <1>4, <1>6
    <3>2. Names(a) \in Paths /\ NonemptyPrefixes(g) \subseteq Path
      BY <2>3, <1>1
    <3> QED BY <3>1, <3>2, <2>1, ParentsBlocked
  <2>5. r \in MkdirResult
    BY <1>1, MkdirSoFarIs DEF r
  <2>6. MkdirSoFar[run.i].tree = tree /\ MkdirSoFar[run.i].code = 1
    <3>1. Fail(r).tree = r.tree /\ Fail(r).code = 1
      BY <2>5 DEF Fail, MkdirResult
    <3>2. MkdirSoFar[run.i] = MkdirArgument(r, a, TRUE, cmd.mode, "dir")
      BY <1>1, <1>2
    <3> QED BY <3>1, <3>2, <2>4
  <2> QED BY <2>6, <1>1, MkdirFailStays
<1> QED BY <1>7, <1>8, MkdirExits

\* What mkdir -p passes with the text up to its element n.
LEMMA PassedIs ==
  ASSUME MkdirInv, MkdirAsked, cmd.util = "mkdir", run.pc = "parent",
         NEW n \in run.at .. Len(run.path), \A i \in run.at + 1 .. n : run.path[i] # "/",
         NEW p, p = Names(SubSeq(run.path, 1, n))
  PROVE  /\ p \in Paths /\ Passed \in Paths
         /\ p = Passed \/ (p # <<>> /\ Front(p) = Passed)
         /\ NonemptyPrefixes(p) \subseteq NonemptyPrefixes(Names(Argument))
         /\ NonemptyPrefixes(Passed) \subseteq NonemptyPrefixes(Names(Argument))
         /\ n < Len(run.path) /\ run.path[n + 1] = "/" => Names(SubSeq(run.path, 1, n + 1)) = p
         /\ n = Len(run.path) =>
               /\ p = Names(Argument)
               /\ p # <<>> => (p = Passed <=> Last(Argument) = "/")
<1> DEFINE s == run.path
           m == run.at
<1>1. /\ s \in Paths /\ s = Argument /\ Apart(s) /\ Names(s) \in Paths
      /\ m \in 0 .. Len(s) /\ (m # 0 => s[m] = "/")
  BY MkdirIsAt DEF MkdirAsked, MkdirAbove
<1>2. Len(s) \in Nat /\ m \in Nat /\ n \in Nat /\ m <= n /\ n <= Len(s) /\ n \in 0 .. Len(s)
  <2>1. Len(s) \in Nat
    BY <1>1, LenProperties DEF Paths
  <2> QED BY <2>1, <1>1
<1> HIDE DEF s, m
<1>3. LET b == Names(SubSeq(s, 1, m))
          c == Names(SubSeq(s, 1, n))
      IN  /\ b \in Paths /\ c \in Paths
          /\ m = n => c = b
          /\ m # n => c # <<>> /\ Front(c) = b /\ Len(c) = Len(b) + 1
          /\ n < Len(s) /\ s[n + 1] = "/" => Names(SubSeq(s, 1, n + 1)) = c
          /\ n = Len(s) => c = Names(s)
  <2>1. n \in m .. Len(s) /\ \A i \in m + 1 .. n : s[i] # "/"
    BY DEF s, m
  <2> QED BY <2>1, <1>1, NextName
<1>4. Passed = Names(SubSeq(s, 1, m)) /\ p = Names(SubSeq(s, 1, n))
  BY DEF Passed, s, m
<1>5. IsPrefix(p, Names(s)) /\ IsPrefix(Passed, Names(s))
  BY <1>1, <1>2, <1>4, NamesOfPart
<1>6. NonemptyPrefixes(p) \subseteq NonemptyPrefixes(Names(s))
      /\ NonemptyPrefixes(Passed) \subseteq NonemptyPrefixes(Names(s))
  BY <1>1, <1>3, <1>4, <1>5, PrefixesOfPart
<1>7. ASSUME n = Len(s), p # <<>> PROVE p = Passed <=> Last(s) = "/"
  <2>1. Last(s) = s[Len(s)]
    BY DEF Last
  <2>2. CASE m = n
    <3>1. m # 0
      <4>1. ASSUME Len(s) = 0 PROVE FALSE
        <5>1. s = <<>>
          BY <1>1, <4>1, EmptySeq DEF Paths
        <5>2. PICK f : NamesBy(f, s) /\ Names(s) = f[Len(s)]
          BY <1>1, NamesAre
        <5>3. Names(s) = <<>>
          BY <5>2, <4>1 DEF NamesBy
        <5> QED BY <5>3, <1>3, <1>4, <1>7
      <4> QED BY <4>1, <2>2, <1>7
    <3> QED BY <3>1, <2>1, <2>2, <1>1, <1>3, <1>4, <1>7
  <2>3. CASE m # n
    <3>1. p # Passed
      <4>1. Len(p) = Len(Passed) + 1 /\ Len(Passed) \in Nat
        BY <2>3, <1>3, <1>4, LenProperties DEF Paths
      <4> QED BY <4>1
    <3>2. n \in m + 1 .. n
      BY <2>3, <1>2
    <3>3. s[n] # "/"
      BY <3>2 DEF s, m
    <3> QED BY <3>1, <3>3, <2>1, <1>7
  <2> QED BY <2>2, <2>3
<1>8. p = Passed \/ (p # <<>> /\ Front(p) = Passed)
  BY <1>3, <1>4
<1> QED BY <1>1, <1>3, <1>4, <1>6, <1>7, <1>8 DEF s

\* What comes before a slash.
LEMMA MkdirAskedParents == MkdirInv /\ MkdirAsked /\ CreateParents => MkdirAsked'
<1> SUFFICES ASSUME MkdirInv, MkdirAsked, CreateParents PROVE MkdirAsked'
  OBVIOUS
<1> DEFINE j == CHOOSE j \in Slashes : \A k \in Slashes : j <= k
           s == run.path
           p == Names(SubSeq(s, 1, j - 1))
           kind == "dir"
<1>1. /\ cmd.util = "mkdir" /\ run.pc = "parent" /\ Slashes # {}
      /\ UNCHANGED <<start, touched, cmd>>
      /\ IF j > 1 /\ Error(p) = "ENOENT" THEN Exits(1) /\ UNCHANGED tree
         ELSE /\ IF j = 1 THEN UNCHANGED tree ELSE Mkdir(p, kind)
              /\ run' = [run EXCEPT !.at = j]
  BY DEF CreateParents, At
<1>2. /\ MkdirTypeOK /\ WellFormed(tree) /\ run \in MkdirRun /\ tree \in [Path -> Kind]
      /\ MakesOnlyWanted /\ run.i \in 1 .. Len(cmd.args) /\ s = Argument /\ s \in Paths
      /\ Names(s) \in Paths /\ NonemptyPrefixes(Names(s)) \subseteq Path
      /\ run.i <= Len(cmd.args) + 1
  BY <1>1, MkdirIsAt
<1>3. /\ cmd.flag /\ run.at \in 0 .. Len(s) /\ Len(s) \in Nat
      /\ touched = {} => Underway(MkdirSoFar[run.i - 1])
  <2>1. Len(s) \in Nat
    BY <1>2, LenProperties DEF Paths
  <2> QED BY <2>1, <1>1 DEF MkdirAsked, MkdirAbove, MkdirAlone
<1>4. j \in Slashes /\ \A k \in Slashes : j <= k
  <2>1. Slashes \in SUBSET Nat
    BY <1>3 DEF Slashes
  <2>2. \E i \in Slashes : \A k \in Slashes : i <= k
    BY <1>1, <2>1, MinIsLeast
  <2> QED BY <2>2
<1> HIDE DEF j
<1>5. /\ j \in run.at + 1 .. Len(s) /\ s[j] = "/"
      /\ \A k \in run.at + 1 .. Len(s) : s[k] = "/" => j <= k
  BY <1>4 DEF Slashes
<1>6. /\ j - 1 \in run.at .. Len(s) /\ j - 1 < Len(s) /\ j - 1 + 1 = j /\ j \in 0 .. Len(s)
      /\ j # 0 /\ (j = 1 => j - 1 = 0) /\ (~ (j > 1) => j = 1)
      /\ \A i \in run.at + 1 .. j - 1 : s[i] # "/"
  <2>1. ASSUME NEW i \in run.at + 1 .. j - 1 PROVE i \in run.at + 1 .. Len(s) /\ ~ (j <= i)
    <3> HIDE DEF s
    <3> QED BY <1>3, <1>5
  <2> HIDE DEF s
  <2> QED BY <2>1, <1>3, <1>5
<1>7. /\ p \in Paths /\ Passed \in Paths
      /\ p = Passed \/ (p # <<>> /\ Front(p) = Passed)
      /\ NonemptyPrefixes(p) \subseteq NonemptyPrefixes(Names(Argument))
      /\ NonemptyPrefixes(Passed) \subseteq NonemptyPrefixes(Names(Argument))
      /\ Names(SubSeq(s, 1, j)) = p
  <2> DEFINE n == j - 1
  <2>1. n \in run.at .. Len(s) /\ (\A i \in run.at + 1 .. n : s[i] # "/")
        /\ n < Len(s) /\ n + 1 = j /\ s[n + 1] = "/"
    BY <1>5, <1>6
  <2>2. p = Names(SubSeq(s, 1, n))
    OBVIOUS
  <2> HIDE DEF n, p
  <2> QED BY <2>1, <2>2, <1>1, PassedIs
<1>8. p # <<>> => p \in Wanted /\ p \in Path
  <2>1. NonemptyPrefixes(Names(Argument)) \subseteq Wanted
    BY <1>2, MkdirArgsAre DEF Argument
  <2> HIDE DEF p
  <2>2. p # <<>> => p \in NonemptyPrefixes(p)
    BY <1>7, OneMoreName
  <2> QED BY <2>1, <2>2, <1>2, <1>7
<1>9. CASE j > 1 /\ Error(p) = "ENOENT"
  <2>1. Keeps /\ Exits(1)
    BY <1>1, <1>9 DEF Keeps
  <2> HIDE DEF p
  <2> QED BY <2>1, <1>1, <1>7, <1>9, MkdirBlocked
<1>10. CASE ~ (j > 1 /\ Error(p) = "ENOENT")
  <2>1. run' = [run EXCEPT !.at = j] /\ (j # 1 => Mkdir(p, kind)) /\ (j = 1 => UNCHANGED tree)
    BY <1>1, <1>10
  <2>2. Mkdir(p, kind) /\ Error(p) # "ENOENT"
    <3>1. CASE j = 1
      <4>1. PICK f : NamesBy(f, s) /\ \A m \in 0 .. Len(s) : Names(SubSeq(s, 1, m)) = f[m]
        <5> HIDE DEF s
        <5> QED BY <1>2, NamesOfParts
      <4>2. p = <<>>
        <5>1. 0 \in 0 .. Len(s) /\ j - 1 = 0
          BY <1>3, <1>6, <3>1
        <5> QED BY <4>1, <5>1 DEF NamesBy
      <4> HIDE DEF p
      <4>3. Error(p) = "EEXIST"
        BY <4>2, <1>2, <1>7, ErrorIs
      <4> QED BY <4>3, <2>1, <3>1 DEF Mkdir
    <3>2. CASE j # 1
      BY <3>2, <2>1, <1>6, <1>10
    <3> QED BY <3>1, <3>2
  <2>3. run'.pc = "parent" /\ run'.i = run.i /\ run'.path = s /\ run'.at = j
    BY <2>1, <1>1, <1>2 DEF MkdirRun
  <2>4. Passed' = p
    <3>1. Passed' = Names(SubSeq(s, 1, j))
      BY <2>3 DEF Passed
    <3> QED BY <3>1, <1>7
  <2> HIDE DEF p, s
  <2>5. /\ tree' \in [Path -> Kind] /\ WellFormed(tree)' /\ (p # <<>> => tree'[p] # "none")
    BY <2>2, <1>1, <1>2, <1>7, <1>8, MkdirOne
  <2>6. \A q \in NonemptyPrefixes(p) : tree'[q] # "none"
    <3> DEFINE t == tree'
    <3>1. WellFormed(t) /\ (p # <<>> => t[p] # "none") /\ NonemptyPrefixes(p) \subseteq Path
      BY <2>5, <1>2, <1>7 DEF WellFormed
    <3> HIDE DEF t
    <3>2. \A q \in NonemptyPrefixes(p) : t[q] # "none"
      BY <3>1, <1>7, AboveIsThere
    <3> QED BY <3>2 DEF t
  <2>7. MkdirAbove'
    BY <2>3, <2>4, <2>6, <1>1, <1>3, <1>5, <1>6 DEF MkdirAbove
  <2>8. ASSUME NEW r, Underway(r) PROVE Underway(r)'
    <3> DEFINE t == r.tree
    <3>1. t \in [Path -> Kind] /\ tree = WithParents(t, Passed) /\ WellFormed(t) /\ r.code = 0
      BY <2>8 DEF Underway
    <3> HIDE DEF t
    <3>2. NonemptyPrefixes(p) \subseteq Path /\ NonemptyPrefixes(Passed) \subseteq Path
      BY <1>2, <1>7
    <3>3. tree' = [q \in Path |-> IF q \in NonemptyPrefixes(p) /\ t[q] = "none"
                                  THEN IF q = p /\ p # Passed THEN kind ELSE "dir"
                                  ELSE t[q]]
      BY <3>1, <3>2, <2>2, <1>2, <1>7, ParentsMake
    <3>4. tree' = WithParents(t, p)
      BY <3>3 DEF WithParents
    <3>5. WithParents(t, p) = WithParents(t, Passed)'
      BY <2>4, <1>1 DEF WithParents
    <3> QED BY <3>1, <3>4, <3>5 DEF Underway, t, WellFormed
  <2>9. MkdirAlone'
    <3>1. MkdirSoFar' = MkdirSoFar
      BY <1>1 DEF MkdirSoFar
    <3> QED BY <3>1, <1>1, <1>3, <2>3, <2>8 DEF MkdirAlone
  <2> QED BY <1>1, <1>2, <2>3, <2>7, <2>9 DEF MkdirAsked, MkdirFails
<1> QED BY <1>9, <1>10

\* The text to its end.
LEMMA MkdirAskedLast == MkdirInv /\ MkdirAsked /\ CreateLast => MkdirAsked'
<1> SUFFICES ASSUME MkdirInv, MkdirAsked, CreateLast PROVE MkdirAsked'
  OBVIOUS
<1> DEFINE a == Argument
           p == Names(a)
           r == MkdirSoFar[run.i - 1]
<1>1. /\ cmd.util = "mkdir" /\ run.pc = "parent" /\ Slashes = {}
      /\ UNCHANGED <<start, touched, cmd>> /\ Mkdir(Names(run.path), cmd.mode)
      /\ IF Error(Names(run.path)) = "ENOENT" THEN Exits(1) ELSE Continue
  BY DEF CreateLast, At
<1>2. /\ MkdirTypeOK /\ WellFormed(tree) /\ run \in MkdirRun /\ tree \in [Path -> Kind]
      /\ run.i \in 1 .. Len(cmd.args) /\ run.path = a /\ a \in Paths
      /\ p \in Paths /\ NonemptyPrefixes(p) \subseteq Path
      /\ cmd.mode \in {"dir", "moded"} /\ Len(cmd.args) \in Nat
      /\ MkdirSoFar[run.i] = MkdirArgument(r, a, cmd.flag, cmd.mode, "dir")
      /\ run.i - 1 \in 0 .. Len(cmd.args)
  BY <1>1, MkdirIsAt
<1>3. /\ cmd.flag = TRUE /\ run.at \in 0 .. Len(a) /\ Len(a) \in Nat
      /\ touched = {} => Underway(r)
  <2>1. Len(a) \in Nat /\ cmd.flag \in BOOLEAN
    BY <1>2, LenProperties, FsAssumption DEF MkdirTypeOK, Paths
  <2>2. /\ cmd.flag /\ run.at \in 0 .. Len(a) /\ (touched = {} => Underway(r))
    BY <1>1, <1>2 DEF MkdirAsked, MkdirAbove, MkdirAlone
  <2> QED BY <2>1, <2>2
<1> HIDE DEF a, r
<1>4. /\ Passed \in Paths
      /\ p = Passed \/ (p # <<>> /\ Front(p) = Passed)
      /\ NonemptyPrefixes(Passed) \subseteq Path
      /\ p # <<>> => (p = Passed <=> Last(a) = "/")
  <2> DEFINE n == Len(a)
             b == Names(SubSeq(run.path, 1, n))
  <2>1. n \in run.at .. Len(run.path) /\ n = Len(run.path)
    BY <1>2, <1>3
  <2>2. \A i \in run.at + 1 .. n : run.path[i] # "/"
    BY <1>1, <1>2 DEF Slashes
  <2> HIDE DEF n, b
  <2>3. /\ Passed \in Paths
        /\ b = Passed \/ (b # <<>> /\ Front(b) = Passed)
        /\ NonemptyPrefixes(Passed) \subseteq NonemptyPrefixes(Names(Argument))
        /\ b = Names(Argument)
        /\ b # <<>> => (b = Passed <=> Last(Argument) = "/")
    <3>1. b = Names(SubSeq(run.path, 1, n))
      BY DEF b
    <3> QED BY <2>1, <2>2, <3>1, <1>1, PassedIs
  <2> QED BY <2>3, <1>2 DEF a
<1> HIDE DEF p
<1>5. CASE Error(p) = "ENOENT"
  <2>1. Exits(1) /\ tree' = tree
    BY <1>1, <1>2, <1>5 DEF Mkdir, p
  <2>2. Keeps
    BY <2>1, <1>1 DEF Keeps
  <2>3. NonemptyPrefixes(p) \subseteq NonemptyPrefixes(Names(Argument))
    BY DEF p, a
  <2>4. p \in Paths /\ Passed \in Paths /\ cmd.util = "mkdir" /\ run.pc = "parent"
    BY <1>1, <1>2, <1>4
  <2>5. p = Passed \/ (p # <<>> /\ Front(p) = Passed)
    BY <1>4
  <2> QED BY <2>1, <2>2, <2>3, <2>4, <2>5, <1>5, MkdirBlocked
<1>6. CASE Error(p) # "ENOENT"
  <2>1. Mkdir(p, cmd.mode) /\ Continue
    BY <1>1, <1>2, <1>6 DEF p
  <2>2. run'.pc = "arg" /\ run'.i = run.i + 1 /\ run.i + 1 - 1 = run.i
    BY <1>2, <2>1 DEF Continue, MkdirRun
  <2>3. cmd.args # <<>> /\ run.i + 1 <= Len(cmd.args) + 1 /\ run.i \in 0 .. Len(cmd.args)
    <3>1. Len(cmd.args) # 0 /\ Len(<<>>) = 0
      BY <1>2
    <3> QED BY <3>1, <1>2
  <2>4. WellFormed(tree')
    <3>1. MkdirInv'
      BY MkdirLastKeeps
    <3> QED BY <3>1, <1>1 DEF MkdirInv, WellFormed
  <2>5. ASSUME touched = {} PROVE MkdirSoFar[run.i] = [tree |-> tree', code |-> 0]
    <3>1. r.code = 0 /\ r.tree \in [Path -> Kind] /\ tree = WithParents(r.tree, Passed)
      BY <1>3, <2>5 DEF Underway
    <3>2. /\ cmd.mode # "none" /\ Error(Names(a)) # "ENOENT" /\ Mkdir(Names(a), cmd.mode)
          /\ Names(a) \in Paths /\ NonemptyPrefixes(Names(a)) \subseteq Path
          /\ WellFormed(tree) /\ tree \in [Path -> Kind] /\ WellFormed(tree')
      BY <2>1, <2>4, <1>2, <1>6 DEF p
    <3>3. /\ Names(a) = Passed \/ (Names(a) # <<>> /\ Front(Names(a)) = Passed)
          /\ Names(a) # <<>> => (Names(a) = Passed <=> Last(a) = "/")
          /\ Passed \in Paths /\ NonemptyPrefixes(Passed) \subseteq Path
      BY <1>4 DEF p
    <3>4. MkdirArgument(r, a, TRUE, cmd.mode, "dir") = [r EXCEPT !.tree = tree']
      BY <3>1, <3>2, <3>3, ParentsDone
    <3>5. r \in MkdirResult
      BY <1>2, MkdirSoFarIs DEF r
    <3>6. [r EXCEPT !.tree = tree'] = [tree |-> tree', code |-> 0]
      BY <3>1, <3>5 DEF MkdirResult
    <3> QED BY <3>4, <3>6, <1>2, <1>3
  <2>6. MkdirSoFar' = MkdirSoFar
    BY <1>1 DEF MkdirSoFar
  <2>7. MkdirAlone'
    BY <1>1, <1>2, <2>2, <2>3, <2>5, <2>6 DEF MkdirAlone
  <2> QED BY <1>1, <2>2, <2>3, <2>7 DEF MkdirAsked, MkdirAbove, MkdirFails
<1> QED BY <1>5, <1>6

\* The other process: what it changes is touched, and it works only before the end.
LEMMA MkdirAskedTouch ==
  ASSUME MkdirInv, MkdirAsked, NEW p \in Path, NEW kind \in {"none", "file", "dir"},
         Touch(p, kind)
  PROVE  MkdirAsked'
<1> SUFFICES ASSUME cmd.util = "mkdir" PROVE MkdirAsked'
  BY DEF MkdirAsked, Touch
<1>1. /\ tree' = [tree EXCEPT ![p] = kind] /\ touched' = touched \cup {p}
      /\ UNCHANGED <<start, cmd, run>> /\ run.pc # "exit"
      /\ tree \in [Path -> Kind] /\ run.i <= Len(cmd.args) + 1 /\ MkdirAbove
  BY MkdirIsAt DEF Touch, MkdirAsked
<1>2. \A q : (tree[q] # "none" \/ q \in touched) /\ q \in Path
                => tree'[q] # "none" \/ q \in touched'
  BY <1>1
<1>3. MkdirAbove'
  <2>1. run.pc = "parent" => NonemptyPrefixes(Passed) \subseteq Path
    <3> SUFFICES ASSUME run.pc = "parent" PROVE NonemptyPrefixes(Passed) \subseteq Path
      OBVIOUS
    <3>1. /\ run.at \in 0 .. Len(run.path) /\ run.path = Argument /\ Argument \in Paths
          /\ Names(Argument) \in Paths /\ NonemptyPrefixes(Names(Argument)) \subseteq Path
      BY <1>1, MkdirIsAt DEF MkdirAbove
    <3>2. Passed \in Paths /\ IsPrefix(Passed, Names(Argument))
      BY <3>1, NamesOfPart DEF Passed
    <3> QED BY <3>1, <3>2, PrefixesOfPart
  <2>2. Passed' = Passed
    BY <1>1 DEF Passed
  <2> QED BY <1>1, <1>2, <2>1, <2>2 DEF MkdirAbove
<1> QED BY <1>1, <1>3 DEF MkdirAsked, MkdirAlone, MkdirFails

LEMMA MkdirAskedNextInv == MkdirInv /\ MkdirAsked /\ [FsNext]_fsVars => MkdirAsked'
<1> SUFFICES ASSUME MkdirInv, MkdirAsked, [FsNext]_fsVars PROVE MkdirAsked'
  OBVIOUS
<1>1. CASE UNCHANGED fsVars
  BY <1>1 DEF fsVars, MkdirAsked, MkdirAbove, MkdirFails, MkdirAlone, Passed, MkdirSoFar,
              MkdirReference, Underway, WithParents, WellFormed
<1>2. CASE MkdirOptions \/ MkdirNext
  BY <1>2, MkdirAskedNext
<1>3. CASE MkdirPlain \/ CreateParents \/ CreateLast
  BY <1>3, MkdirAskedPlain, MkdirAskedParents, MkdirAskedLast
<1>4. CASE RmUsage \/ RmNext \/ LstatArgument \/ LstatEntry \/ RecursiveRemove \/ ReadDir
           \/ Rmdir \/ RemoveFile
  <2>1. cmd.util = "rm" /\ cmd' = cmd
    BY <1>4 DEF RmUsage, RmNext, LstatArgument, LstatEntry, RecursiveRemove, ReadDir, Rmdir,
                RemoveFile, At, Keeps
  <2> QED BY <2>1 DEF MkdirAsked
<1>5. ASSUME NEW p \in Path, NEW kind \in {"none", "file", "dir"}, Touch(p, kind)
      PROVE  MkdirAsked'
  BY <1>5, MkdirAskedTouch
<1> QED BY <1>1, <1>2, <1>3, <1>4, <1>5 DEF FsNext

\* mkdir makes nothing but its arguments and what is above them, and they are
\* there when it reports success; mkdir -p does not fail because others make the
\* same directories; alone in the tree mkdir does, argument by argument, what was
\* asked (mkdir.c), but for the mode that -p gives a directory named with a slash
\* after it.
THEOREM MkdirDoesWhatIsAsked == FsSpec => []MkdirMakes
<1>1. MkdirInv /\ MkdirAsked
      /\ (cmd.util = "mkdir" => MakesOnlyWanted /\ WantedIsThere) => MkdirMakes
  <2> SUFFICES ASSUME MkdirInv, MkdirAsked, cmd.util = "mkdir", MakesOnlyWanted, WantedIsThere
               PROVE  MkdirMakes
    BY DEF MkdirMakes
  <2> DEFINE asked == MkdirReference("dir")
  <2>1. /\ Ended("mkdir", 1) /\ cmd.flag /\ (\A p \in touched : IsDir(tree[p])) => asked.code = 1
        /\ run.pc = "exit" /\ touched = {} => asked = [tree |-> tree, code |-> run.code]
    BY DEF MkdirAsked, MkdirFails, MkdirAlone, Ended, At
  <2>2. "dir" \in {"dir", cmd.mode}
    OBVIOUS
  <2> QED BY <2>1, <2>2 DEF MkdirMakes
<1>2. FsSpec => [](MkdirInv /\ MkdirAsked)
  BY MkdirInitInv, MkdirNextInv, MkdirAskedInit, MkdirAskedNextInv, PTL DEF FsSpec
<1> QED BY <1>1, <1>2, MkdirSafety, PTL

----------------------------------------------------------------------------
(* proc-lca *)

LcaSpec == LcaInit /\ [][LcaNext]_<<parent, lca>>

\* What /proc tells of the parents, while processes end.
Tree(t) == /\ t \in [Pid -> Gone .. MaxPid]
           /\ \A p \in Pid : t[p] < p /\ (t[p] = Kernel <=> p = 1)

\* A set of processes that holds the parents of its members.
Closed(A, t) == \A q \in A : t[q] \in A \cup {Kernel, Gone}

\* A process is among its ancestors, and so are the parents of all of them; and
\* no set that has these two properties is smaller.
LEMMA AncestorsAre ==
  ASSUME NEW t, Tree(t), NEW p \in Pid
  PROVE  /\ AncestorsIn(t, p) \subseteq Pid /\ p \in AncestorsIn(t, p)
         /\ Closed(AncestorsIn(t, p), t)
         /\ \A A \in SUBSET Pid :
               p \in A /\ Closed(A, t) => AncestorsIn(t, p) \subseteq A
<1> DEFINE n == MaxPid
           S == SUBSET Int
           step(A) == A \cup {t[q] : q \in A \cap Pid}
           up == CHOOSE u : u = [i \in 0 .. n |-> IF i = 0 THEN {p} ELSE step(u[i - 1])]
<1>0. /\ n \in Nat \ {0} /\ Pid = 1 .. n /\ p \in Int /\ {p} \in S
      /\ \A q \in Pid : t[q] \in Gone .. n /\ t[q] < q
  BY LcaAssumption DEF Tree, Pid
<1>1. \A A \in S : step(A) \in S
  <2>1. ASSUME NEW A \in S, NEW q \in A \cap Pid PROVE t[q] \in Int
    BY <1>0 DEF Gone
  <2> QED BY <2>1
<1> HIDE DEF step, S, n
<1>2. \E u : u = [i \in 0 .. n |-> IF i = 0 THEN {p} ELSE step(u[i - 1])]
  <2> DEFINE G == [i \in 1 .. n |-> [A \in S |-> step(A)]]
             origin == {p}
  <2>1. G \in [1 .. n -> [S -> S]] /\ origin \in S /\ n \in Nat
    BY <1>0, <1>1
  <2>2. \A i \in 1 .. n, A \in S : G[i][A] = step(A)
    OBVIOUS
  <2> HIDE DEF G, origin
  <2>3. PICK u \in [0 .. n -> S] : u[0] = origin /\ \A i \in 1 .. n : u[i] = G[i][u[i - 1]]
    BY <2>1, RecursionHasValue, SMTT(60)
  <2>4. \A i \in 0 .. n : u[i] = IF i = 0 THEN {p} ELSE step(u[i - 1])
    <3> TAKE i \in 0 .. n
    <3>1. CASE i = 0
      BY <3>1, <2>3 DEF origin
    <3>2. CASE i # 0
      <4>1. i \in 1 .. n /\ i - 1 \in 0 .. n
        BY <3>2, <2>1
      <4>2. u[i - 1] \in S /\ u[i] = G[i][u[i - 1]]
        BY <4>1, <2>3
      <4> QED BY <4>1, <4>2, <3>2, <2>2
    <3> QED BY <3>1, <3>2
  <2>5. u = [i \in 0 .. n |-> IF i = 0 THEN {p} ELSE step(u[i - 1])]
    BY <2>3, <2>4
  <2> QED BY <2>5
<1>3. up = [i \in 0 .. n |-> IF i = 0 THEN {p} ELSE step(up[i - 1])]
  BY <1>2
<1>4. AncestorsIn(t, p) = up[n] \cap Pid
  BY DEF AncestorsIn, up, step, n
<1> HIDE DEF up
<1>5. /\ up[0] = {p}
      /\ \A i \in 1 .. n : i - 1 \in 0 .. n /\ up[i] = step(up[i - 1])
  <2>1. \A i \in 0 .. n : up[i] = IF i = 0 THEN {p} ELSE step(up[i - 1])
    BY <1>3
  <2>2. 0 \in 0 .. n /\ \A i \in 1 .. n : i \in 0 .. n /\ i # 0 /\ i - 1 \in 0 .. n
    BY <1>0
  <2> QED BY <2>1, <2>2
<1>6. ASSUME NEW i \in 0 .. n
      PROVE  /\ p \in up[i]
             /\ \A q \in up[i] \cap Pid : q > p - i => t[q] \in up[i]
             /\ \A A \in SUBSET Pid : p \in A /\ Closed(A, t) =>
                    up[i] \subseteq A \cup {Kernel, Gone}
  <2> DEFINE Good(j) == /\ p \in up[j]
                        /\ \A q \in up[j] \cap Pid : q > p - j => t[q] \in up[j]
                        /\ \A A \in SUBSET Pid : p \in A /\ Closed(A, t) =>
                               up[j] \subseteq A \cup {Kernel, Gone}
             K == {j \in 0 .. n : ~ Good(j)}
  <2>1. Good(0)
    BY <1>5, <1>0
  <2>2. ASSUME NEW m \in 1 .. n, Good(m - 1) PROVE Good(m)
    <3>1. up[m] = up[m - 1] \cup {t[q] : q \in up[m - 1] \cap Pid}
      BY <1>5 DEF step
    <3>2. ASSUME NEW q \in up[m] \cap Pid, q > p - m PROVE t[q] \in up[m]
      <4>1. CASE q \in up[m - 1]
        BY <3>1, <4>1, <3>2
      <4>2. CASE q \notin up[m - 1]
        <5>1. PICK r \in up[m - 1] \cap Pid : q = t[r]
          BY <3>1, <3>2, <4>2
        <5>2. ~ (r > p - (m - 1))
          BY <2>2, <5>1, <4>2
        <5>3. q < r /\ q \in Int /\ r \in Int /\ m \in Int /\ p \in Int
          BY <1>0, <5>1, <3>2
        <5> QED BY <5>2, <5>3, <3>2
      <4> QED BY <4>1, <4>2
    <3>3. ASSUME NEW A \in SUBSET Pid, p \in A, Closed(A, t), NEW q \in up[m]
          PROVE  q \in A \cup {Kernel, Gone}
      <4>1. up[m - 1] \subseteq A \cup {Kernel, Gone}
        BY <2>2, <3>3
      <4>2. CASE q \in up[m - 1]
        BY <4>1, <4>2
      <4>3. CASE \E r \in up[m - 1] \cap Pid : q = t[r]
        <5>1. PICK r \in up[m - 1] \cap Pid : q = t[r]
          BY <4>3
        <5>2. r # Kernel /\ r # Gone
          BY <1>0 DEF Kernel, Gone
        <5>3. r \in A
          BY <4>1, <5>1, <5>2
        <5> QED BY <5>1, <5>3, <3>3 DEF Closed
      <4> QED BY <3>1, <4>2, <4>3
    <3> QED BY <2>2, <3>1, <3>2, <3>3
  <2> HIDE DEF Good
  <2>3. ASSUME K # {} PROVE FALSE
    <3>1. PICK m \in K : \A k \in K : m <= k
      <4>1. K \in SUBSET Nat
        OBVIOUS
      <4> HIDE DEF K
      <4> QED BY <4>1, <2>3, MinIsLeast
    <3>2. m # 0 /\ m \in 0 .. n
      BY <3>1, <2>1
    <3>3. m \in 1 .. n /\ m - 1 \in 0 .. n /\ ~ (m <= m - 1)
      BY <3>2, <1>0
    <3>4. Good(m - 1)
      BY <3>1, <3>3
    <3> QED BY <3>1, <3>3, <3>4, <2>2
  <2>4. Good(i)
    BY <2>3
  <2> QED BY <2>4 DEF Good
<1>7. n \in 0 .. n
  BY <1>0
<1>8. ASSUME NEW q \in AncestorsIn(t, p)
      PROVE  t[q] \in AncestorsIn(t, p) \cup {Kernel, Gone}
  <2>1. q \in up[n] /\ q \in Pid /\ q > p - n
    BY <1>0, <1>4
  <2>2. t[q] \in up[n]
    BY <1>6, <1>7, <2>1
  <2>3. t[q] \in Pid \/ t[q] = Kernel \/ t[q] = Gone
    BY <1>0, <2>1 DEF Kernel, Gone
  <2> QED BY <2>2, <2>3, <1>4
<1>9. ASSUME NEW A \in SUBSET Pid, p \in A, Closed(A, t)
      PROVE  AncestorsIn(t, p) \subseteq A
  <2>1. up[n] \subseteq A \cup {Kernel, Gone}
    BY <1>6, <1>7, <1>9
  <2>2. Kernel \notin Pid /\ Gone \notin Pid
    BY <1>0 DEF Kernel, Gone
  <2> QED BY <2>1, <2>2, <1>4
<1>10. AncestorsIn(t, p) \subseteq Pid /\ p \in AncestorsIn(t, p)
  BY <1>4, <1>6, <1>7
<1>11. Closed(AncestorsIn(t, p), t)
  BY <1>8 DEF Closed
<1> QED BY <1>9, <1>10, <1>11

\* How far two sequences agree, counted from their ends.
LEMMA AgreeIs ==
  ASSUME NEW xs \in Seq(Pid), NEW ys \in Seq(Pid)
  PROVE  /\ Agree(xs, ys) \in 0 .. Len(xs) /\ Agree(xs, ys) \in 0 .. Len(ys)
         /\ \A i \in 0 .. Agree(xs, ys) - 1 : xs[Len(xs) - i] = ys[Len(ys) - i]
         /\ \A n \in Nat : /\ n <= Len(xs) /\ n <= Len(ys)
                           /\ \A i \in 0 .. n - 1 : xs[Len(xs) - i] = ys[Len(ys) - i]
                           => n <= Agree(xs, ys)
<1>1. Len(xs) \in Nat /\ Len(ys) \in Nat
  BY LenProperties
<1> DEFINE least == Min({Len(xs), Len(ys)})
           lens == {n \in 0 .. least : \A i \in 0 .. n - 1 : xs[Len(xs) - i] = ys[Len(ys) - i]}
<1>2. least \in {Len(xs), Len(ys)} /\ least <= Len(xs) /\ least <= Len(ys) /\ least \in Nat
  <2>1. {Len(xs), Len(ys)} \in SUBSET Nat /\ {Len(xs), Len(ys)} # {}
    BY <1>1
  <2> QED BY <2>1, MinIsLeast
<1> HIDE DEF least
<1>3. 0 \in lens /\ lens \in SUBSET (0 .. least)
  BY <1>2
<1>4. Max(lens) \in lens /\ \A n \in lens : n <= Max(lens)
  <2> HIDE DEF lens
  <2> QED BY <1>2, <1>3, MaxIsGreatest
<1>5. Agree(xs, ys) = Max(lens)
  BY DEF Agree, least
<1>6. /\ Agree(xs, ys) \in 0 .. least
      /\ \A i \in 0 .. Agree(xs, ys) - 1 : xs[Len(xs) - i] = ys[Len(ys) - i]
  BY <1>4, <1>5
<1>7. ASSUME NEW n \in Nat, n <= Len(xs), n <= Len(ys),
             \A i \in 0 .. n - 1 : xs[Len(xs) - i] = ys[Len(ys) - i]
      PROVE  n <= Agree(xs, ys)
  <2>1. n \in lens
    BY <1>7, <1>2
  <2> HIDE DEF lens
  <2> QED BY <2>1, <1>4, <1>5
<1> QED BY <1>1, <1>2, <1>6, <1>7

\* A walk has stayed in the set A, and was not over at once.
Walked(s, at, A) ==
    /\ \A i \in 1 .. Len(s) : s[i] \in A
    /\ at \in A \cup {Kernel}
    /\ at = Kernel => s # <<>>

\* A walk that is over has come to the root.
Rooted(s, at) == at = Kernel => s[Len(s)] = 1

\* A walk has gone from x to `at' in the tree t, parent by parent.
ByParents(s, t) == \A i \in 1 .. Len(s) - 1 : s[i + 1] = t[s[i]]

Climbs(s, x, at, t) ==
    /\ s = <<>> => at = x
    /\ s # <<>> => s[1] = x /\ at = t[s[Len(s)]]
    /\ ByParents(s, t)

\* One turn of a loop of find_lca, to what the file of `at' tells.
LEMMA WalkOn ==
  ASSUME NEW t, Tree(t), NEW s \in Seq(Pid), NEW at \in Pid,
         NEW up, up = IF t[at] = Gone THEN Kernel ELSE t[at],
         NEW A \in SUBSET Pid, Closed(A, t), NEW x, Walked(s, at, A)
  PROVE  /\ Append(s, at) \in Seq(Pid) /\ up \in Pid \cup {Kernel}
         /\ Walked(Append(s, at), up, A)
         /\ t[at] # Gone => Rooted(Append(s, at), up)
         /\ t[at] # Gone /\ Climbs(s, x, at, t) => Climbs(Append(s, at), x, up, t)
<1> DEFINE r == Append(s, at)
<1>1. /\ r \in Seq(Pid) /\ Len(r) = Len(s) + 1 /\ Len(s) \in Nat /\ r # <<>>
      /\ r[Len(r)] = at /\ \A i \in 1 .. Len(s) : r[i] = s[i]
  BY AppendProperties, LenProperties
<1>2. at # Kernel /\ at \in A
  BY LcaAssumption DEF Walked, Pid, Kernel
<1>3. up \in A \cup {Kernel}
  BY <1>2 DEF Closed
<1> HIDE DEF r
<1>4. \A i \in 1 .. Len(r) : r[i] \in A
  <2> TAKE i \in 1 .. Len(r)
  <2>1. i = Len(r) \/ i \in 1 .. Len(s)
    BY <1>1
  <2> QED BY <2>1, <1>1, <1>2 DEF Walked
<1>5. ASSUME t[at] # Gone PROVE Rooted(r, up)
  <2>1. t[at] = Kernel => at = 1
    BY DEF Tree
  <2> QED BY <2>1, <1>1, <1>5 DEF Rooted
<1>6. Walked(r, up, A)
  BY <1>1, <1>3, <1>4 DEF Walked
<1>7. ASSUME t[at] # Gone, Climbs(s, x, at, t) PROVE Climbs(r, x, up, t)
  <2>1. r[1] = x
    <3>1. CASE s = <<>>
      <4>1. Len(r) = 1
        BY <1>1, <3>1
      <4> QED BY <4>1, <1>1, <1>7, <3>1 DEF Climbs
    <3>2. CASE s # <<>>
      <4>1. 1 \in 1 .. Len(s)
        BY <3>2, <1>1, EmptySeq
      <4> QED BY <4>1, <1>1, <1>7, <3>2 DEF Climbs
    <3> QED BY <3>1, <3>2
  <2>2. ASSUME NEW i \in 1 .. Len(r) - 1 PROVE r[i + 1] = t[r[i]]
    <3>1. i \in 1 .. Len(s) /\ r[i] = s[i]
      BY <1>1
    <3>2. CASE i = Len(s)
      <4>1. s # <<>> /\ r[i + 1] = at
        BY <3>1, <3>2, <1>1
      <4>2. at = t[s[Len(s)]]
        BY <4>1, <1>7 DEF Climbs
      <4> QED BY <4>1, <4>2, <3>1, <3>2
    <3>3. CASE i # Len(s)
      <4>1. i \in 1 .. Len(s) - 1 /\ i + 1 \in 1 .. Len(s)
        BY <3>1, <3>3, <1>1
      <4> QED BY <4>1, <3>1, <1>1, <1>7 DEF Climbs, ByParents
    <3> QED BY <3>2, <3>3
  <2>3. up = t[at]
    BY <1>7
  <2> QED BY <2>1, <2>2, <2>3, <1>1 DEF Climbs, ByParents
<1>8. up \in Pid \cup {Kernel}
  BY <1>3
<1> QED BY <1>1, <1>5, <1>6, <1>7, <1>8 DEF r

\* The ancestors of a process are on the walk from it to the root.
LEMMA OnWalk ==
  ASSUME NEW t, Tree(t), NEW x \in Pid, NEW s \in Seq(Pid), s # <<>>,
         Climbs(s, x, Kernel, t), NEW p \in AncestorsIn(t, x)
  PROVE  \E i \in 1 .. Len(s) : p = s[i]
<1> DEFINE R == {s[i] : i \in 1 .. Len(s)}
<1>1. Len(s) \in Nat /\ Len(s) # 0 /\ \A i \in 1 .. Len(s) : s[i] \in Pid
  BY LenProperties, ElementOfSeq, EmptySeq
<1>2. R \in SUBSET Pid
  BY <1>1
<1>3. x \in R
  BY <1>1 DEF Climbs
<1>4. Closed(R, t)
  <2> SUFFICES ASSUME NEW i \in 1 .. Len(s) PROVE t[s[i]] \in R \cup {Kernel}
    BY DEF Closed
  <2>1. CASE i = Len(s)
    BY <2>1 DEF Climbs
  <2>2. CASE i # Len(s)
    <3>1. i \in 1 .. Len(s) - 1 /\ i + 1 \in 1 .. Len(s)
      BY <2>2, <1>1
    <3> QED BY <3>1 DEF Climbs, ByParents
  <2> QED BY <2>1, <2>2
<1>5. p \in R
  <2> HIDE DEF R
  <2> QED BY <1>2, <1>3, <1>4, AncestorsAre
<1> QED BY <1>5

\* What a walk comes to is above what it has come from.
LEMMA WalkGoesUp ==
  ASSUME NEW t, Tree(t), NEW s \in Seq(Pid),
         ByParents(s, t),
         NEW a \in 1 .. Len(s), NEW b \in a .. Len(s)
  PROVE  s[b] \in AncestorsIn(t, s[a])
<1>1. Len(s) \in Nat /\ \A i \in 1 .. Len(s) : s[i] \in Pid
  BY LenProperties, ElementOfSeq
<1>2. /\ AncestorsIn(t, s[a]) \subseteq Pid /\ s[a] \in AncestorsIn(t, s[a])
      /\ Closed(AncestorsIn(t, s[a]), t)
  BY <1>1, AncestorsAre
<1> DEFINE A == AncestorsIn(t, s[a])
           K == {k \in a .. Len(s) : s[k] \notin A}
<1> HIDE DEF A
<1>3. ASSUME K # {} PROVE FALSE
  <2>1. PICK m \in K : \A k \in K : m <= k
    <3>1. K \in SUBSET Nat
      BY <1>1
    <3> HIDE DEF K
    <3> QED BY <3>1, <1>3, MinIsLeast
  <2>2. m # a
    BY <2>1, <1>2 DEF A
  <2>3. m - 1 \in a .. Len(s) /\ m - 1 \in 1 .. Len(s) - 1 /\ ~ (m <= m - 1)
        /\ m \in 1 .. Len(s) /\ (m - 1) + 1 = m
    BY <2>1, <2>2, <1>1
  <2>4. s[m - 1] \in A
    BY <2>1, <2>3
  <2>5. s[m] = t[s[m - 1]] /\ s[m] \in Pid
    BY <2>3, <1>1 DEF ByParents
  <2>6. s[m] # Kernel /\ s[m] # Gone
    BY <2>5, LcaAssumption, SMTT(30) DEF Pid, Kernel, Gone
  <2> QED BY <2>1, <2>4, <2>5, <2>6, <1>2 DEF A, Closed
<1> QED BY <1>3 DEF A

\* Two walks that meet have the same way to the root from there.
LEMMA SameRest ==
  ASSUME NEW t, Tree(t), NEW xs \in Seq(Pid), NEW ys \in Seq(Pid),
         ByParents(xs, t), ByParents(ys, t),
         xs[Len(xs)] = 1, ys[Len(ys)] = 1,
         NEW a \in 1 .. Len(xs), NEW b \in 1 .. Len(ys), xs[a] = ys[b]
  PROVE  /\ Len(xs) - a = Len(ys) - b
         /\ \A i \in 0 .. Len(xs) - a : xs[Len(xs) - i] = ys[Len(ys) - i]
<1>1. /\ Len(xs) \in Nat /\ \A i \in 1 .. Len(xs) : xs[i] \in Pid
      /\ Len(ys) \in Nat /\ \A i \in 1 .. Len(ys) : ys[i] \in Pid
  BY LenProperties, ElementOfSeq
<1>2. t[1] = Kernel /\ Kernel \notin Pid
  BY LcaAssumption DEF Tree, Pid, Kernel
<1>3. ASSUME NEW k \in Nat, a + k <= Len(xs), b + k <= Len(ys)
      PROVE  xs[a + k] = ys[b + k]
  <2> DEFINE K == {n \in Nat : a + n <= Len(xs) /\ b + n <= Len(ys)
                               /\ xs[a + n] # ys[b + n]}
  <2>1. ASSUME K # {} PROVE FALSE
    <3>1. PICK m \in K : \A n \in K : m <= n
      <4>1. K \in SUBSET Nat
        OBVIOUS
      <4> HIDE DEF K
      <4> QED BY <4>1, <2>1, MinIsLeast
    <3>2. m # 0
      BY <3>1, <1>1
    <3>3. /\ m - 1 \in Nat /\ ~ (m <= m - 1)
          /\ a + (m - 1) \in 1 .. Len(xs) - 1 /\ b + (m - 1) \in 1 .. Len(ys) - 1
          /\ (a + (m - 1)) + 1 = a + m /\ (b + (m - 1)) + 1 = b + m
      BY <3>1, <3>2, <1>1
    <3>4. xs[a + (m - 1)] = ys[b + (m - 1)]
      <4>1. a + (m - 1) <= Len(xs) /\ b + (m - 1) <= Len(ys)
        BY <3>3, <1>1
      <4>2. m - 1 \notin K
        BY <3>1, <3>3
      <4> QED BY <4>1, <4>2, <3>3
    <3>5. xs[a + m] = t[xs[a + (m - 1)]] /\ ys[b + m] = t[ys[b + (m - 1)]]
      BY <3>3 DEF ByParents
    <3> QED BY <3>1, <3>4, <3>5
  <2> QED BY <2>1, <1>3
<1>4. ~ (Len(xs) - a < Len(ys) - b)
  <2> SUFFICES ASSUME Len(xs) - a < Len(ys) - b PROVE FALSE
    OBVIOUS
  <2> DEFINE k == Len(xs) - a
  <2>1. k \in Nat /\ a + k = Len(xs) /\ b + k \in 1 .. Len(ys) - 1 /\ b + k + 1 \in 1 .. Len(ys)
        /\ b + k <= Len(ys)
    BY <1>1
  <2> HIDE DEF k
  <2>2. ys[b + k] = 1
    <3>1. xs[a + k] = ys[b + k]
      BY <2>1, <1>3
    <3> QED BY <3>1, <2>1
  <2>3. ys[b + k + 1] = Kernel
    BY <2>1, <2>2, <1>2 DEF ByParents
  <2> QED BY <2>1, <2>3, <1>1, <1>2
<1>5. ~ (Len(ys) - b < Len(xs) - a)
  <2> SUFFICES ASSUME Len(ys) - b < Len(xs) - a PROVE FALSE
    OBVIOUS
  <2> DEFINE k == Len(ys) - b
  <2>1. k \in Nat /\ b + k = Len(ys) /\ a + k \in 1 .. Len(xs) - 1 /\ a + k + 1 \in 1 .. Len(xs)
        /\ a + k <= Len(xs)
    BY <1>1
  <2> HIDE DEF k
  <2>2. xs[a + k] = 1
    <3>1. xs[a + k] = ys[b + k]
      BY <2>1, <1>3
    <3> QED BY <3>1, <2>1
  <2>3. xs[a + k + 1] = Kernel
    BY <2>1, <2>2, <1>2 DEF ByParents
  <2> QED BY <2>1, <2>3, <1>1, <1>2
<1>6. Len(xs) - a = Len(ys) - b
  <2> DEFINE k == Len(xs) - a
             l == Len(ys) - b
  <2>1. k \in Int /\ l \in Int /\ ~ (k < l) /\ ~ (l < k)
    BY <1>1, <1>4, <1>5
  <2> HIDE DEF k, l
  <2>2. k = l
    BY <2>1
  <2> QED BY <2>2 DEF k, l
<1>7. ASSUME NEW i \in 0 .. Len(xs) - a PROVE xs[Len(xs) - i] = ys[Len(ys) - i]
  <2> DEFINE k == (Len(xs) - a) - i
  <2>1. /\ k \in Nat /\ a + k = Len(xs) - i /\ b + k = Len(ys) - i
        /\ a + k <= Len(xs) /\ b + k <= Len(ys)
    BY <1>1, <1>6
  <2> HIDE DEF k
  <2>2. xs[a + k] = ys[b + k]
    BY <2>1, <1>3
  <2> QED BY <2>1, <2>2
<1> QED BY <1>6, <1>7

\* The last process from the root down that two walks to the root have in
\* common is on both, and below every common ancestor.
LEMMA WalksMeet ==
  ASSUME NEW t, Tree(t), NEW x \in Pid, NEW y \in Pid,
         NEW xs \in Seq(Pid), NEW ys \in Seq(Pid),
         NEW A, Walked(xs, Kernel, A), NEW B, Walked(ys, Kernel, B),
         Rooted(xs, Kernel), Rooted(ys, Kernel)
  PROVE  LET met == xs[Len(xs) - Agree(xs, ys) + 1]
         IN  /\ Agree(xs, ys) # 0 /\ met \in A \cap B
             /\ Climbs(xs, x, Kernel, t) /\ Climbs(ys, y, Kernel, t) =>
                   \A p \in AncestorsIn(t, x) \cap AncestorsIn(t, y) :
                       p \in AncestorsIn(t, met)
<1> DEFINE n == Agree(xs, ys)
           met == xs[Len(xs) - n + 1]
<1>1. /\ Len(xs) \in Nat /\ Len(ys) \in Nat /\ xs # <<>> /\ ys # <<>>
      /\ xs[Len(xs)] = 1 /\ ys[Len(ys)] = 1
  BY LenProperties DEF Walked, Rooted
<1>2. Len(xs) # 0 /\ Len(ys) # 0
  BY <1>1, EmptySeq
<1>3. /\ n \in 0 .. Len(xs) /\ n \in 0 .. Len(ys)
      /\ \A i \in 0 .. n - 1 : xs[Len(xs) - i] = ys[Len(ys) - i]
      /\ \A m \in Nat : /\ m <= Len(xs) /\ m <= Len(ys)
                        /\ \A i \in 0 .. m - 1 : xs[Len(xs) - i] = ys[Len(ys) - i]
                        => m <= n
  BY AgreeIs
<1> HIDE DEF n
<1>4. n >= 1
  <2>1. \A i \in 0 .. 1 - 1 : xs[Len(xs) - i] = ys[Len(ys) - i]
    <3> TAKE i \in 0 .. 1 - 1
    <3>1. i = 0 /\ Len(xs) - i = Len(xs) /\ Len(ys) - i = Len(ys)
      BY <1>1
    <3> QED BY <3>1, <1>1
  <2>2. 1 \in Nat /\ 1 <= Len(xs) /\ 1 <= Len(ys)
    BY <1>1, <1>2
  <2>3. 1 <= n
    BY <2>1, <2>2, <1>3
  <2> QED BY <2>3, <1>3
<1>5. /\ Len(xs) - n + 1 \in 1 .. Len(xs) /\ Len(ys) - n + 1 \in 1 .. Len(ys)
      /\ n - 1 \in 0 .. n - 1
      /\ Len(xs) - (n - 1) = Len(xs) - n + 1 /\ Len(ys) - (n - 1) = Len(ys) - n + 1
  BY <1>1, <1>3, <1>4
<1>6. met = ys[Len(ys) - n + 1]
  BY <1>3, <1>5
<1>7. met \in A \cap B
  BY <1>5, <1>6 DEF Walked
<1>8. ASSUME Climbs(xs, x, Kernel, t), Climbs(ys, y, Kernel, t),
             NEW p \in AncestorsIn(t, x) \cap AncestorsIn(t, y)
      PROVE  p \in AncestorsIn(t, met)
  <2>1. PICK a \in 1 .. Len(xs) : p = xs[a]
    BY <1>1, <1>8, OnWalk
  <2>2. PICK b \in 1 .. Len(ys) : p = ys[b]
    BY <1>1, <1>8, OnWalk
  <2>3. ByParents(xs, t) /\ ByParents(ys, t)
    BY <1>8 DEF Climbs
  <2>4. /\ Len(xs) - a = Len(ys) - b
        /\ \A i \in 0 .. Len(xs) - a : xs[Len(xs) - i] = ys[Len(ys) - i]
    <3>1. xs[a] = ys[b]
      BY <2>1, <2>2
    <3>2. xs[Len(xs)] = 1 /\ ys[Len(ys)] = 1
      BY <1>1
    <3> QED BY <3>1, <3>2, <2>3, SameRest
  <2>5. Len(xs) - a + 1 <= n
    <3>1. /\ Len(xs) - a + 1 \in Nat /\ Len(xs) - a + 1 <= Len(xs)
          /\ Len(xs) - a + 1 <= Len(ys) /\ (Len(xs) - a + 1) - 1 = Len(xs) - a
      BY <2>4, <1>1
    <3> DEFINE m == Len(xs) - a + 1
    <3>2. m \in Nat /\ m <= Len(xs) /\ m <= Len(ys)
          /\ \A i \in 0 .. m - 1 : xs[Len(xs) - i] = ys[Len(ys) - i]
      BY <3>1, <2>4
    <3> HIDE DEF m
    <3>3. m <= n
      BY <3>2, <1>3
    <3> QED BY <3>3 DEF m
  <2>6. a \in Len(xs) - n + 1 .. Len(xs)
    BY <2>5, <1>1, <1>3
  <2>7. xs[a] \in AncestorsIn(t, xs[Len(xs) - n + 1])
    BY <2>3, <2>6, <1>5, WalkGoesUp
  <2> QED BY <2>1, <2>7
<1>9. n # 0
  BY <1>3, <1>4
<1> QED BY <1>7, <1>8, <1>9 DEF n

\* The set A holds x and the root and whoever was above x since the call.
AreAbove(A, x) == x \in A /\ 1 \in A /\ Closed(A, parent)

OnX == {"x", "read_x"}
OnY == {"y", "read_y"}

Locals == [pc : {"start", "done", "crashed"} \cup OnX \cup OnY, x : Pid, y : Pid,
           at : Pid \cup {Kernel}, x_parents : Seq(Pid), y_parents : Seq(Pid),
           result : Pid \cup {Kernel},
           aboveX : SUBSET Pid, aboveY : SUBSET Pid, exits : Nat, torn : BOOLEAN]

LcaTypeOK ==
    /\ Tree(parent)
    /\ lca \in Locals

\* Both walks stay among those that were above their process, they end at the
\* root unless a file was lost, and while no process has ended they go up the
\* tree as it is.
LcaInv ==
    /\ LcaTypeOK
    /\ lca.pc = "start" => /\ lca.exits = 0 /\ ~ lca.torn
                           /\ lca.x_parents = <<>> /\ lca.y_parents = <<>>
    /\ lca.pc \in {"read_x", "read_y"} => lca.at # Kernel
    /\ lca.pc \in OnX \cup OnY => AreAbove(lca.aboveX, lca.x) /\ AreAbove(lca.aboveY, lca.y)
    /\ lca.pc \in OnX => /\ Walked(lca.x_parents, lca.at, lca.aboveX)
                         /\ ~ lca.torn => Rooted(lca.x_parents, lca.at)
                         /\ lca.y_parents = <<>>
    /\ lca.pc \in OnY => /\ Walked(lca.x_parents, Kernel, lca.aboveX)
                         /\ Walked(lca.y_parents, lca.at, lca.aboveY)
                         /\ ~ lca.torn => /\ Rooted(lca.x_parents, Kernel)
                                          /\ Rooted(lca.y_parents, lca.at)
    /\ lca.pc \in OnX \cup OnY /\ lca.exits = 0 =>
          /\ ~ lca.torn /\ \A p \in Pid : parent[p] # Gone
          /\ lca.aboveX = AncestorsIn(parent, lca.x)
          /\ lca.aboveY = AncestorsIn(parent, lca.y)
          /\ lca.pc \in OnX => Climbs(lca.x_parents, lca.x, lca.at, parent)
          /\ lca.pc \in OnY => /\ Climbs(lca.x_parents, lca.x, Kernel, parent)
                               /\ Climbs(lca.y_parents, lca.y, lca.at, parent)
    /\ Lowest

\* The root is above every process of a tree from which nobody has gone.
LEMMA RootAbove ==
  ASSUME NEW t \in Trees, NEW p \in Pid
  PROVE  Tree(t) /\ 1 \in AncestorsIn(t, p)
<1>0. MaxPid \in Nat \ {0} /\ Pid = 1 .. MaxPid
  BY LcaAssumption DEF Pid
<1>1. /\ t \in [Pid -> 0 .. MaxPid]
      /\ \A q \in Pid : IF q = 1 THEN t[q] = Kernel ELSE t[q] \in 1 .. q - 1
  BY DEF Trees
<1>2. Tree(t)
  <2>1. t \in [Pid -> Gone .. MaxPid]
    BY <1>0, <1>1 DEF Gone
  <2>2. \A q \in Pid : t[q] < q /\ (t[q] = Kernel <=> q = 1)
    BY <1>0, <1>1 DEF Kernel
  <2> QED BY <2>1, <2>2 DEF Tree
<1> DEFINE A == AncestorsIn(t, p)
<1>3. A \subseteq Pid /\ p \in A /\ Closed(A, t)
  BY <1>2, AncestorsAre
<1> HIDE DEF A
<1>4. PICK m \in A : \A k \in A : m <= k
  <2>1. A \in SUBSET Nat /\ A # {}
    BY <1>0, <1>3
  <2> QED BY <2>1, MinIsLeast
<1>5. CASE m # 1
  <2>1. t[m] \in 1 .. m - 1 /\ m \in Pid
    BY <1>1, <1>3, <1>4, <1>5
  <2>2. t[m] \in A
    BY <2>1, <1>0, <1>3, <1>4 DEF Closed, Kernel, Gone
  <2> QED BY <2>1, <2>2, <1>0, <1>4
<1>6. CASE m = 1
  BY <1>2, <1>4, <1>6 DEF A
<1> QED BY <1>2, <1>5, <1>6 DEF A

\* The invariant of the search at its start.
LEMMA LcaInitInv == LcaInit => LcaInv
<1> SUFFICES ASSUME LcaInit PROVE LcaInv
  OBVIOUS
<1>0. MaxPid \in Nat \ {0} /\ Pid = 1 .. MaxPid /\ 1 \in Pid
  BY LcaAssumption DEF Pid
<1>1. Tree(parent)
  <2>1. parent \in Trees
    BY <1>0 DEF LcaInit, Trees, Kernel
  <2> QED BY <2>1, <1>0, RootAbove
<1>2. lca \in Locals
  BY <1>0, EmptySeq DEF LcaInit, Locals
<1> QED BY <1>1, <1>2 DEF LcaInit, LcaInv, LcaTypeOK, Lowest, OnX, OnY

\* A call.
LEMMA CallKeeps == LcaInv /\ Call => LcaInv'
<1> SUFFICES ASSUME LcaInv, Call PROVE LcaInv'
  OBVIOUS
<1>1. PICK x \in Pid, y \in Pid :
         lca' = [lca EXCEPT !.pc = "x", !.x = x, !.y = y, !.at = x,
                            !.aboveX = AncestorsIn(parent', x),
                            !.aboveY = AncestorsIn(parent', y)]
  BY DEF Call
<1>2. /\ Tree(parent') /\ parent' \in Trees
      /\ 1 \in AncestorsIn(parent', x) /\ 1 \in AncestorsIn(parent', y)
  BY RootAbove DEF Call
<1>3. /\ AncestorsIn(parent', x) \subseteq Pid /\ x \in AncestorsIn(parent', x)
      /\ Closed(AncestorsIn(parent', x), parent')
      /\ AncestorsIn(parent', y) \subseteq Pid /\ y \in AncestorsIn(parent', y)
      /\ Closed(AncestorsIn(parent', y), parent')
  BY <1>2, AncestorsAre
<1> DEFINE A == AncestorsIn(parent', x)
           B == AncestorsIn(parent', y)
<1>4. A \in SUBSET Pid /\ B \in SUBSET Pid
  BY <1>3
<1>5. lca' = [lca EXCEPT !.pc = "x", !.x = x, !.y = y, !.at = x, !.aboveX = A, !.aboveY = B]
  BY <1>1
<1>6. /\ lca.pc = "start" /\ lca.exits = 0 /\ lca.x_parents = <<>> /\ lca.y_parents = <<>>
      /\ ~ lca.torn /\ lca \in Locals
  BY DEF Call, LcaInv, LcaTypeOK
<1> HIDE DEF A, B
<1>7. /\ lca' \in Locals
      /\ lca'.pc = "x" /\ lca'.x = x /\ lca'.y = y /\ lca'.at = x
      /\ lca'.x_parents = <<>> /\ lca'.y_parents = <<>> /\ lca'.exits = 0
      /\ lca'.aboveX = A /\ lca'.aboveY = B /\ ~ lca'.torn
  BY <1>4, <1>5, <1>6 DEF Locals, OnX
<1>8. Walked(<<>>, x, A) /\ Rooted(<<>>, x) /\ Climbs(<<>>, x, x, parent')
  <2>1. x # Kernel
    BY LcaAssumption DEF Pid, Kernel
  <2> QED BY <2>1, <1>3 DEF Walked, Rooted, Climbs, ByParents, A
<1>9. AreAbove(lca.aboveX, lca.x)' /\ AreAbove(lca.aboveY, lca.y)'
  BY <1>2, <1>3, <1>7 DEF AreAbove, A, B
<1>10. A = AncestorsIn(parent', x) /\ B = AncestorsIn(parent', y)
  BY DEF A, B
<1>11. AncestorsIn(parent, lca.x)' = AncestorsIn(parent', lca'.x)
       /\ AncestorsIn(parent, lca.y)' = AncestorsIn(parent', lca'.y)
  BY DEF AncestorsIn
<1>12. \A q \in Pid : parent'[q] # Gone
  <2> TAKE q \in Pid
  <2>1. parent'[q] \in 0 .. MaxPid
    BY <1>2 DEF Trees
  <2> QED BY <2>1 DEF Gone
<1> QED BY <1>2, <1>7, <1>8, <1>9, <1>10, <1>11, <1>12
        DEF LcaInv, LcaTypeOK, Lowest, OnX, OnY

\* What a step of a walk leaves as it is.
Settled == /\ parent' = parent /\ lca'.x = lca.x /\ lca'.y = lca.y
           /\ lca'.aboveX = lca.aboveX /\ lca'.aboveY = lca.aboveY
           /\ lca'.exits = lca.exits

LEMMA StillAbove ==
  ASSUME LcaInv, Settled, lca.pc \in OnX \cup OnY
  PROVE  /\ Tree(parent)' /\ (AreAbove(lca.aboveX, lca.x) /\ AreAbove(lca.aboveY, lca.y))'
         /\ lca'.exits = 0 => /\ \A p \in Pid : parent'[p] # Gone
                              /\ lca'.aboveX = AncestorsIn(parent, lca.x)'
                              /\ lca'.aboveY = AncestorsIn(parent, lca.y)'
<1>1. Tree(parent)'
  BY DEF LcaInv, LcaTypeOK, Settled
<1>2. (AreAbove(lca.aboveX, lca.x) /\ AreAbove(lca.aboveY, lca.y))'
  BY DEF LcaInv, AreAbove, Settled
<1>3. /\ AncestorsIn(parent, lca.x)' = AncestorsIn(parent, lca.x)
      /\ AncestorsIn(parent, lca.y)' = AncestorsIn(parent, lca.y)
  BY DEF AncestorsIn, Settled
<1> QED BY <1>1, <1>2, <1>3 DEF LcaInv, Settled

\* fopen of a file in /proc.
LEMMA OpenStatusKeeps == LcaInv /\ (OpenX \/ OpenY) => LcaInv'
<1> SUFFICES ASSUME LcaInv, OpenX \/ OpenY PROVE LcaInv'
  OBVIOUS
<1>1. PICK c \in {"crashed", "read_x", "read_y"} :
         /\ lca' = [lca EXCEPT !.pc = c] /\ lca.at # Kernel
         /\ c = "crashed" \/ (c = "read_x" /\ lca.pc = "x") \/ (c = "read_y" /\ lca.pc = "y")
  BY DEF OpenX, OpenY, OpenStatus
<1>2. lca \in Locals /\ lca.pc \in OnX \cup OnY /\ parent' = parent
  BY DEF LcaInv, LcaTypeOK, OpenX, OpenY, OnX, OnY
<1>3. /\ lca' \in Locals /\ Settled /\ lca'.pc = c /\ lca'.at = lca.at /\ lca'.torn = lca.torn
      /\ lca'.x_parents = lca.x_parents /\ lca'.y_parents = lca.y_parents
  BY <1>1, <1>2 DEF Locals, Settled, OnX, OnY
<1>4. CASE c = "crashed"
  BY <1>2, <1>3, <1>4, StillAbove DEF LcaInv, LcaTypeOK, Lowest, OnX, OnY
<1>5. CASE c = "read_x"
  <2>1. lca.pc = "x"
    BY <1>1, <1>5
  <2> QED BY <1>1, <1>2, <1>3, <1>5, <2>1, StillAbove
          DEF LcaInv, LcaTypeOK, Lowest, Settled, OnX, OnY
<1>6. CASE c = "read_y"
  <2>1. lca.pc = "y"
    BY <1>1, <1>6
  <2> QED BY <1>1, <1>2, <1>3, <1>6, <2>1, StillAbove
          DEF LcaInv, LcaTypeOK, Lowest, Settled, OnX, OnY
<1> QED BY <1>1, <1>4, <1>5, <1>6

\* A turn of the first loop.
LEMMA ReadXKeeps == LcaInv /\ ReadX => LcaInv'
<1> SUFFICES ASSUME LcaInv, ReadX PROVE LcaInv'
  OBVIOUS
<1> DEFINE s == Append(lca.x_parents, lca.at)
           up == ParentRead(lca.at)
           lost == lca.torn \/ Lost(lca.at)
<1>1. /\ Tree(parent) /\ lca \in Locals /\ parent' = parent /\ lca.pc = "read_x"
      /\ lca.at \in Pid /\ lca.x_parents \in Seq(Pid) /\ lca.aboveX \in SUBSET Pid
      /\ lca.y_parents = <<>>
  BY DEF LcaInv, LcaTypeOK, ReadX, Locals, OnX
<1>2. Closed(lca.aboveX, parent) /\ Walked(lca.x_parents, lca.at, lca.aboveX)
  BY <1>1 DEF LcaInv, AreAbove, OnX
<1>3. lca.exits = 0 => /\ Climbs(lca.x_parents, lca.x, lca.at, parent)
                       /\ ~ lca.torn /\ parent[lca.at] # Gone
  BY <1>1 DEF LcaInv, AreAbove, OnX, OnY
<1>4. /\ s \in Seq(Pid) /\ up \in Pid \cup {Kernel} /\ Walked(s, up, lca.aboveX)
      /\ parent[lca.at] # Gone => Rooted(s, up)
      /\ parent[lca.at] # Gone /\ Climbs(lca.x_parents, lca.x, lca.at, parent) =>
             Climbs(s, lca.x, up, parent)
  BY <1>1, <1>2, WalkOn DEF ParentRead
<1>5. lca' = [lca EXCEPT !.pc = "x", !.x_parents = s, !.at = up, !.torn = lost]
  BY DEF ReadX
<1>6. lost \in BOOLEAN
  BY <1>1 DEF Locals
<1>7. (~ lost => ~ lca.torn /\ parent[lca.at] # Gone) /\ (lca.exits = 0 => ~ lost)
  BY <1>3 DEF Lost
<1> HIDE DEF s, up, lost
<1>8. /\ lca' \in Locals /\ Settled /\ lca'.pc = "x" /\ lca'.x_parents = s /\ lca'.at = up
      /\ lca'.torn = lost /\ lca'.y_parents = <<>>
  BY <1>1, <1>4, <1>5, <1>6 DEF Locals, Settled, OnX
<1>9. /\ Tree(parent)' /\ (AreAbove(lca.aboveX, lca.x) /\ AreAbove(lca.aboveY, lca.y))'
      /\ lca'.exits = 0 => /\ \A p \in Pid : parent'[p] # Gone
                           /\ lca'.aboveX = AncestorsIn(parent, lca.x)'
                           /\ lca'.aboveY = AncestorsIn(parent, lca.y)'
  BY <1>1, <1>8, StillAbove DEF OnX
<1>10. Walked(s, up, lca'.aboveX) /\ (~ lca'.torn => Rooted(s, up))
  BY <1>4, <1>7, <1>8 DEF Settled
<1>11. lca'.exits = 0 => ~ lca'.torn /\ Climbs(s, lca'.x, up, parent')
  BY <1>3, <1>4, <1>7, <1>8 DEF Settled
<1>12. /\ lca'.pc \in OnX /\ lca'.pc \notin OnY
       /\ lca'.pc \notin {"start", "done", "read_x", "read_y"}
  BY <1>8 DEF OnX, OnY
<1> QED BY <1>8, <1>9, <1>10, <1>11, <1>12 DEF LcaInv, LcaTypeOK, Lowest

\* The end of the first loop.
LEMMA XDoneKeeps == LcaInv /\ XDone => LcaInv'
<1> SUFFICES ASSUME LcaInv, XDone PROVE LcaInv'
  OBVIOUS
<1>1. /\ Tree(parent) /\ lca \in Locals /\ parent' = parent
      /\ lca.pc = "x" /\ lca.at = Kernel /\ lca' = [lca EXCEPT !.pc = "y", !.at = lca.y]
  BY DEF LcaInv, LcaTypeOK, XDone
<1>2. /\ Walked(lca.x_parents, Kernel, lca.aboveX) /\ lca.y_parents = <<>>
      /\ ~ lca.torn => Rooted(lca.x_parents, Kernel)
      /\ lca.exits = 0 => ~ lca.torn /\ Climbs(lca.x_parents, lca.x, Kernel, parent)
      /\ AreAbove(lca.aboveY, lca.y)
  BY <1>1 DEF LcaInv, OnX, OnY
<1>3. /\ lca' \in Locals /\ Settled /\ lca'.pc = "y" /\ lca'.x_parents = lca.x_parents
      /\ lca'.at = lca.y /\ lca'.torn = lca.torn /\ lca'.y_parents = <<>>
  BY <1>1, <1>2 DEF Locals, Settled, OnX, OnY
<1>4. /\ Walked(<<>>, lca.y, lca.aboveY) /\ Rooted(<<>>, lca.y)
      /\ Climbs(<<>>, lca.y, lca.y, parent)
  <2>1. lca.y # Kernel /\ lca.y \in lca.aboveY
    BY <1>1, <1>2, LcaAssumption DEF Pid, Kernel, AreAbove, Locals
  <2> QED BY <2>1 DEF Walked, Rooted, Climbs, ByParents
<1>5. /\ Tree(parent)' /\ (AreAbove(lca.aboveX, lca.x) /\ AreAbove(lca.aboveY, lca.y))'
      /\ lca'.exits = 0 => /\ \A p \in Pid : parent'[p] # Gone
                           /\ lca'.aboveX = AncestorsIn(parent, lca.x)'
                           /\ lca'.aboveY = AncestorsIn(parent, lca.y)'
  BY <1>1, <1>3, StillAbove DEF OnX
<1> QED BY <1>2, <1>3, <1>4, <1>5 DEF LcaInv, LcaTypeOK, Lowest, Settled, OnX, OnY

\* A turn of the second loop.
LEMMA ReadYKeeps == LcaInv /\ ReadY => LcaInv'
<1> SUFFICES ASSUME LcaInv, ReadY PROVE LcaInv'
  OBVIOUS
<1> DEFINE s == Append(lca.y_parents, lca.at)
           up == ParentRead(lca.at)
           lost == lca.torn \/ Lost(lca.at)
<1>1. /\ Tree(parent) /\ lca \in Locals /\ parent' = parent /\ lca.pc = "read_y"
      /\ lca.at \in Pid /\ lca.y_parents \in Seq(Pid) /\ lca.aboveY \in SUBSET Pid
  BY DEF LcaInv, LcaTypeOK, ReadY, Locals, OnY
<1>2. Closed(lca.aboveY, parent) /\ Walked(lca.y_parents, lca.at, lca.aboveY)
  BY <1>1 DEF LcaInv, AreAbove, OnY
<1>3. /\ Walked(lca.x_parents, Kernel, lca.aboveX)
      /\ ~ lca.torn => Rooted(lca.x_parents, Kernel)
      /\ lca.exits = 0 => /\ Climbs(lca.x_parents, lca.x, Kernel, parent)
                          /\ Climbs(lca.y_parents, lca.y, lca.at, parent)
                          /\ ~ lca.torn /\ parent[lca.at] # Gone
  BY <1>1 DEF LcaInv, AreAbove, OnX, OnY
<1>4. /\ s \in Seq(Pid) /\ up \in Pid \cup {Kernel} /\ Walked(s, up, lca.aboveY)
      /\ parent[lca.at] # Gone => Rooted(s, up)
      /\ parent[lca.at] # Gone /\ Climbs(lca.y_parents, lca.y, lca.at, parent) =>
             Climbs(s, lca.y, up, parent)
  BY <1>1, <1>2, WalkOn DEF ParentRead
<1>5. lca' = [lca EXCEPT !.pc = "y", !.y_parents = s, !.at = up, !.torn = lost]
  BY DEF ReadY
<1>6. lost \in BOOLEAN
  BY <1>1 DEF Locals
<1>7. (~ lost => ~ lca.torn /\ parent[lca.at] # Gone) /\ (lca.exits = 0 => ~ lost)
  BY <1>3 DEF Lost
<1> HIDE DEF s, up, lost
<1>8. /\ lca' \in Locals /\ Settled /\ lca'.pc = "y" /\ lca'.y_parents = s /\ lca'.at = up
      /\ lca'.torn = lost /\ lca'.x_parents = lca.x_parents
  BY <1>1, <1>4, <1>5, <1>6 DEF Locals, Settled, OnY
<1>9. /\ Tree(parent)' /\ (AreAbove(lca.aboveX, lca.x) /\ AreAbove(lca.aboveY, lca.y))'
      /\ lca'.exits = 0 => /\ \A p \in Pid : parent'[p] # Gone
                           /\ lca'.aboveX = AncestorsIn(parent, lca.x)'
                           /\ lca'.aboveY = AncestorsIn(parent, lca.y)'
  BY <1>1, <1>8, StillAbove DEF OnY
<1>10. /\ Walked(s, up, lca'.aboveY) /\ Walked(lca'.x_parents, Kernel, lca'.aboveX)
       /\ ~ lca'.torn => Rooted(s, up) /\ Rooted(lca'.x_parents, Kernel)
  BY <1>3, <1>4, <1>7, <1>8 DEF Settled
<1>11. lca'.exits = 0 => /\ ~ lca'.torn /\ Climbs(s, lca'.y, up, parent')
                         /\ Climbs(lca'.x_parents, lca'.x, Kernel, parent')
  BY <1>3, <1>4, <1>7, <1>8 DEF Settled
<1>12. /\ lca'.pc \notin OnX /\ lca'.pc \in OnY
       /\ lca'.pc \notin {"start", "done", "read_x", "read_y"}
  BY <1>8 DEF OnX, OnY
<1>13. /\ Walked(lca'.x_parents, Kernel, lca'.aboveX)
       /\ Walked(lca'.y_parents, lca'.at, lca'.aboveY)
       /\ ~ lca'.torn => /\ Rooted(lca'.x_parents, Kernel)
                         /\ Rooted(lca'.y_parents, lca'.at)
  BY <1>8, <1>10
<1>14. lca'.exits = 0 => /\ ~ lca'.torn
                         /\ Climbs(lca'.x_parents, lca'.x, Kernel, parent')
                         /\ Climbs(lca'.y_parents, lca'.y, lca'.at, parent')
  BY <1>8, <1>11
<1> QED BY <1>8, <1>9, <1>12, <1>13, <1>14 DEF LcaInv, LcaTypeOK, Lowest

\* The comparison of the two walks.
LEMMA CompareKeeps == LcaInv /\ Compare => LcaInv'
<1> SUFFICES ASSUME LcaInv, Compare PROVE LcaInv'
  OBVIOUS
<1> DEFINE xs == lca.x_parents
           ys == lca.y_parents
           n == Agree(xs, ys)
           last == xs[Len(xs) - n + 1]
<1>1. /\ lca.pc = "y" /\ lca.at = Kernel /\ parent' = parent
      /\ \E met \in IF n = 0 THEN Pid \cup {Kernel} ELSE {last} :
            lca' = [lca EXCEPT !.pc = "done", !.result = met]
  BY DEF Compare
<1>2. /\ Tree(parent) /\ lca \in Locals
      /\ xs \in Seq(Pid) /\ ys \in Seq(Pid) /\ lca.x \in Pid /\ lca.y \in Pid
      /\ lca.aboveX \in SUBSET Pid /\ lca.aboveY \in SUBSET Pid
      /\ Walked(xs, Kernel, lca.aboveX) /\ Walked(ys, Kernel, lca.aboveY)
      /\ ~ lca.torn => Rooted(xs, Kernel) /\ Rooted(ys, Kernel)
  BY <1>1 DEF LcaInv, LcaTypeOK, Locals, OnY
<1>3. ASSUME ~ lca.torn
      PROVE  /\ n # 0 /\ last \in lca.aboveX \cap lca.aboveY
             /\ Climbs(xs, lca.x, Kernel, parent) /\ Climbs(ys, lca.y, Kernel, parent) =>
                    \A p \in AncestorsIn(parent, lca.x) \cap AncestorsIn(parent, lca.y) :
                        p \in AncestorsIn(parent, last)
  BY <1>2, <1>3, WalksMeet
<1>4. lca.exits = 0 => /\ Climbs(xs, lca.x, Kernel, parent)
                       /\ Climbs(ys, lca.y, Kernel, parent)
                       /\ lca.aboveX = AncestorsIn(parent, lca.x)
                       /\ lca.aboveY = AncestorsIn(parent, lca.y)
                       /\ ~ lca.torn
  BY <1>1 DEF LcaInv, OnX, OnY
<1>5. n # 0 => last \in Pid
  <2>1. n \in 0 .. Len(xs) /\ Len(xs) \in Nat
    BY <1>2, AgreeIs, LenProperties
  <2> HIDE DEF n
  <2>2. n # 0 => Len(xs) - n + 1 \in 1 .. Len(xs)
    BY <2>1
  <2> QED BY <2>2, <1>2, ElementOfSeq
<1> HIDE DEF n, last, xs, ys
<1>6. PICK met \in Pid \cup {Kernel} : /\ lca' = [lca EXCEPT !.pc = "done", !.result = met]
                                       /\ n # 0 => met = last
  BY <1>1, <1>5
<1>7. /\ lca' \in Locals /\ lca'.pc = "done" /\ lca'.result = met
      /\ lca'.x = lca.x /\ lca'.y = lca.y /\ lca'.exits = lca.exits
      /\ lca'.aboveX = lca.aboveX /\ lca'.aboveY = lca.aboveY /\ lca'.torn = lca.torn
  BY <1>2, <1>6 DEF Locals
<1>8. Lowest'
  <2>1. /\ AncestorsIn(parent, lca.x)' = AncestorsIn(parent, lca.x)
        /\ AncestorsIn(parent, lca.y)' = AncestorsIn(parent, lca.y)
        /\ AncestorsIn(parent, lca.result)' = AncestorsIn(parent, met)
    BY <1>1, <1>7 DEF AncestorsIn
  <2>2. ~ lca.torn => met = last
    BY <1>3, <1>6
  <2>3. ~ lca.torn => met \in lca.aboveX \cap lca.aboveY
    BY <2>2, <1>3
  <2>4. lca.exits = 0 =>
          \A p \in AncestorsIn(parent, lca.x) \cap AncestorsIn(parent, lca.y) :
              p \in AncestorsIn(parent, met)
    BY <2>2, <1>3, <1>4
  <2> QED BY <2>1, <2>3, <2>4, <1>4, <1>7 DEF Lowest
<1> QED BY <1>1, <1>2, <1>7, <1>8 DEF LcaInv, LcaTypeOK, OnX, OnY

\* A change of the tree in which processes only lose their parent to the root or
\* go: what was above x or y still is, and the new ancestors.
LEMMA ChangeKeeps ==
  ASSUME LcaInv, TreeChanges, parent' \in [Pid -> Int],
         \A q \in Pid : /\ parent'[q] = Gone \/ parent'[q] = 1 \/ parent'[q] = parent[q]
                        /\ q = 1 => parent'[q] = Kernel
  PROVE  LcaInv'
<1> DEFINE A == AncestorsIn(parent', lca.x)
           B == AncestorsIn(parent', lca.y)
<1>0. MaxPid \in Nat \ {0} /\ Pid = 1 .. MaxPid
  BY LcaAssumption DEF Pid
<1>1. /\ lca.pc \in OnX \cup OnY
      /\ lca' = [lca EXCEPT !.exits = lca.exits + 1, !.aboveX = lca.aboveX \cup A,
                            !.aboveY = lca.aboveY \cup B]
  BY DEF TreeChanges, OnX, OnY
<1>2. /\ Tree(parent) /\ lca \in Locals /\ lca.x \in Pid /\ lca.y \in Pid
      /\ lca.exits \in Nat /\ lca.aboveX \in SUBSET Pid /\ lca.aboveY \in SUBSET Pid
      /\ AreAbove(lca.aboveX, lca.x) /\ AreAbove(lca.aboveY, lca.y)
  BY <1>1 DEF LcaInv, LcaTypeOK, Locals
<1>4. Tree(parent')
  <2>1. \A q \in Pid : parent'[q] \in Gone .. MaxPid
    <3> TAKE q \in Pid
    <3>1. parent[q] \in Gone .. MaxPid /\ 1 \in Gone .. MaxPid /\ Gone \in Gone .. MaxPid
      BY <1>0, <1>2 DEF Tree, Gone
    <3> QED BY <3>1
  <2>2. parent' \in [Pid -> Gone .. MaxPid]
    BY <2>1
  <2>3. ASSUME NEW q \in Pid PROVE parent'[q] < q /\ (parent'[q] = Kernel <=> q = 1)
    <3>1. parent[q] < q /\ (parent[q] = Kernel <=> q = 1) /\ q \in Nat /\ q >= 1
      <4>1. q \in Nat /\ q >= 1
        BY <1>0
      <4>2. parent[q] < q /\ (parent[q] = Kernel <=> q = 1)
        BY <1>2 DEF Tree
      <4> QED BY <4>1, <4>2
    <3>2. CASE q = 1
      BY <3>1, <3>2 DEF Kernel
    <3>3. CASE q # 1 /\ parent'[q] = Gone
      BY <3>1, <3>3 DEF Gone, Kernel
    <3>4. CASE q # 1 /\ parent'[q] = 1
      BY <3>1, <3>4 DEF Kernel
    <3>5. CASE q # 1 /\ parent'[q] = parent[q]
      BY <3>1, <3>5
    <3> QED BY <3>2, <3>3, <3>4, <3>5
  <2> QED BY <2>2, <2>3 DEF Tree
<1>5. /\ A \in SUBSET Pid /\ lca.x \in A /\ Closed(A, parent')
      /\ B \in SUBSET Pid /\ lca.y \in B /\ Closed(B, parent')
  BY <1>2, <1>4, AncestorsAre
<1> HIDE DEF A, B
<1>6. /\ lca' \in Locals /\ lca'.exits # 0
      /\ lca'.pc = lca.pc /\ lca'.x = lca.x /\ lca'.y = lca.y /\ lca'.at = lca.at
      /\ lca'.x_parents = lca.x_parents /\ lca'.y_parents = lca.y_parents
      /\ lca'.aboveX = lca.aboveX \cup A /\ lca'.aboveY = lca.aboveY \cup B
      /\ lca'.torn = lca.torn
  <2>1. /\ lca.exits + 1 \in Nat /\ lca.exits + 1 # 0
        /\ lca.aboveX \cup A \in SUBSET Pid /\ lca.aboveY \cup B \in SUBSET Pid
    BY <1>2, <1>5
  <2> DEFINE e == lca.exits + 1
             X == lca.aboveX \cup A
             Y == lca.aboveY \cup B
  <2>2. /\ e \in Nat /\ e # 0 /\ X \in SUBSET Pid /\ Y \in SUBSET Pid
        /\ lca' = [lca EXCEPT !.exits = e, !.aboveX = X, !.aboveY = Y]
    BY <1>1, <2>1
  <2> HIDE DEF e, X, Y
  <2>3. /\ lca' \in Locals /\ lca'.exits # 0
        /\ lca'.pc = lca.pc /\ lca'.x = lca.x /\ lca'.y = lca.y /\ lca'.at = lca.at
        /\ lca'.x_parents = lca.x_parents /\ lca'.y_parents = lca.y_parents
        /\ lca'.aboveX = X /\ lca'.aboveY = Y /\ lca'.torn = lca.torn
    BY <1>2, <2>2 DEF Locals
  <2> QED BY <2>3 DEF X, Y
<1>7. Closed(lca.aboveX \cup A, parent') /\ Closed(lca.aboveY \cup B, parent')
  BY <1>2, <1>5 DEF AreAbove, Closed
<1>8. AreAbove(lca.aboveX, lca.x)' /\ AreAbove(lca.aboveY, lca.y)'
  BY <1>2, <1>6, <1>7 DEF AreAbove
<1>9. \A s, at : /\ Walked(s, at, lca.aboveX) => Walked(s, at, lca.aboveX \cup A)
                 /\ Walked(s, at, lca.aboveY) => Walked(s, at, lca.aboveY \cup B)
  BY DEF Walked
<1> QED BY <1>1, <1>4, <1>6, <1>8, <1>9, ZenonT(60) DEF LcaInv, LcaTypeOK, Lowest, OnX, OnY

\* The exit of a process.
LEMMA ExitKeeps ==
  ASSUME LcaInv, NEW p \in Pid, ExitProcess(p)
  PROVE  LcaInv'
<1>0. MaxPid \in Nat \ {0} /\ Pid = 1 .. MaxPid /\ Tree(parent)
  BY LcaAssumption DEF Pid, LcaInv, LcaTypeOK
<1>1. /\ parent' = [q \in Pid |-> IF parent[q] = p THEN 1 ELSE parent[q]] /\ TreeChanges
  BY DEF ExitProcess
<1>2. parent' \in [Pid -> Int]
  BY <1>0, <1>1 DEF Tree, Gone
<1>3. parent'[1] = Kernel
  BY <1>0, <1>1 DEF Tree, Kernel
<1>4. \A q \in Pid : parent'[q] = 1 \/ parent'[q] = parent[q]
  BY <1>1
<1> QED BY <1>1, <1>2, <1>3, <1>4, ChangeKeeps

\* The reaping of a process.
LEMMA ReapKeeps ==
  ASSUME LcaInv, NEW p \in Pid, Reap(p)
  PROVE  LcaInv'
<1>0. MaxPid \in Nat \ {0} /\ Pid = 1 .. MaxPid /\ Tree(parent)
  BY LcaAssumption DEF Pid, LcaInv, LcaTypeOK
<1>1. /\ parent' = [q \in Pid |-> IF q = p THEN Gone ELSE parent[q]] /\ TreeChanges /\ p # 1
  BY DEF Reap
<1>2. parent' \in [Pid -> Int]
  BY <1>0, <1>1 DEF Tree, Gone
<1>3. parent'[1] = Kernel
  BY <1>0, <1>1 DEF Tree, Kernel
<1>4. \A q \in Pid : parent'[q] = Gone \/ parent'[q] = parent[q]
  BY <1>1
<1> QED BY <1>1, <1>2, <1>3, <1>4, ChangeKeeps

\* Both walks of find_lca (lca.c) stay among those that were above their
\* process at some time since the call, and end at the root unless a process was
\* reaped between the open and the read of its file.
THEOREM LcaInvariant == LcaSpec => []LcaInv
<1>1. LcaInv /\ UNCHANGED <<parent, lca>> => LcaInv'
  BY DEF LcaInv, LcaTypeOK, AreAbove, Lowest
<1>2. LcaInv /\ [LcaNext]_<<parent, lca>> => LcaInv'
  BY <1>1, CallKeeps, OpenStatusKeeps, ReadXKeeps, XDoneKeeps, ReadYKeeps, CompareKeeps,
     ExitKeeps, ReapKeeps DEF LcaNext
<1> QED BY LcaInitInv, <1>2, PTL DEF LcaSpec

\* find_lca returns the lowest common ancestor if nobody ends meanwhile, and
\* otherwise one who was above both processes during the search, unless a file
\* was lost after it was opened.
THEOREM LcaIsLowest == LcaSpec => []Lowest
<1>1. LcaInv => Lowest
  BY DEF LcaInv
<1> QED BY <1>1, LcaInvariant, PTL

----------------------------------------------------------------------------
(* minigrep *)

\* The paths there can be, with that of the argument.
GrepTree == GrepPath \cup {<<>>}

GrepWorks == grep.pc \in {"compile", "search", "opendir", "open", "map"}

GrepTypeOK ==
    /\ disk \in [GrepTree -> Entries] /\ removed \in GrepPath \cup {<<"none">>}
    /\ pattern \in Patterns /\ limit \in Nat
    /\ open_fds \in Int /\ open_fds <= limit
    /\ printed \in Seq(GrepTree \X Nat)
    /\ grep \in [pc : {"compile", "search", "opendir", "readdir", "open", "map",
                       "success", "failure"},
                 path : GrepTree,
                 dirs : Seq([dir : GrepTree, todo : SUBSET GrepPath])]

\* What lies somewhere lies in directories; the other process leaves them.
InDirectories ==
    \A p, q \in GrepTree :
        disk[p].kind # "none" /\ IsPrefix(q, p) /\ q # p => disk[q].kind = "dir"

\* The entry at p was there when its directory was read.
WasThere(p) == disk[p].kind # "none" \/ removed = p

\* An open directory for each name on the way down to the path at work, each
\* with entries of its own, that were there.
GrepStack ==
    \A k \in 1 .. Len(grep.dirs) :
        /\ Len(grep.dirs[k].dir) = k - 1 /\ disk[grep.dirs[k].dir].kind = "dir"
        /\ \A q \in grep.dirs[k].todo :
              Len(q) = k /\ IsPrefix(grep.dirs[k].dir, q) /\ WasThere(q)

\* What waits in a directory is neither an open directory nor at work, nor above.
NeverAbove ==
    \A k \in 1 .. Len(grep.dirs) : \A q \in grep.dirs[k].todo :
        /\ \A j \in 1 .. Len(grep.dirs) : ~ IsPrefix(q, grep.dirs[j].dir)
        /\ GrepWorks => ~ IsPrefix(q, grep.path)

GrepPlace ==
    /\ GrepWorks =>
          /\ Len(grep.path) = Len(grep.dirs)
          /\ Len(grep.dirs) > 0 =>
                IsPrefix(grep.dirs[Len(grep.dirs)].dir, grep.path) /\ WasThere(grep.path)
    /\ grep.pc = "readdir" => Len(grep.dirs) > 0
    /\ grep.pc \in {"compile", "success"} => Len(grep.dirs) = 0
    /\ grep.pc = "opendir" => disk[grep.path].kind = "dir"
    /\ grep.pc = "open" => disk[grep.path].kind # "dir"
    /\ grep.pc = "map" => disk[grep.path].kind \in {"file", "badlink"}

\* p, or something above it, is at work or waits.
ToCome(p) ==
    \/ GrepWorks /\ IsPrefix(grep.path, p)
    \/ \E k \in 1 .. Len(grep.dirs) : \E q \in grep.dirs[k].todo : IsPrefix(q, p)

\* What was printed is right, each line once, and of no file that is to come.
PrintedRight ==
    /\ \A i, j \in DOMAIN printed : printed[i] = printed[j] => i = j
    /\ \A i \in DOMAIN printed :
          /\ printed[i] \in AllHits \/ printed[i][1] = removed
          /\ ~ ToCome(printed[i][1])

\* A file that is not to come any more was searched.
Searched ==
    grep.pc # "failure" /\ ~ pattern.groups =>
        \A p \in GrepTree :
            disk[p].kind = "file" /\ ~ ToCome(p) => Hits(p) \subseteq ToSet(printed)

GivesUp ==
    grep.pc = "failure" =>
       \/ ~ pattern.valid
       \/ removed # <<"none">>
       \/ open_fds = limit
       \/ disk[<<>>].kind = "none"
       \/ \E p \in DOMAIN disk : \/ disk[p].kind = "badlink"
                                 \/ disk[p].kind = "file" /\ disk[p].text = <<>>

GrepInv == GrepTypeOK /\ InDirectories /\ GrepStack /\ NeverAbove /\ GrepPlace
           /\ PrintedRight /\ Searched /\ GivesUp

\* Which of the numbers of S, from the smallest on, s is.
Rank(S, s) == Cardinality({t \in S : t <= s})

\* Nth finds the number of each rank.
LEMMA NthIs ==
  ASSUME NEW S \in SUBSET Nat, IsFiniteSet(S)
  PROVE  /\ Cardinality(S) \in Nat
         /\ \A s \in S : Rank(S, s) \in 1 .. Cardinality(S) /\ Nth(S, Rank(S, s)) = s
         /\ \A n \in 1 .. Cardinality(S) : Nth(S, n) \in S /\ Rank(S, Nth(S, n)) = n
<1> DEFINE Upto(s) == {t \in S : t <= s}
           m == Cardinality(S)
<1>0. m \in Nat
  BY FS_CardinalityType
<1>1. ASSUME NEW s \in S
      PROVE  /\ IsFiniteSet(Upto(s)) /\ Rank(S, s) = Cardinality(Upto(s))
             /\ Rank(S, s) \in Nat /\ Rank(S, s) <= m /\ Rank(S, s) # 0
  <2>1. Upto(s) \in SUBSET S /\ s \in Upto(s)
    OBVIOUS
  <2>2. Rank(S, s) = Cardinality(Upto(s))
    BY DEF Rank
  <2> HIDE DEF Upto
  <2>3. IsFiniteSet(Upto(s)) /\ Cardinality(Upto(s)) <= m
    BY <2>1, FS_Subset
  <2>4. Cardinality(Upto(s)) \in Nat /\ (Cardinality(Upto(s)) = 0 => Upto(s) = {})
    BY <2>3, FS_CardinalityType, FS_EmptySet
  <2> QED BY <2>1, <2>2, <2>3, <2>4
<1>2. ASSUME NEW s \in S, NEW t \in S, s < t PROVE Rank(S, s) < Rank(S, t)
  <2>0. s \in Nat /\ t \in Nat /\ \A u \in S : u \in Nat
    OBVIOUS
  <2>1. Upto(s) \in SUBSET Upto(t) /\ t \in Upto(t) /\ t \notin Upto(s)
    <3>1. t <= t /\ ~ (t <= s) /\ \A u \in S : u <= s => u <= t
      BY <2>0, <1>2
    <3> QED BY <3>1
  <2> HIDE DEF Upto
  <2>2. /\ IsFiniteSet(Upto(t)) /\ Cardinality(Upto(s)) <= Cardinality(Upto(t))
        /\ Cardinality(Upto(t)) = Cardinality(Upto(s)) => Upto(t) = Upto(s)
    BY <2>1, <1>1, FS_Subset
  <2>3. Cardinality(Upto(t)) # Cardinality(Upto(s))
    BY <2>1, <2>2
  <2> QED BY <2>2, <2>3, <1>1
<1> HIDE DEF Upto
<1> DEFINE f == [s \in S |-> Rank(S, s)]
<1>3. \A s \in S : Rank(S, s) \in 1 .. m
  BY <1>0, <1>1
<1>4. \A s, t \in S : Rank(S, s) = Rank(S, t) => s = t
  <2> SUFFICES ASSUME NEW s \in S, NEW t \in S, s # t PROVE Rank(S, s) # Rank(S, t)
    OBVIOUS
  <2>1. s < t \/ t < s
    OBVIOUS
  <2>2. Rank(S, s) \in Nat /\ Rank(S, t) \in Nat
    BY <1>1
  <2> QED BY <2>1, <2>2, <1>2
<1>5. f \in Injection(S, 1 .. m)
  BY <1>3, <1>4 DEF Injection, IsInjective
<1>6. IsFiniteSet(1 .. m) /\ Cardinality(1 .. m) = m
  BY <1>0, FS_Interval
<1>7. f \in Surjection(S, 1 .. m)
  BY <1>5, <1>6, FS_Injection
<1>8. \A n \in 1 .. m : \E s \in S : Rank(S, s) = n
  BY <1>7 DEF Surjection
<1>9. \A n \in 1 .. m : Nth(S, n) \in S /\ Rank(S, Nth(S, n)) = n
  BY <1>8 DEF Nth, Rank
<1> QED BY <1>0, <1>3, <1>4, <1>9

\* The numbers of the lines of text that match.
Matching(text) == {Rank(LineStarts(text), s) :
                     s \in {s \in LineStarts(text) : MatchesLine(Line(text, s))}}

\* process_file_line prints the lines that match, each once, or, of a pattern
\* with groups, none.
LEMMA LinesAre ==
  ASSUME NEW C, NEW text \in Seq(C), GrepTypeOK, NEW r, r = process_file_line(text)
  PROVE  /\ r \in Seq({grep.path} \X Nat)
         /\ \A i, j \in DOMAIN r : r[i] = r[j] => i = j
         /\ \A i \in DOMAIN r : r[i][1] = grep.path /\ r[i] \in {grep.path} \X Matching(text)
         /\ ~ pattern.groups => {grep.path} \X Matching(text) \subseteq ToSet(r)
<1> DEFINE starts == LineStarts(text)
           k == Cardinality(starts)
           hits == {n \in 1 .. k : search_result(Line(text, Nth(starts, n))) > 0}
           m == Cardinality(hits)
           p == grep.path
<1>1. starts \in SUBSET Nat /\ IsFiniteSet(starts)
  <2>1. Len(text) \in Nat /\ DOMAIN text = 1 .. Len(text)
    BY LenProperties
  <2>2. IsFiniteSet(0 .. Len(text)) /\ starts \in SUBSET (0 .. Len(text))
    <3>1. IsFiniteSet(0 .. Len(text))
      BY <2>1, FS_Interval
    <3>2. starts \in SUBSET (0 .. Len(text))
      BY <2>1 DEF LineStarts
    <3> QED BY <3>1, <3>2
  <2>3. 0 .. Len(text) \subseteq Nat
    BY <2>1
  <2> HIDE DEF starts
  <2> QED BY <2>2, <2>3, FS_Subset
<1>2. r = [n \in 1 .. m |-> <<p, Nth(hits, n)>>]
  BY DEF process_file_line
<1>3. /\ k \in Nat
      /\ \A s \in starts : Rank(starts, s) \in 1 .. k /\ Nth(starts, Rank(starts, s)) = s
      /\ \A n \in 1 .. k : Nth(starts, n) \in starts /\ Rank(starts, Nth(starts, n)) = n
  <2> HIDE DEF starts
  <2> QED BY <1>1, NthIs
<1>4. hits \in SUBSET Nat /\ IsFiniteSet(hits)
  <2>1. hits \in SUBSET (1 .. k) /\ IsFiniteSet(1 .. k)
    BY <1>3, FS_Interval
  <2>2. 1 .. k \subseteq Nat
    BY <1>3
  <2> HIDE DEF hits
  <2> QED BY <2>1, <2>2, FS_Subset
<1>5. /\ m \in Nat
      /\ \A n \in hits : Rank(hits, n) \in 1 .. m /\ Nth(hits, Rank(hits, n)) = n
      /\ \A n \in 1 .. m : Nth(hits, n) \in hits /\ Rank(hits, Nth(hits, n)) = n
  <2> HIDE DEF hits
  <2> QED BY <1>4, NthIs
<1>6. Matching(text) = {Rank(starts, s) : s \in {s \in starts : MatchesLine(Line(text, s))}}
  BY DEF Matching
<1>7. \A line : /\ search_result(line) > 0 => MatchesLine(line)
                /\ ~ pattern.groups /\ MatchesLine(line) => search_result(line) > 0
  BY DEF GrepTypeOK, Patterns, search_result
<1> HIDE DEF starts
<1>8. hits \subseteq Matching(text)
  <2> SUFFICES ASSUME NEW n \in hits PROVE n \in Matching(text)
    OBVIOUS
  <2>1. n \in 1 .. k /\ MatchesLine(Line(text, Nth(starts, n)))
    BY <1>7
  <2> QED BY <2>1, <1>3, <1>6
<1>9. ~ pattern.groups => Matching(text) \subseteq hits
  <2> SUFFICES ASSUME ~ pattern.groups, NEW s \in starts, MatchesLine(Line(text, s))
               PROVE  Rank(starts, s) \in hits
    BY <1>6
  <2>1. Rank(starts, s) \in 1 .. k /\ Nth(starts, Rank(starts, s)) = s
    BY <1>3
  <2>2. search_result(Line(text, s)) > 0
    BY <1>7
  <2> QED BY <2>1, <2>2
<1> HIDE DEF k, hits
<1>10. DOMAIN r = 1 .. m /\ \A n \in 1 .. m : r[n] = <<p, Nth(hits, n)>>
  BY <1>2
<1>11. \A n \in 1 .. m : Nth(hits, n) \in Nat /\ Nth(hits, n) \in Matching(text)
  BY <1>4, <1>5, <1>8
<1> HIDE DEF m
<1>12. r \in Seq({p} \X Nat)
  <2>1. r \in [1 .. m -> {p} \X Nat]
    BY <1>2, <1>11
  <2> QED BY <2>1, <1>5, IsASeq
<1>13. \A i, j \in DOMAIN r : r[i] = r[j] => i = j
  <2> SUFFICES ASSUME NEW i \in 1 .. m, NEW j \in 1 .. m, r[i] = r[j] PROVE i = j
    BY <1>10
  <2>1. Nth(hits, i) = Nth(hits, j)
    BY <1>10
  <2> QED BY <2>1, <1>5
<1>14. \A i \in DOMAIN r : r[i][1] = p /\ r[i] \in {p} \X Matching(text)
  <2> SUFFICES ASSUME NEW i \in 1 .. m
               PROVE  r[i][1] = p /\ r[i] \in {p} \X Matching(text)
    BY <1>10
  <2>1. r[i] = <<p, Nth(hits, i)>> /\ Nth(hits, i) \in Matching(text)
    BY <1>10, <1>11
  <2> QED BY <2>1
<1>15. ~ pattern.groups => {p} \X Matching(text) \subseteq ToSet(r)
  <2> SUFFICES ASSUME ~ pattern.groups, NEW n \in hits PROVE <<p, n>> \in ToSet(r)
    BY <1>9
  <2>1. Rank(hits, n) \in DOMAIN r /\ r[Rank(hits, n)] = <<p, n>>
    BY <1>5, <1>10
  <2> QED BY <2>1 DEF ToSet
<1> QED BY <1>12, <1>13, <1>14, <1>15

\* Prefixes among the paths.
LEMMA GrepPathsAre ==
  /\ GrepTree \subseteq Paths /\ <<>> \in GrepTree /\ GrepPath \subseteq GrepTree
  /\ \A p \in GrepTree :
        /\ Len(p) \in Nat /\ (Len(p) = 0 <=> p = <<>>)
        /\ IsPrefix(p, p) /\ IsPrefix(<<>>, p) /\ (p # <<>> => p \in GrepPath)
  /\ \A p, q \in GrepTree :
        IsPrefix(p, q) => Len(p) <= Len(q) /\ (Len(p) = Len(q) => p = q)
  /\ \A p, q, r \in GrepTree :
        /\ IsPrefix(p, q) /\ IsPrefix(q, r) => IsPrefix(p, r)
        /\ IsPrefix(p, r) /\ IsPrefix(q, r) /\ Len(p) <= Len(q) => IsPrefix(p, q)
<1>1. GrepTree \subseteq Paths /\ <<>> \in GrepTree /\ GrepPath \subseteq GrepTree
  <2>1. <<>> \in Paths
    BY EmptySeq DEF Paths
  <2> QED BY <2>1, GrepAssumption DEF GrepTree, Paths
<1>2. ASSUME NEW p \in GrepTree
      PROVE  /\ Len(p) \in Nat /\ (Len(p) = 0 <=> p = <<>>)
             /\ IsPrefix(p, p) /\ IsPrefix(<<>>, p) /\ (p # <<>> => p \in GrepPath)
  <2>1. p \in Paths /\ <<>> \in Paths
    BY <1>1
  <2>2. Len(p) \in Nat /\ (Len(p) = 0 <=> p = <<>>) /\ Len(<<>>) = 0
    BY <2>1, LenProperties, EmptySeq DEF Paths
  <2>3. IsPrefix(<<>>, p) <=> Len(<<>>) <= Len(p) /\ \A i \in 1 .. Len(<<>>) : <<>>[i] = p[i]
    BY <2>1, PrefixIs
  <2>4. IsPrefix(<<>>, p)
    BY <2>2, <2>3
  <2>5. IsPrefix(p, p)
    BY <2>1, PrefixOfPrefix
  <2> QED BY <2>2, <2>4, <2>5 DEF GrepTree
<1>3. ASSUME NEW p \in GrepTree, NEW q \in GrepTree, IsPrefix(p, q)
      PROVE  Len(p) <= Len(q) /\ (Len(p) = Len(q) => p = q)
  <2>1. p \in Paths /\ q \in Paths
    BY <1>1
  <2>2. Len(p) <= Len(q) /\ \A i \in 1 .. Len(p) : p[i] = q[i]
    BY <2>1, <1>3, PrefixIs
  <2>3. Len(p) = Len(q) => p = q
    BY <2>1, <2>2, SeqEqual DEF Paths
  <2> QED BY <2>2, <2>3
<1>4. ASSUME NEW p \in GrepTree, NEW q \in GrepTree, NEW r \in GrepTree
      PROVE  /\ IsPrefix(p, q) /\ IsPrefix(q, r) => IsPrefix(p, r)
             /\ IsPrefix(p, r) /\ IsPrefix(q, r) /\ Len(p) <= Len(q) => IsPrefix(p, q)
  <2>1. p \in Paths /\ q \in Paths /\ r \in Paths /\ Len(p) \in Nat /\ Len(q) \in Nat
    BY <1>1, <1>2
  <2>2. IsPrefix(p, q) /\ IsPrefix(q, r) => IsPrefix(p, r)
    BY <2>1, PrefixOfPrefix
  <2>3. ASSUME IsPrefix(p, r), IsPrefix(q, r), Len(p) <= Len(q) PROVE IsPrefix(p, q)
    <3>1. \A i \in 1 .. Len(p) : p[i] = r[i]
      BY <2>1, <2>3, PrefixIs
    <3>2. \A i \in 1 .. Len(q) : q[i] = r[i]
      BY <2>1, <2>3, PrefixIs
    <3>3. \A i \in 1 .. Len(p) : i \in 1 .. Len(q)
      BY <2>1, <2>3
    <3>4. \A i \in 1 .. Len(p) : p[i] = q[i]
      BY <3>1, <3>2, <3>3
    <3> QED BY <3>4, <2>1, <2>3, PrefixIs
  <2> QED BY <2>2, <2>3
<1> QED BY <1>1, <1>2, <1>3, <1>4

\* The paths above one are paths.
LEMMA GrepAbove ==
  ASSUME NEW p \in GrepPath
  PROVE  \A i \in 1 .. Len(p) : SubSeq(p, 1, i) \in GrepPath
<1> DEFINE n == Len(p)
           part(i) == SubSeq(p, 1, i)
           K == {i \in 1 .. n : part(i) \notin GrepPath}
<1>0. p \in Paths /\ n \in Nat
  BY GrepPathsAre
<1>1. /\ part(n) = p /\ \A i \in 0 .. n : Len(part(i)) = i
      /\ \A i \in 1 .. n - 1 : Front(part(i + 1)) = part(i)
  BY <1>0, PartsAre
<1> HIDE DEF part
<1>2. ASSUME NEW m \in K PROVE FALSE
  <2>1. K \in SUBSET (0 .. n) /\ K # {}
    BY <1>2, <1>0
  <2>2. PICK k \in K : \A i \in K : i <= k
    <3> HIDE DEF K
    <3>1. Max(K) \in K /\ \A i \in K : i <= Max(K)
      BY <2>1, <1>0, MaxIsGreatest
    <3> QED BY <3>1
  <2>3. k # n
    BY <2>2, <1>1
  <2>4. k \in 1 .. n - 1 /\ k + 1 \in 1 .. n /\ ~ (k + 1 <= k) /\ k \in 0 .. n /\ k # 0
    BY <2>2, <2>3, <1>0
  <2>5. part(k + 1) \in GrepPath
    BY <2>2, <2>4
  <2>6. Front(part(k + 1)) \in GrepTree
    BY <2>5, GrepAssumption DEF GrepTree
  <2>7. part(k) # <<>>
    <3>1. Len(part(k)) # 0
      BY <2>4, <1>1
    <3> QED BY <3>1
  <2>8. part(k) \in GrepPath
    BY <2>4, <2>6, <2>7, <1>1, GrepPathsAre
  <2> QED BY <2>2, <2>8
<1> QED BY <1>2 DEF part

\* From a path the next one on the way down to another.
LEMMA NextDown ==
  ASSUME NEW p \in GrepTree, NEW r \in GrepTree, IsPrefix(p, r), p # r
  PROVE  \E c \in GrepPath : /\ IsPrefix(c, r) /\ IsPrefix(p, c) /\ Len(c) = Len(p) + 1
                             /\ Front(c) = p
<1> DEFINE n == Len(p) + 1
           c == SubSeq(r, 1, n)
<1>1. /\ p \in Paths /\ r \in Paths /\ Len(p) \in Nat /\ Len(r) \in Nat /\ Len(p) < Len(r)
      /\ r \in GrepPath
  <2>1. Len(p) \in Nat /\ Len(r) \in Nat /\ Len(p) <= Len(r) /\ Len(p) # Len(r)
        /\ p \in Paths /\ r \in Paths
    BY GrepPathsAre
  <2>2. r # <<>>
    <3>1. Len(r) # 0
      BY <2>1
    <3> QED BY <3>1, EmptySeq
  <2> QED BY <2>1, <2>2, GrepPathsAre
<1>2. n \in 1 .. Len(r) /\ n \in 0 .. Len(r) /\ n \in Nat
  BY <1>1
<1>3. /\ c \in Paths /\ Len(c) = n /\ \A k \in 1 .. n : c[k] = r[k]
  BY <1>1, <1>2, PartsAre
<1>4. c \in GrepPath
  BY <1>1, <1>2, GrepAbove
<1> HIDE DEF c
<1>5. IsPrefix(c, r)
  <2>1. Len(c) <= Len(r) /\ \A k \in 1 .. Len(c) : c[k] = r[k]
    BY <1>1, <1>2, <1>3
  <2> QED BY <2>1, <1>1, <1>3, PrefixIs
<1>6. Len(c) = Len(p) + 1
  BY <1>3
<1>7. IsPrefix(p, c)
  <2>1. c \in GrepTree /\ Len(p) <= Len(c)
    BY <1>1, <1>4, <1>6, GrepPathsAre
  <2> QED BY <2>1, <1>5, GrepPathsAre
<1>8. Front(c) = p
  <2> DEFINE f == Front(c)
  <2>1. c # <<>>
    BY <1>4, GrepAssumption
  <2>2. f \in Seq(STRING) /\ Len(f) = Len(c) - 1 /\ \A k \in 1 .. Len(c) - 1 : f[k] = c[k]
    <3>1. c \in Seq(STRING)
      BY <1>3 DEF Paths
    <3> QED BY <3>1, <2>1, FrontIs
  <2> HIDE DEF f
  <2>3. Len(c) - 1 = Len(p)
    BY <1>1, <1>6
  <2>4. \A k \in 1 .. Len(p) : p[k] = c[k]
    BY <1>1, <1>3, <1>7, PrefixIs
  <2>5. f = p
    BY <2>2, <2>3, <2>4, <1>1, SeqEqual DEF Paths
  <2> QED BY <2>5 DEF f
<1> QED BY <1>4, <1>5, <1>6, <1>7, <1>8

\* At the beginning everything is to come.
LEMMA GrepInitInv == GrepInit => GrepInv
<1> SUFFICES ASSUME GrepInit PROVE GrepInv
  OBVIOUS
<1>1. /\ disk \in [GrepTree -> Entries]
      /\ \A p \in GrepPath : disk[p].kind # "none" => disk[Front(p)].kind = "dir"
      /\ pattern \in Patterns /\ limit \in FdLimits
      /\ removed = <<"none">> /\ open_fds = 0 /\ printed = <<>>
      /\ grep = [pc |-> "compile", path |-> <<>>, dirs |-> <<>>]
  BY DEF GrepInit, GrepTree
<1>2. GrepTypeOK
  <2>1. limit \in Nat
    BY <1>1, GrepAssumption
  <2>2. /\ <<>> \in GrepTree /\ Len(<<>>) = 0
        /\ <<>> \in Seq([dir : GrepTree, todo : SUBSET GrepPath])
        /\ <<>> \in Seq(GrepTree \X Nat)
    BY GrepPathsAre, EmptySeq
  <2> QED BY <1>1, <2>1, <2>2 DEF GrepTypeOK
<1>3. InDirectories
  <2> SUFFICES ASSUME NEW p \in GrepTree, disk[p].kind # "none",
                      NEW q0 \in GrepTree, IsPrefix(q0, p), q0 # p,
                      disk[q0].kind # "dir"
               PROVE  FALSE
    BY DEF InDirectories
  <2> DEFINE Bad(q) == IsPrefix(q, p) /\ q # p /\ disk[q].kind # "dir"
             L == {Len(q) : q \in {q \in GrepTree : Bad(q)}}
  <2>1. L \in SUBSET (0 .. Len(p)) /\ L # {} /\ Len(p) \in Nat
    BY GrepPathsAre
  <2>2. Max(L) \in L /\ \A y \in L : y <= Max(L)
    <3> HIDE DEF L
    <3> QED BY <2>1, MaxIsGreatest
  <2>3. PICK q \in GrepTree : Bad(q) /\ Len(q) = Max(L)
    BY <2>2
  <2>4. PICK c \in GrepPath : IsPrefix(c, p) /\ Len(c) = Len(q) + 1 /\ Front(c) = q
    <3>1. IsPrefix(q, p) /\ q # p
      BY <2>3
    <3> QED BY <3>1, NextDown
  <2>5. c \in GrepTree /\ Len(q) \in Nat /\ ~ (Len(c) <= Len(q))
    BY <2>4, GrepPathsAre
  <2>6. ~ Bad(c)
    <3> HIDE DEF Bad
    <3>1. Bad(c) => Len(c) \in L
      BY <2>5
    <3> HIDE DEF L
    <3> QED BY <3>1, <2>2, <2>3, <2>5
  <2>7. disk[c].kind # "none"
    BY <2>4, <2>6
  <2>8. disk[q].kind = "dir"
    BY <2>4, <2>7, <1>1
  <2> QED BY <2>3, <2>8
<1>4. grep.pc = "compile" /\ grep.path = <<>> /\ grep.dirs = <<>> /\ Len(grep.dirs) = 0
  BY <1>1, EmptySeq
<1>5. GrepStack /\ NeverAbove
  BY <1>4 DEF GrepStack, NeverAbove
<1>6. GrepPlace
  BY <1>4, EmptySeq DEF GrepPlace, GrepWorks
<1>7. PrintedRight
  BY <1>1, EmptySeq DEF PrintedRight
<1>8. Searched
  <2>1. ASSUME NEW p \in GrepTree PROVE ToCome(p)
    BY <1>4, GrepPathsAre DEF ToCome, GrepWorks
  <2> QED BY <2>1 DEF Searched
<1>9. GivesUp
  BY <1>4 DEF GivesUp
<1> QED BY <1>2, <1>3, <1>5, <1>6, <1>7, <1>8, <1>9 DEF GrepInv

\* The types of the parts of grep.
LEMMA GrepFacts ==
  ASSUME GrepTypeOK
  PROVE  /\ grep.path \in GrepTree /\ Len(grep.dirs) \in Nat
         /\ grep.dirs \in Seq([dir : GrepTree, todo : SUBSET GrepPath])
         /\ \A k \in 1 .. Len(grep.dirs) :
               /\ grep.dirs[k].dir \in GrepTree /\ grep.dirs[k].todo \subseteq GrepPath
               /\ grep.dirs[k] = [dir |-> grep.dirs[k].dir, todo |-> grep.dirs[k].todo]
         /\ \A p \in GrepTree : disk[p] \in Entries
         /\ GrepPath \subseteq GrepTree /\ DOMAIN disk = GrepTree
<1>1. /\ grep.dirs \in Seq([dir : GrepTree, todo : SUBSET GrepPath])
      /\ grep.path \in GrepTree
  BY DEF GrepTypeOK
<1>2. Len(grep.dirs) \in Nat
  BY <1>1, LenProperties
<1>3. \A k \in 1 .. Len(grep.dirs) : grep.dirs[k] \in [dir : GrepTree, todo : SUBSET GrepPath]
  BY <1>1, ElementOfSeq
<1>4. \A p \in GrepTree : disk[p] \in Entries
  BY DEF GrepTypeOK
<1>5. GrepPath \subseteq GrepTree /\ DOMAIN disk = GrepTree
  BY DEF GrepTypeOK, GrepTree
<1> QED BY <1>1, <1>2, <1>3, <1>4, <1>5

\* A step that only goes on to another place, without looking at a directory
\* or into a file.
LEMMA GrepGoesOn ==
  ASSUME GrepInv, NEW next \in {"search", "opendir", "open", "map", "failure"}, GrepTo(next),
         GrepWorks, GrepKeeps, UNCHANGED printed, open_fds' \in Int, open_fds' <= limit,
         next = "opendir" => disk[grep.path].kind = "dir",
         next = "open" => disk[grep.path].kind # "dir",
         next = "map" => disk[grep.path].kind \in {"file", "badlink"},
         GivesUp'
  PROVE  GrepInv'
<1>1. /\ grep'.pc = next /\ grep'.path = grep.path /\ grep'.dirs = grep.dirs
      /\ grep' = [pc |-> next, path |-> grep.path, dirs |-> grep.dirs]
  BY DEF GrepTo, GrepInv, GrepTypeOK
<1>2. UNCHANGED <<disk, removed, pattern, limit, printed>>
  BY DEF GrepKeeps
<1>3. GrepWorks' => GrepWorks
  OBVIOUS
<1>4. GrepTypeOK'
  BY <1>1, <1>2 DEF GrepInv, GrepTypeOK
<1>5. InDirectories' /\ GrepStack'
  BY <1>1, <1>2 DEF GrepInv, InDirectories, GrepStack, WasThere
<1>6. NeverAbove'
  BY <1>1, <1>3 DEF GrepInv, NeverAbove
<1>7. GrepPlace'
  BY <1>1, <1>2, <1>3 DEF GrepInv, GrepPlace, WasThere
<1>8. ASSUME NEW p PROVE ToCome(p)' => ToCome(p)
  BY <1>1 DEF ToCome
<1>9. AllHits' = AllHits /\ \A p : Hits(p)' = Hits(p)
  BY <1>2 DEF AllHits, Hits, MatchesLine
<1>10. PrintedRight'
  BY <1>2, <1>8, <1>9 DEF GrepInv, PrintedRight
<1>11. Searched'
  <2>1. ASSUME next # "failure", NEW p PROVE ToCome(p) => ToCome(p)'
    <3>1. GrepWorks'
      BY <2>1, <1>1 DEF GrepWorks
    <3> QED BY <3>1, <1>1 DEF ToCome
  <2>2. grep'.pc # "failure" => grep.pc # "failure" /\ next # "failure"
    BY <1>1 DEF GrepWorks
  <2> QED BY <2>1, <2>2, <1>2, <1>9 DEF GrepInv, Searched
<1> QED BY <1>4, <1>5, <1>6, <1>7, <1>10, <1>11 DEF GrepInv

\* What is missing though it was to be looked at was removed, or never there.
LEMMA GrepMissing ==
  ASSUME GrepInv, GrepWorks, disk[grep.path].kind = "none"
  PROVE  removed # <<"none">> \/ disk[<<>>].kind = "none"
<1>1. CASE Len(grep.dirs) > 0
  <2>1. removed = grep.path /\ Len(grep.path) > 0 /\ grep.path \in GrepTree
    BY <1>1 DEF GrepInv, GrepPlace, GrepTypeOK, WasThere
  <2>2. grep.path \in GrepPath
    <3>1. grep.path # <<>>
      BY <2>1, EmptySeq
    <3> QED BY <3>1, <2>1 DEF GrepTree
  <2> QED BY <2>1, <2>2, GrepAssumption
<1>2. CASE ~ (Len(grep.dirs) > 0)
  <2>1. grep.path \in GrepTree /\ Len(grep.path) = Len(grep.dirs) /\ Len(grep.dirs) \in Nat
    BY GrepFacts DEF GrepInv, GrepPlace
  <2>2. Len(grep.path) = 0
    BY <2>1, <1>2
  <2>3. grep.path = <<>>
    BY <2>1, <2>2, GrepPathsAre
  <2> QED BY <2>3
<1> QED BY <1>1, <1>2

LEMMA CompileKeeps == GrepInv /\ compile_pattern => GrepInv'
<1> SUFFICES ASSUME GrepInv, compile_pattern PROVE GrepInv'
  OBVIOUS
<1>1. /\ GrepWorks /\ GrepKeeps /\ UNCHANGED <<open_fds, printed>>
      /\ open_fds' \in Int /\ open_fds' <= limit
  BY DEF compile_pattern, GrepAt, GrepWorks, GrepInv, GrepTypeOK
<1>2. CASE pattern.valid
  <2>1. GrepTo("search")
    BY <1>2 DEF compile_pattern
  <2>2. GivesUp'
    BY <2>1 DEF GrepTo, GivesUp, GrepInv, GrepTypeOK
  <2> QED BY <1>1, <2>1, <2>2, GrepGoesOn
<1>3. CASE ~ pattern.valid
  <2>1. GrepTo("failure")
    BY <1>3 DEF compile_pattern
  <2>2. GivesUp'
    BY <1>1, <1>3 DEF GivesUp, GrepKeeps
  <2> QED BY <1>1, <2>1, <2>2, GrepGoesOn
<1> QED BY <1>2, <1>3

LEMMA SearchKeeps == GrepInv /\ search_pattern => GrepInv'
<1> SUFFICES ASSUME GrepInv, search_pattern PROVE GrepInv'
  OBVIOUS
<1>1. /\ GrepWorks /\ GrepKeeps /\ UNCHANGED <<open_fds, printed>>
      /\ open_fds' \in Int /\ open_fds' <= limit
  BY DEF search_pattern, GrepAt, GrepWorks, GrepInv, GrepTypeOK
<1>2. CASE Entry.kind = "none"
  <2>1. GrepTo("failure")
    BY <1>2 DEF search_pattern
  <2>2. GivesUp'
    BY <1>1, <1>2, GrepMissing DEF GivesUp, GrepKeeps, Entry
  <2> QED BY <1>1, <2>1, <2>2, GrepGoesOn
<1>3. CASE Entry.kind = "dir"
  <2>1. GrepTo("opendir") /\ disk[grep.path].kind = "dir"
    BY <1>3 DEF search_pattern, Entry
  <2>2. GivesUp'
    BY <2>1 DEF GrepTo, GivesUp, GrepInv, GrepTypeOK
  <2> QED BY <1>1, <2>1, <2>2, GrepGoesOn
<1>4. CASE Entry.kind \notin {"none", "dir"}
  <2>1. GrepTo("open") /\ disk[grep.path].kind # "dir"
    BY <1>4 DEF search_pattern, Entry
  <2>2. GivesUp'
    BY <2>1 DEF GrepTo, GivesUp, GrepInv, GrepTypeOK
  <2> QED BY <1>1, <2>1, <2>2, GrepGoesOn
<1> QED BY <1>2, <1>3, <1>4

LEMMA GrepOpenFileKeeps == GrepInv /\ OpenFile => GrepInv'
<1> SUFFICES ASSUME GrepInv, OpenFile PROVE GrepInv'
  OBVIOUS
<1>1. /\ GrepWorks /\ GrepKeeps /\ UNCHANGED printed
      /\ open_fds \in Int /\ open_fds <= limit /\ limit \in Nat
  BY DEF OpenFile, GrepAt, GrepWorks, GrepInv, GrepTypeOK
<1>2. CASE Entry.kind = "none" \/ open_fds = limit
  <2>1. GrepTo("failure") /\ UNCHANGED open_fds
    BY <1>2 DEF OpenFile
  <2>2. GivesUp'
    BY <1>1, <1>2, <2>1, GrepMissing DEF GivesUp, GrepKeeps, Entry
  <2>3. open_fds' \in Int /\ open_fds' <= limit
    BY <1>1, <2>1
  <2> QED BY <1>1, <2>1, <2>2, <2>3, GrepGoesOn
<1>3. CASE ~ (Entry.kind = "none" \/ open_fds = limit)
  <2>1. GrepTo("map") /\ open_fds' = open_fds + 1
    BY <1>3 DEF OpenFile
  <2>2. open_fds' \in Int /\ open_fds' <= limit
    BY <1>1, <1>3, <2>1
  <2>3. GivesUp'
    BY <2>1 DEF GrepTo, GivesUp, GrepInv, GrepTypeOK
  <2>4. disk[grep.path].kind \in {"file", "badlink"}
    <3>1. disk[grep.path].kind \notin {"none", "dir"}
      BY <1>3 DEF Entry, OpenFile, GrepAt, GrepInv, GrepPlace
    <3>2. disk[grep.path] \in Entries
      BY GrepFacts DEF GrepInv
    <3> QED BY <3>1, <3>2 DEF Entries
  <2> QED BY <1>1, <2>1, <2>2, <2>3, <2>4, GrepGoesOn
<1> QED BY <1>2, <1>3

\* A step through the directories: nothing is printed, and what is to come
\* stays so, except for what is no file.
LEMMA GrepWalks ==
  ASSUME GrepInv, UNCHANGED <<disk, removed, pattern, printed>>,
         GrepTypeOK', GrepStack', NeverAbove', GrepPlace', grep.pc # "failure", grep'.pc # "failure",
         \A p \in GrepTree : ToCome(p)' => ToCome(p),
         \A p \in GrepTree : disk[p].kind = "file" /\ ToCome(p) => ToCome(p)'
  PROVE  GrepInv'
<1>1. InDirectories' /\ GivesUp'
  BY DEF GrepInv, InDirectories, GivesUp
<1>2. AllHits' = AllHits /\ \A p : Hits(p)' = Hits(p)
  BY DEF AllHits, Hits, MatchesLine
<1>3. \A i \in DOMAIN printed : printed[i][1] \in GrepTree
  <2>1. printed \in Seq(GrepTree \X Nat)
    BY DEF GrepInv, GrepTypeOK
  <2>2. \A i \in 1 .. Len(printed) : printed[i] \in GrepTree \X Nat
    BY <2>1, ElementOfSeq
  <2>3. DOMAIN printed = 1 .. Len(printed)
    BY <2>1
  <2> QED BY <2>2, <2>3
<1>4. PrintedRight'
  BY <1>2, <1>3 DEF GrepInv, PrintedRight
<1>5. Searched'
  BY <1>2 DEF GrepInv, Searched
<1> QED BY <1>1, <1>4, <1>5 DEF GrepInv

\* process_directory makes the entries of the directory wait.
LEMMA GrepDirectoryKeeps == GrepInv /\ process_directory => GrepInv'
<1> SUFFICES ASSUME GrepInv, process_directory PROVE GrepInv'
  OBVIOUS
<1>1. /\ grep.pc = "opendir" /\ GrepWorks /\ GrepKeeps /\ UNCHANGED printed
      /\ open_fds \in Int /\ open_fds <= limit /\ limit \in Nat
      /\ UNCHANGED <<disk, removed, pattern, limit>>
  BY DEF process_directory, GrepAt, GrepWorks, GrepInv, GrepTypeOK, GrepKeeps
<1>2. CASE ~ (open_fds < limit)
  <2>1. GrepTo("failure") /\ UNCHANGED open_fds
    BY <1>2 DEF process_directory
  <2>2. open_fds' \in Int /\ open_fds' <= limit /\ open_fds = limit
    BY <1>1, <1>2, <2>1
  <2>3. GivesUp'
    BY <1>1, <2>1, <2>2 DEF GivesUp
  <2> QED BY <1>1, <2>1, <2>2, <2>3, GrepGoesOn
<1>3. CASE open_fds < limit
  <2> DEFINE n == Len(grep.dirs)
             path == grep.path
             new == [dir |-> path, todo |-> Inside(path)]
             Dir == [dir : GrepTree, todo : SUBSET GrepPath]
  <2>1. /\ open_fds' = open_fds + 1
        /\ grep' = [grep EXCEPT !.pc = "readdir", !.dirs = Append(@, new)]
    BY <1>3 DEF process_directory
  <2>2. /\ n \in Nat /\ path \in GrepTree /\ grep.dirs \in Seq(Dir)
        /\ \A p \in GrepTree : disk[p] \in Entries
    BY GrepFacts DEF GrepInv
  <2>3. Len(path) = n /\ disk[path].kind = "dir"
    BY <1>1 DEF GrepInv, GrepPlace
  <2>4. \A q \in Inside(path) : /\ q \in GrepPath /\ Len(q) = n + 1 /\ IsPrefix(path, q)
                                /\ disk[q].kind # "none"
    BY <2>3 DEF Inside
  <2>5. new \in Dir /\ new.dir = path /\ new.todo = Inside(path)
    BY <2>2, <2>4
  <2> HIDE DEF new
  <2>6. grep' = [pc |-> "readdir", path |-> path, dirs |-> Append(grep.dirs, new)]
    BY <2>1 DEF GrepInv, GrepTypeOK
  <2>7. /\ Append(grep.dirs, new) \in Seq(Dir) /\ Len(Append(grep.dirs, new)) = n + 1
        /\ \A k \in 1 .. n : Append(grep.dirs, new)[k] = grep.dirs[k]
        /\ Append(grep.dirs, new)[n + 1] = new
    BY <2>2, <2>5, AppendProperties
  <2>8. /\ grep'.pc = "readdir" /\ grep'.path = path /\ grep'.dirs \in Seq(Dir)
        /\ Len(grep'.dirs) = n + 1
        /\ \A k \in 1 .. n : grep'.dirs[k] = grep.dirs[k]
        /\ grep'.dirs[n + 1].dir = path /\ grep'.dirs[n + 1].todo = Inside(path)
        /\ grep' = [pc |-> "readdir", path |-> path, dirs |-> grep'.dirs]
        /\ ~ GrepWorks'
    BY <2>5, <2>6, <2>7 DEF GrepWorks
  <2>9. GrepTypeOK'
    <3>1. open_fds' \in Int /\ open_fds' <= limit'
      BY <1>1, <1>3, <2>1
    <3> QED BY <3>1, <1>1, <2>2, <2>8 DEF GrepInv, GrepTypeOK
  <2>10. \A k \in 1 .. n + 1 : k \in 1 .. n \/ k = n + 1
    BY <2>2
  <2>11. GrepStack'
    <3> SUFFICES ASSUME NEW k \in 1 .. n + 1
                 PROVE  /\ Len(grep'.dirs[k].dir) = k - 1 /\ disk[grep'.dirs[k].dir].kind = "dir"
                        /\ \A q \in grep'.dirs[k].todo :
                              Len(q) = k /\ IsPrefix(grep'.dirs[k].dir, q) /\ WasThere(q)
      BY <1>1, <2>8 DEF GrepStack, WasThere
    <3>1. CASE k \in 1 .. n
      BY <3>1, <2>8 DEF GrepInv, GrepStack
    <3>2. CASE k = n + 1
      <4>1. k - 1 = n
        BY <2>2, <3>2
      <4> QED BY <3>2, <4>1, <2>3, <2>4, <2>8 DEF WasThere
    <3> QED BY <3>1, <3>2, <2>10
  <2>12. NeverAbove'
    <3> SUFFICES ASSUME NEW k \in 1 .. n + 1, NEW q \in grep'.dirs[k].todo, NEW j \in 1 .. n + 1
                 PROVE  ~ IsPrefix(q, grep'.dirs[j].dir)
      BY <2>8 DEF NeverAbove
    <3>1. CASE k \in 1 .. n /\ j \in 1 .. n
      BY <3>1, <2>8 DEF GrepInv, NeverAbove
    <3>2. CASE k \in 1 .. n /\ j = n + 1
      BY <3>2, <2>8, <1>1 DEF GrepInv, NeverAbove
    <3>3. CASE k = n + 1
      <4>1. q \in GrepPath /\ Len(q) = n + 1
        BY <3>3, <2>4, <2>8
      <4>2. grep'.dirs[j].dir \in GrepTree /\ Len(grep'.dirs[j].dir) = j - 1
        <5>1. grep'.dirs[j] \in Dir
          BY <2>8, ElementOfSeq
        <5>2. Len(grep'.dirs[j].dir) = j - 1
          BY <2>8, <2>11 DEF GrepStack
        <5> QED BY <5>1, <5>2
      <4>3. ~ (n + 1 <= j - 1)
        BY <2>2
      <4> QED BY <4>1, <4>2, <4>3, GrepPathsAre
    <3> QED BY <3>1, <3>2, <3>3, <2>10
  <2>13. GrepPlace'
    <3>1. n + 1 > 0
      BY <2>2
    <3> QED BY <3>1, <2>8 DEF GrepPlace
  <2>14. ASSUME NEW p \in GrepTree, ToCome(p)' PROVE ToCome(p)
    <3>1. PICK k \in 1 .. n + 1 : \E q \in grep'.dirs[k].todo : IsPrefix(q, p)
      BY <2>8, <2>14 DEF ToCome
    <3>2. CASE k \in 1 .. n
      BY <3>1, <3>2, <2>8 DEF ToCome
    <3>3. CASE k = n + 1
      <4>1. PICK q \in GrepPath : IsPrefix(q, p) /\ IsPrefix(path, q)
        BY <3>1, <3>3, <2>4, <2>8
      <4>2. IsPrefix(path, p)
        BY <4>1, <2>2, GrepPathsAre
      <4> QED BY <4>2, <1>1 DEF ToCome
    <3> QED BY <3>2, <3>3, <2>10
  <2>15. ASSUME NEW p \in GrepTree, disk[p].kind = "file", ToCome(p) PROVE ToCome(p)'
    <3>0. n + 1 \in 1 .. n + 1 /\ \A k \in 1 .. n : k \in 1 .. n + 1
      BY <2>2
    <3>1. CASE \E k \in 1 .. n : \E q \in grep.dirs[k].todo : IsPrefix(q, p)
      BY <3>0, <3>1, <2>8 DEF ToCome
    <3>2. CASE IsPrefix(path, p)
      <4>1. path # p
        BY <2>3, <2>15
      <4>2. PICK c \in GrepPath : IsPrefix(c, p) /\ IsPrefix(path, c) /\ Len(c) = Len(path) + 1
        BY <4>1, <3>2, <2>2, NextDown
      <4>3. disk[c].kind # "none"
        BY <4>2, <2>15, GrepPathsAre DEF GrepInv, InDirectories
      <4>4. c \in Inside(path)
        BY <4>2, <4>3 DEF Inside
      <4> QED BY <4>2, <4>4, <3>0, <2>8 DEF ToCome
    <3> QED BY <3>1, <3>2, <2>15 DEF ToCome
  <2> QED BY <1>1, <2>8, <2>9, <2>11, <2>12, <2>13, <2>14, <2>15, GrepWalks
<1> QED BY <1>2, <1>3

\* NextEntry: an entry that waited is at work.
LEMMA NextEntryKeeps == GrepInv /\ NextEntry => GrepInv'
<1> SUFFICES ASSUME GrepInv, NextEntry PROVE GrepInv'
  OBVIOUS
<1> DEFINE n == Len(grep.dirs)
           Dir == [dir : GrepTree, todo : SUBSET GrepPath]
<1>1. PICK path \in Last(grep.dirs).todo :
         grep' = [pc |-> "search", path |-> path,
                  dirs |-> Append(Front(grep.dirs), [Last(grep.dirs) EXCEPT !.todo = @ \ {path}])]
  BY DEF NextEntry
<1>2. /\ grep.pc = "readdir" /\ ~ GrepWorks /\ n > 0
      /\ UNCHANGED <<disk, removed, pattern, limit, open_fds, printed>>
  BY DEF NextEntry, GrepAt, GrepKeeps, GrepWorks, GrepInv, GrepPlace
<1>3. /\ n \in Nat /\ grep.dirs \in Seq(Dir) /\ grep.dirs # <<>>
      /\ \A k \in 1 .. n : /\ grep.dirs[k].dir \in GrepTree /\ grep.dirs[k].todo \subseteq GrepPath
                           /\ grep.dirs[k] = [dir |-> grep.dirs[k].dir, todo |-> grep.dirs[k].todo]
      /\ GrepPath \subseteq GrepTree
  BY <1>2, GrepFacts, EmptySeq DEF GrepInv
<1>4. /\ Last(grep.dirs) = grep.dirs[n] /\ Front(grep.dirs) \in Seq(Dir)
      /\ Len(Front(grep.dirs)) = n - 1
      /\ \A k \in 1 .. n - 1 : Front(grep.dirs)[k] = grep.dirs[k]
  BY <1>3, FrontIs
<1>5. n \in 1 .. n /\ n - 1 + 1 = n /\ n - 1 \in Nat
      /\ \A k \in 1 .. n : k \in 1 .. n - 1 \/ k = n
  BY <1>2, <1>3
<1> DEFINE D == grep.dirs[n].dir
           T == grep.dirs[n].todo
           e == [dir |-> D, todo |-> T \ {path}]
           dirs == Append(Front(grep.dirs), e)
<1>6. grep' = [pc |-> "search", path |-> path, dirs |-> dirs] /\ path \in T
  <2>1. grep.dirs[n] = [dir |-> D, todo |-> T]
    BY <1>3, <1>5
  <2>2. ASSUME NEW d, NEW t
        PROVE  [[dir |-> d, todo |-> t] EXCEPT !.todo = @ \ {path}]
                  = [dir |-> d, todo |-> t \ {path}]
    OBVIOUS
  <2>3. [grep.dirs[n] EXCEPT !.todo = @ \ {path}] = e
    BY <2>1, <2>2
  <2> QED BY <2>1, <2>3, <1>1, <1>4
<1>7. e \in Dir /\ e.dir = D /\ e.todo = T \ {path} /\ path \in GrepPath /\ path \in GrepTree
  BY <1>3, <1>5, <1>6
<1> HIDE DEF e
<1>8. /\ dirs \in Seq(Dir) /\ Len(dirs) = n - 1 + 1
      /\ \A k \in 1 .. n - 1 : dirs[k] = Front(grep.dirs)[k]
      /\ dirs[n - 1 + 1] = e
  BY <1>4, <1>7, AppendProperties
<1> HIDE DEF dirs
<1>9. /\ grep'.pc = "search" /\ grep'.path = path /\ grep'.dirs = dirs /\ GrepWorks'
      /\ Len(dirs) = n
      /\ \A k \in 1 .. n : /\ dirs[k].dir = grep.dirs[k].dir
                           /\ dirs[k].todo = IF k = n THEN T \ {path} ELSE grep.dirs[k].todo
  <2>1. Len(dirs) = n /\ dirs[n] = e
    BY <1>5, <1>8
  <2>2. \A k \in 1 .. n : k # n => dirs[k] = grep.dirs[k]
    BY <1>4, <1>5, <1>8
  <2> QED BY <2>1, <2>2, <1>6, <1>7 DEF GrepWorks
<1>10. \A k \in 1 .. n : \A q \in dirs[k].todo : q \in grep.dirs[k].todo
  BY <1>9
<1> HIDE DEF T
<1>11. GrepTypeOK'
  BY <1>2, <1>6, <1>7, <1>8 DEF GrepInv, GrepTypeOK
<1>12. GrepStack'
  <2> SUFFICES ASSUME NEW k \in 1 .. n
               PROVE  /\ Len(dirs[k].dir) = k - 1 /\ disk[dirs[k].dir].kind = "dir"
                      /\ \A q \in dirs[k].todo :
                            Len(q) = k /\ IsPrefix(dirs[k].dir, q) /\ WasThere(q)
    BY <1>2, <1>9 DEF GrepStack, WasThere
  <2>1. dirs[k].dir = grep.dirs[k].dir /\ dirs[k].todo \subseteq grep.dirs[k].todo
    BY <1>9, <1>10
  <2> QED BY <2>1 DEF GrepInv, GrepStack
<1>13. /\ Len(path) = n /\ IsPrefix(D, path) /\ WasThere(path)
       /\ \A k \in 1 .. n : Len(grep.dirs[k].dir) = k - 1 /\ \A q \in grep.dirs[k].todo : Len(q) = k
  BY <1>5, <1>6 DEF GrepInv, GrepStack, T
<1>14. ASSUME NEW k \in 1 .. n, NEW q \in dirs[k].todo, IsPrefix(q, path) PROVE FALSE
  <2>1. q \in grep.dirs[k].todo /\ q \in GrepPath /\ q \in GrepTree /\ Len(q) = k
    BY <1>3, <1>10, <1>13
  <2>2. CASE k = n
    <3>1. q = path
      BY <2>1, <2>2, <1>7, <1>13, <1>14, GrepPathsAre
    <3> QED BY <3>1, <2>2, <1>9
  <2>3. CASE k # n
    <3>1. Len(D) = n - 1 /\ D \in GrepTree /\ k <= n - 1
      <4>1. k \in 1 .. n - 1 /\ n - 1 \in Nat
        BY <2>3, <1>5
      <4>2. k <= n - 1
        BY <4>1
      <4> QED BY <4>2, <1>3, <1>5, <1>13
    <3>2. IsPrefix(q, D)
      <4>1. Len(q) <= Len(D)
        BY <2>1, <3>1
      <4> QED BY <2>1, <3>1, <4>1, <1>7, <1>13, <1>14, GrepPathsAre
    <3> QED BY <3>2, <2>1, <1>5 DEF GrepInv, NeverAbove
  <2> QED BY <2>2, <2>3
<1>15. NeverAbove'
  <2> SUFFICES ASSUME NEW k \in 1 .. n, NEW q \in dirs[k].todo
               PROVE  /\ \A j \in 1 .. n : ~ IsPrefix(q, dirs[j].dir)
                      /\ ~ IsPrefix(q, path)
    BY <1>9 DEF NeverAbove
  <2>1. \A j \in 1 .. n : ~ IsPrefix(q, dirs[j].dir)
    BY <1>9, <1>10 DEF GrepInv, NeverAbove
  <2> QED BY <2>1, <1>14
<1>16. GrepPlace'
  BY <1>2, <1>5, <1>9, <1>13 DEF GrepPlace, WasThere
<1>17. ASSUME NEW p \in GrepTree, ToCome(p)' PROVE ToCome(p)
  <2>1. CASE IsPrefix(path, p)
    BY <2>1, <1>5, <1>6 DEF ToCome, T
  <2>2. CASE \E k \in 1 .. n : \E q \in dirs[k].todo : IsPrefix(q, p)
    BY <2>2, <1>10 DEF ToCome
  <2> QED BY <2>1, <2>2, <1>9, <1>17 DEF ToCome
<1>18. ASSUME NEW p \in GrepTree, ToCome(p) PROVE ToCome(p)'
  <2>1. PICK k \in 1 .. n : \E q \in grep.dirs[k].todo : IsPrefix(q, p)
    BY <1>2, <1>18 DEF ToCome
  <2>2. PICK q \in grep.dirs[k].todo : IsPrefix(q, p)
    BY <2>1
  <2>3. CASE k = n /\ q = path
    BY <2>2, <2>3, <1>9 DEF ToCome
  <2>4. CASE ~ (k = n /\ q = path)
    <3>1. q \in dirs[k].todo
      BY <2>4, <1>9 DEF T
    <3> QED BY <3>1, <2>2, <1>9 DEF ToCome
  <2> QED BY <2>3, <2>4
<1> QED BY <1>2, <1>9, <1>11, <1>12, <1>15, <1>16, <1>17, <1>18, GrepWalks

\* closedir: nothing waited in the directory.
LEMMA CloseDirKeeps == GrepInv /\ CloseDir => GrepInv'
<1> SUFFICES ASSUME GrepInv, CloseDir PROVE GrepInv'
  OBVIOUS
<1> DEFINE n == Len(grep.dirs)
           Dir == [dir : GrepTree, todo : SUBSET GrepPath]
           dirs == Front(grep.dirs)
           next == IF n = 1 THEN "success" ELSE "readdir"
<1>1. /\ grep.pc = "readdir" /\ ~ GrepWorks /\ n > 0 /\ open_fds' = open_fds - 1
      /\ UNCHANGED <<disk, removed, pattern, limit, printed>>
      /\ Last(grep.dirs).todo = {}
  BY DEF CloseDir, GrepAt, GrepKeeps, GrepWorks, GrepInv, GrepPlace
<1>2. grep' = [pc |-> next, path |-> grep.path, dirs |-> dirs]
  BY DEF CloseDir, GrepInv, GrepTypeOK
<1>3. n \in Nat /\ grep.dirs \in Seq(Dir) /\ grep.dirs # <<>> /\ grep.path \in GrepTree
  BY <1>1, GrepFacts, EmptySeq DEF GrepInv
<1>4. /\ Last(grep.dirs) = grep.dirs[n] /\ dirs \in Seq(Dir) /\ Len(dirs) = n - 1
      /\ \A k \in 1 .. n - 1 : dirs[k] = grep.dirs[k]
  BY <1>3, FrontIs
<1> HIDE DEF dirs
<1>5. /\ grep'.pc = next /\ grep'.dirs = dirs /\ grep'.path = grep.path /\ ~ GrepWorks'
      /\ next \in {"success", "readdir"}
  BY <1>2 DEF GrepWorks
<1>6. \A k \in 1 .. n - 1 : k \in 1 .. n
  BY <1>3
<1>7. \A k \in 1 .. n : k \in 1 .. n - 1 \/ k = n
  BY <1>3
<1>8. GrepTypeOK'
  <2>1. open_fds' \in Int /\ open_fds' <= limit'
    BY <1>1 DEF GrepInv, GrepTypeOK
  <2> QED BY <2>1, <1>1, <1>2, <1>3, <1>4, <1>5 DEF GrepInv, GrepTypeOK
<1>9. GrepStack'
  <2> SUFFICES ASSUME NEW k \in 1 .. n - 1
               PROVE  /\ Len(dirs[k].dir) = k - 1 /\ disk[dirs[k].dir].kind = "dir"
                      /\ \A q \in dirs[k].todo :
                            Len(q) = k /\ IsPrefix(dirs[k].dir, q) /\ WasThere(q)
    BY <1>1, <1>4, <1>5 DEF GrepStack, WasThere
  <2> QED BY <1>4, <1>6 DEF GrepInv, GrepStack
<1>10. NeverAbove'
  BY <1>1, <1>4, <1>5, <1>6 DEF GrepInv, NeverAbove
<1>11. GrepPlace'
  <2>1. n = 1 => n - 1 = 0
    OBVIOUS
  <2>2. n # 1 => n - 1 > 0
    <3>1. \A m \in Nat : m > 0 /\ m # 1 => m - 1 > 0
      OBVIOUS
    <3> QED BY <3>1, <1>1, <1>3
  <2> QED BY <2>1, <2>2, <1>4, <1>5 DEF GrepPlace
<1>12. \A p \in GrepTree : ToCome(p)' <=> ToCome(p)
  <2> SUFFICES ASSUME NEW p \in GrepTree PROVE ToCome(p)' <=> ToCome(p)
    OBVIOUS
  <2>1. ToCome(p)' <=> \E k \in 1 .. n - 1 : \E q \in grep.dirs[k].todo : IsPrefix(q, p)
    BY <1>4, <1>5 DEF ToCome
  <2>2. ToCome(p) <=> \E k \in 1 .. n : \E q \in grep.dirs[k].todo : IsPrefix(q, p)
    BY <1>1 DEF ToCome
  <2>3. grep.dirs[n].todo = {}
    BY <1>1, <1>4
  <2> QED BY <2>1, <2>2, <2>3, <1>6, <1>7
<1>13. grep.pc # "failure" /\ grep'.pc # "failure"
  BY <1>1, <1>5
<1> HIDE DEF next
<1> QED BY <1>1, <1>8, <1>9, <1>10, <1>11, <1>12, <1>13, GrepWalks

\* What lies in a file is a sequence of characters.
LEMMA TextsAre ==
  ASSUME GrepTypeOK, NEW p \in GrepTree
  PROVE  /\ disk[p].text \in Seq({"x", ".", "\n"})
         /\ disk[p].kind \in {"none", "dir", "badlink", "file"}
<1>1. disk[p] \in Entries
  BY GrepFacts
<1>2. <<>> \in Seq({"x", ".", "\n"})
  BY EmptySeq
<1> QED BY <1>1, <1>2, GrepAssumption DEF Entries

\* The lines of Hits, with the numbers that they are printed with.
LEMMA HitsAre == \A p : Hits(p) = {p} \X Matching(disk[p].text)
<1> SUFFICES ASSUME NEW p PROVE Hits(p) = {p} \X Matching(disk[p].text)
  OBVIOUS
<1> DEFINE text == disk[p].text
           starts == LineStarts(text)
           number == [s \in starts |-> Cardinality({t \in starts : t <= s})]
           S == {s \in starts : MatchesLine(Line(text, s))}
<1>1. Hits(p) = {<<p, number[s]>> : s \in S}
  BY DEF Hits
<1>2. \A s \in S : number[s] = Rank(starts, s)
  BY DEF Rank
<1>3. Matching(text) = {Rank(starts, s) : s \in S}
  BY DEF Matching
<1> HIDE DEF S, number, starts, text
<1>4. Hits(p) \subseteq {p} \X Matching(text)
  BY <1>1, <1>2, <1>3
<1>5. {p} \X Matching(text) \subseteq Hits(p)
  <2> SUFFICES ASSUME NEW s \in S PROVE <<p, Rank(starts, s)>> \in Hits(p)
    BY <1>3
  <2> QED BY <1>1, <1>2
<1> QED BY <1>4, <1>5 DEF text

\* process_file prints the lines of a file that waits no more.
LEMMA ProcessFileKeeps == GrepInv /\ process_file => GrepInv'
<1> SUFFICES ASSUME GrepInv, process_file PROVE GrepInv'
  OBVIOUS
<1> DEFINE path == grep.path
           text == disk[path].text
           n == Len(grep.dirs)
           new == process_file_line(text)
           next == IF grep.dirs = <<>> THEN "success" ELSE "readdir"
<1>1. /\ grep.pc = "map" /\ GrepWorks /\ GrepKeeps
      /\ open_fds \in Int /\ open_fds <= limit /\ limit \in Nat
      /\ UNCHANGED <<disk, removed, pattern, limit>>
  BY DEF process_file, GrepAt, GrepWorks, GrepInv, GrepTypeOK, GrepKeeps
<1>2. /\ path \in GrepTree /\ disk[path].kind \in {"file", "badlink"} /\ DOMAIN disk = GrepTree
      /\ text \in Seq({"x", ".", "\n"}) /\ n \in Nat /\ grep.path \in GrepTree
  BY <1>1, GrepFacts, TextsAre DEF GrepInv, GrepPlace
<1>3. CASE Entry.kind # "file" \/ Entry.text = <<>>
  <2>1. GrepTo("failure") /\ open_fds' = open_fds - 1 /\ UNCHANGED printed
    BY <1>3 DEF process_file
  <2>2. open_fds' \in Int /\ open_fds' <= limit
    BY <1>1, <2>1
  <2>3. \E p \in DOMAIN disk : \/ disk[p].kind = "badlink"
                               \/ disk[p].kind = "file" /\ disk[p].text = <<>>
    BY <1>2, <1>3 DEF Entry
  <2>4. GivesUp'
    BY <1>1, <2>3 DEF GivesUp
  <2> QED BY <1>1, <2>1, <2>2, <2>4, GrepGoesOn
<1>4. CASE ~ (Entry.kind # "file" \/ Entry.text = <<>>)
  <2>1. printed' = printed \o new /\ GrepReturns /\ UNCHANGED open_fds /\ disk[path].kind = "file"
    BY <1>4 DEF process_file, Entry
  <2>2. /\ grep'.pc = next /\ grep'.path = path /\ grep'.dirs = grep.dirs /\ ~ GrepWorks'
        /\ grep' = [pc |-> next, path |-> path, dirs |-> grep.dirs] /\ next \in {"success", "readdir"}
    BY <2>1 DEF GrepReturns, GrepTo, GrepWorks, GrepInv, GrepTypeOK
  <2>3. next = "success" <=> n = 0
    <3>1. n = 0 <=> grep.dirs = <<>>
      BY GrepFacts, EmptySeq DEF GrepInv
    <3> QED BY <3>1
  <2> HIDE DEF next
  <2>4. /\ new \in Seq({path} \X Nat)
        /\ \A i, j \in DOMAIN new : new[i] = new[j] => i = j
        /\ \A i \in DOMAIN new : new[i][1] = path /\ new[i] \in Hits(path)
        /\ ~ pattern.groups => Hits(path) \subseteq ToSet(new)
    <3> DEFINE C == {"x", ".", "\n"}
    <3>1. text \in Seq(C)
      BY <1>2
    <3> HIDE DEF C
    <3>2. GrepTypeOK /\ Hits(path) = {path} \X Matching(text)
      BY HitsAre DEF GrepInv
    <3> HIDE DEF text
    <3> QED BY <3>1, <3>2, LinesAre
  <2> HIDE DEF new
  <2>5. printed \in Seq(GrepTree \X Nat) /\ new \in Seq(GrepTree \X Nat)
    <3>1. {path} \X Nat \subseteq GrepTree \X Nat
      BY <1>2
    <3>2. \A i \in 1 .. Len(new) : new[i] \in GrepTree \X Nat
      BY <2>4, <3>1, ElementOfSeq
    <3> QED BY <3>2, <2>4 DEF GrepInv, GrepTypeOK
  <2> DEFINE l == Len(printed)
             m == Len(new)
  <2>6. /\ printed' \in Seq(GrepTree \X Nat) /\ Len(printed') = l + m
        /\ \A i \in 1 .. l + m : printed'[i] = IF i <= l THEN printed[i] ELSE new[i - l]
    BY <2>1, <2>5, ConcatProperties
  <2>7. /\ l \in Nat /\ m \in Nat /\ DOMAIN printed = 1 .. l /\ DOMAIN new = 1 .. m
        /\ DOMAIN printed' = 1 .. l + m
    BY <2>5, <2>6, LenProperties
  <2>8. /\ \A i \in 1 .. l : i \in 1 .. l + m /\ printed'[i] = printed[i]
        /\ \A i \in 1 .. m : l + i \in 1 .. l + m /\ printed'[l + i] = new[i]
        /\ \A i \in 1 .. l + m : i \in 1 .. l \/ (i - l \in 1 .. m /\ printed'[i] = new[i - l])
    <3>1. \A i \in 1 .. l : i \in 1 .. l + m /\ i <= l
      BY <2>7
    <3>2. \A i \in 1 .. m : l + i \in 1 .. l + m /\ ~ (l + i <= l) /\ (l + i) - l = i
      BY <2>7
    <3>3. \A i \in 1 .. l + m : i \in 1 .. l \/ (i - l \in 1 .. m /\ ~ (i <= l))
      BY <2>7
    <3> HIDE DEF l, m
    <3> QED BY <3>1, <3>2, <3>3, <2>6
  <2>9. \A i \in 1 .. l : printed[i][1] \in GrepTree /\ ~ ToCome(printed[i][1])
                          /\ (printed[i] \in AllHits \/ printed[i][1] = removed)
    <3>1. \A i \in 1 .. l : printed[i] \in GrepTree \X Nat
      BY <2>5, ElementOfSeq
    <3> QED BY <3>1, <2>7 DEF GrepInv, PrintedRight
  <2> HIDE DEF l, m
  <2>10. ToCome(path)
    BY <1>1, <1>2, GrepPathsAre DEF ToCome
  <2>11. AllHits' = AllHits /\ (\A p : Hits(p)' = Hits(p)) /\ Hits(path) \subseteq AllHits
    <3>1. AllHits' = AllHits /\ \A p : Hits(p)' = Hits(p)
      BY <1>1 DEF AllHits, Hits, MatchesLine
    <3>2. path \in {q \in DOMAIN disk : disk[q].kind = "file"}
      BY <1>2, <2>1
    <3> HIDE DEF path
    <3>3. Hits(path) \subseteq AllHits
      BY <3>2 DEF AllHits
    <3> QED BY <3>1, <3>3
  <2>12. \A p : ToCome(p)' => ToCome(p)
    BY <2>2 DEF ToCome
  <2>13. ASSUME NEW p, p = path PROVE ~ ToCome(p)'
    <3>1. \A k \in 1 .. n : \A q \in grep.dirs[k].todo : ~ IsPrefix(q, path)
      BY <1>1 DEF GrepInv, NeverAbove
    <3> QED BY <3>1, <2>2, <2>13 DEF ToCome
  <2>14. ASSUME NEW i \in 1 .. l + m, NEW j \in 1 .. l + m, printed'[i] = printed'[j]
         PROVE  i = j
    <3>1. CASE i \in 1 .. l /\ j \in 1 .. l
      BY <3>1, <2>7, <2>8, <2>14 DEF GrepInv, PrintedRight
    <3>2. CASE i \notin 1 .. l /\ j \notin 1 .. l
      <4>1. i - l \in 1 .. m /\ j - l \in 1 .. m /\ new[i - l] = new[j - l]
        BY <3>2, <2>8, <2>14
      <4>2. i - l = j - l
        BY <4>1, <2>4, <2>7
      <4> QED BY <4>2, <2>7
    <3>3. CASE (i \in 1 .. l) # (j \in 1 .. l)
      <4>1. \A u \in 1 .. l + m : /\ u \in 1 .. l => ~ ToCome(printed'[u][1])
                                  /\ u \notin 1 .. l => ToCome(printed'[u][1])
        <5> SUFFICES ASSUME NEW u \in 1 .. l + m
                     PROVE  /\ u \in 1 .. l => ~ ToCome(printed'[u][1])
                            /\ u \notin 1 .. l => ToCome(printed'[u][1])
          OBVIOUS
        <5>1. CASE u \in 1 .. l
          BY <5>1, <2>8, <2>9
        <5>2. CASE u \notin 1 .. l
          <6>1. u - l \in DOMAIN new /\ printed'[u] = new[u - l]
            BY <5>2, <2>7, <2>8
          <6>2. printed'[u][1] = path
            BY <6>1, <2>4
          <6> QED BY <5>2, <6>2, <2>10
        <5> QED BY <5>1, <5>2
      <4>2. printed'[i][1] = printed'[j][1]
        BY <2>14
      <4>3. ToCome(printed'[i][1]) = (i \notin 1 .. l) /\ ToCome(printed'[j][1]) = (j \notin 1 .. l)
        BY <4>1 DEF ToCome
      <4> QED BY <4>1, <4>2, <3>3
    <3> QED BY <3>1, <3>2, <3>3
  <2>15. ASSUME NEW i \in 1 .. l + m, NEW h, h = printed'[i], NEW p, p = h[1]
         PROVE  /\ h \in AllHits' \/ p = removed'
                /\ ~ ToCome(p)'
    <3>1. CASE i \in 1 .. l
      <4>1. h = printed[i]
        BY <3>1, <2>8, <2>15
      <4>2. ~ ToCome(p) /\ (h \in AllHits \/ p = removed)
        BY <4>1, <3>1, <2>9, <2>15
      <4> QED BY <4>2, <1>1, <2>11, <2>12
    <3>2. CASE i \notin 1 .. l
      <4>1. h = new[i - l] /\ i - l \in DOMAIN new
        BY <3>2, <2>7, <2>8, <2>15
      <4>2. p = path /\ h \in Hits(path)
        BY <4>1, <2>4, <2>15
      <4> QED BY <4>2, <2>11, <2>13
    <3> QED BY <3>1, <3>2
  <2>16. PrintedRight'
    <3>1. ASSUME NEW i \in 1 .. l + m
          PROVE  /\ printed'[i] \in AllHits' \/ printed'[i][1] = removed'
                 /\ ~ ToCome(printed[i][1])'
      BY <2>15 DEF ToCome
    <3> QED BY <3>1, <2>7, <2>14 DEF PrintedRight
  <2>17. Searched'
    <3> SUFFICES ASSUME ~ pattern.groups, NEW p \in GrepTree, disk[p].kind = "file",
                        ~ ToCome(p)', NEW h \in Hits(p)
                 PROVE  h \in ToSet(printed')
      BY <1>1, <2>11 DEF Searched
    <3>1. CASE ToCome(p)
      <4>1. IsPrefix(path, p)
        BY <3>1, <2>2 DEF ToCome
      <4>2. path = p
        BY <4>1, <2>1, <1>2 DEF GrepInv, InDirectories
      <4>3. PICK i \in 1 .. m : new[i] = h
        BY <4>2, <2>4, <2>7 DEF ToSet
      <4> QED BY <4>3, <2>7, <2>8 DEF ToSet
    <3>2. CASE ~ ToCome(p)
      <4>1. h \in ToSet(printed)
        BY <3>2, <1>1 DEF GrepInv, Searched
      <4>2. PICK i \in 1 .. l : printed[i] = h
        BY <4>1, <2>7 DEF ToSet
      <4> QED BY <4>2, <2>7, <2>8 DEF ToSet
    <3> QED BY <3>1, <3>2
  <2>18. GrepTypeOK'
    BY <1>1, <2>1, <2>2, <2>6 DEF GrepInv, GrepTypeOK
  <2>19. InDirectories' /\ GrepStack' /\ NeverAbove'
    BY <1>1, <2>2 DEF GrepInv, InDirectories, GrepStack, NeverAbove, WasThere
  <2>20. GrepPlace'
    <3>1. n # 0 => n > 0
      BY <1>2
    <3> QED BY <3>1, <2>2, <2>3 DEF GrepPlace
  <2>21. GivesUp'
    BY <2>2 DEF GivesUp
  <2> QED BY <2>16, <2>17, <2>18, <2>19, <2>20, <2>21 DEF GrepInv
<1> QED BY <1>3, <1>4

\* Another process may remove what is not mapped.
LEMMA VanishKeeps == ASSUME NEW p \in GrepPath PROVE GrepInv /\ Vanish(p) => GrepInv'
<1> SUFFICES ASSUME GrepInv, Vanish(p) PROVE GrepInv'
  OBVIOUS
<1> DEFINE gone == [kind |-> "none", text |-> <<>>]
<1>1. /\ removed = <<"none">> /\ ~ (grep.pc = "map" /\ grep.path = p) /\ grep.pc # "failure"
      /\ disk[p].kind \in {"file", "badlink"} /\ removed' = p
      /\ disk' = [disk EXCEPT ![p] = gone]
      /\ UNCHANGED <<pattern, open_fds, limit, printed, grep>>
  BY DEF Vanish, GrepAt
<1>2. p \in GrepTree /\ disk \in [GrepTree -> Entries] /\ gone \in Entries
  BY DEF GrepInv, GrepTypeOK, GrepTree, Entries
<1>3. /\ disk'[p].kind = "none" /\ \A q : q # p => disk'[q] = disk[q]
      /\ disk' \in [GrepTree -> Entries] /\ DOMAIN disk' = DOMAIN disk
  BY <1>1, <1>2
<1>4. \A q \in GrepTree :
         /\ disk[q].kind = "dir" <=> disk'[q].kind = "dir"
         /\ disk'[q].kind # "none" => disk[q].kind # "none"
         /\ WasThere(q) => WasThere(q)'
  <2> SUFFICES ASSUME NEW q \in GrepTree
               PROVE  /\ disk[q].kind = "dir" <=> disk'[q].kind = "dir"
                      /\ disk'[q].kind # "none" => disk[q].kind # "none"
                      /\ WasThere(q) => WasThere(q)'
    OBVIOUS
  <2>1. CASE q = p
    BY <2>1, <1>1, <1>3 DEF WasThere
  <2>2. CASE q # p
    <3>1. q # <<"none">>
      BY GrepAssumption, EmptySeq DEF GrepTree
    <3> QED BY <2>2, <3>1, <1>1, <1>3 DEF WasThere
  <2> QED BY <2>1, <2>2
<1>5. GrepTypeOK'
  BY <1>1, <1>3 DEF GrepInv, GrepTypeOK
<1>6. InDirectories'
  BY <1>4 DEF GrepInv, InDirectories
<1>7. /\ Len(grep.dirs) \in Nat /\ grep.path \in GrepTree
      /\ \A k \in 1 .. Len(grep.dirs) : /\ grep.dirs[k].dir \in GrepTree
                                        /\ grep.dirs[k].todo \subseteq GrepPath
      /\ GrepPath \subseteq GrepTree
  BY GrepFacts DEF GrepInv
<1>8. GrepStack'
  <2> SUFFICES ASSUME NEW k \in 1 .. Len(grep.dirs)
               PROVE  /\ Len(grep.dirs[k].dir) = k - 1 /\ disk'[grep.dirs[k].dir].kind = "dir"
                      /\ \A q \in grep.dirs[k].todo :
                            Len(q) = k /\ IsPrefix(grep.dirs[k].dir, q) /\ WasThere(q)'
    BY <1>1 DEF GrepStack, WasThere
  <2> QED BY <1>4, <1>7 DEF GrepInv, GrepStack
<1>9. NeverAbove'
  BY <1>1 DEF GrepInv, NeverAbove, GrepWorks
<1>10. GrepPlace'
  <2>1. /\ GrepWorks' <=> GrepWorks
        /\ WasThere(grep.path) => WasThere(grep.path)'
    <3>1. ASSUME NEW q, q = grep.path PROVE WasThere(q) => WasThere(q)'
      BY <3>1, <1>4, <1>7
    <3> QED BY <3>1, <1>1 DEF GrepWorks, WasThere
  <2>2. grep.pc = "map" => disk'[grep.path] = disk[grep.path]
    BY <1>1, <1>3
  <2> QED BY <2>1, <2>2, <1>1, <1>4, <1>7 DEF GrepInv, GrepPlace
<1>11. \A q : ToCome(q)' <=> ToCome(q)
  BY <1>1 DEF ToCome, GrepWorks
<1>12. \A q : q # p => Hits(q)' = Hits(q)
  <2> SUFFICES ASSUME NEW q, q # p PROVE Hits(q)' = Hits(q)
    OBVIOUS
  <2>1. disk'[q] = disk[q]
    BY <1>3
  <2> QED BY <2>1, <1>1 DEF Hits, MatchesLine
<1>13. ASSUME NEW h \in AllHits, h[1] # p PROVE h \in AllHits'
  <2>1. PICK q \in DOMAIN disk : disk[q].kind = "file" /\ h \in Hits(q)
    BY DEF AllHits
  <2>2. h[1] = q
    BY <2>1, HitsAre
  <2>3. disk'[q].kind = "file" /\ h \in Hits(q)' /\ q \in DOMAIN disk'
    BY <2>1, <2>2, <1>3, <1>12, <1>13
  <2> QED BY <2>3 DEF AllHits
<1>14. \A i \in DOMAIN printed : printed[i][1] \in GrepTree
  <2>1. printed \in Seq(GrepTree \X Nat)
    BY DEF GrepInv, GrepTypeOK
  <2>2. \A i \in 1 .. Len(printed) : printed[i] \in GrepTree \X Nat
    BY <2>1, ElementOfSeq
  <2>3. DOMAIN printed = 1 .. Len(printed)
    BY <2>1
  <2> QED BY <2>2, <2>3
<1>15. PrintedRight'
  <2>1. ASSUME NEW i \in DOMAIN printed
        PROVE  (printed[i] \in AllHits \/ printed[i][1] = removed) /\ ~ ToCome(printed[i][1])
    BY DEF GrepInv, PrintedRight
  <2>2. ASSUME NEW i \in DOMAIN printed, NEW h, h = printed[i]
        PROVE  (h \in AllHits' \/ h[1] = p) /\ ~ ToCome(h[1])'
    <3>1. h[1] # <<"none">>
      BY <1>14, <2>2, GrepAssumption, EmptySeq DEF GrepTree
    <3>2. h \in AllHits
      BY <3>1, <2>1, <2>2, <1>1
    <3> QED BY <3>2, <2>1, <2>2, <1>11, <1>13
  <2>3. ASSUME NEW i \in DOMAIN printed
        PROVE  /\ printed[i] \in AllHits' \/ printed[i][1] = p
               /\ ~ ToCome(printed[i][1])'
    BY <2>2, <1>1 DEF ToCome
  <2> QED BY <2>3, <1>1 DEF GrepInv, PrintedRight
<1>16. Searched'
  BY <1>1, <1>3, <1>11, <1>12 DEF GrepInv, Searched
<1>17. GivesUp'
  BY <1>1 DEF GivesUp
<1> QED BY <1>5, <1>6, <1>8, <1>9, <1>10, <1>15, <1>16, <1>17 DEF GrepInv

LEMMA GrepNextInv == GrepInv /\ [GrepNext]_grepVars => GrepInv'
<1> SUFFICES ASSUME GrepInv, [GrepNext]_grepVars PROVE GrepInv'
  OBVIOUS
<1>1. CASE \/ compile_pattern \/ search_pattern \/ process_directory \/ NextEntry
           \/ CloseDir \/ OpenFile \/ process_file
  BY <1>1, CompileKeeps, SearchKeeps, GrepDirectoryKeeps, NextEntryKeeps, CloseDirKeeps,
     GrepOpenFileKeeps, ProcessFileKeeps
<1>2. ASSUME NEW p \in GrepPath, Vanish(p) PROVE GrepInv'
  BY <1>2, VanishKeeps
<1>3. CASE UNCHANGED grepVars
  <2>1. UNCHANGED <<disk, removed, pattern, open_fds, limit, printed, grep>>
    BY <1>3 DEF grepVars
  <2>2. GrepTypeOK'
    BY <2>1 DEF GrepInv, GrepTypeOK
  <2>3. InDirectories' /\ GrepStack' /\ NeverAbove'
    BY <2>1 DEF GrepInv, InDirectories, GrepStack, NeverAbove, WasThere, GrepWorks
  <2>4. GrepPlace' /\ GivesUp'
    BY <2>1 DEF GrepInv, GrepPlace, WasThere, GrepWorks, GivesUp
  <2>5. AllHits' = AllHits /\ (\A p : Hits(p)' = Hits(p)) /\ \A p : ToCome(p)' <=> ToCome(p)
    BY <2>1 DEF AllHits, Hits, MatchesLine, ToCome, GrepWorks
  <2>6. PrintedRight' /\ Searched'
    BY <2>1, <2>5 DEF GrepInv, PrintedRight, Searched
  <2> QED BY <2>2, <2>3, <2>4, <2>6 DEF GrepInv
<1> QED BY <1>1, <1>2, <1>3 DEF GrepNext

\* The inductive invariant of minigrep.
THEOREM GrepInvariant == GrepSpec => []GrepInv
<1> QED BY GrepInitInv, GrepNextInv, PTL DEF GrepSpec

\* minigrep prints, if it succeeds, every line that matches of every file, each
\* once, and nothing else, and gives up for no other reason than those named
\* (minigrep.c:16-99).
THEOREM GrepFindsAll == GrepSpec => []GrepFinds
<1>1. GrepInv => GrepFinds
  <2> SUFFICES ASSUME GrepInv PROVE GrepFinds
    OBVIOUS
  <2>1. ASSUME grep.pc = "success", ~ pattern.groups PROVE AllHits \subseteq ToSet(printed)
    <3>1. \A p : ~ ToCome(p)
      BY <2>1 DEF GrepInv, GrepPlace, ToCome, GrepWorks
    <3> QED BY <3>1, <2>1 DEF GrepInv, GrepTypeOK, Searched, AllHits
  <2> QED BY <2>1 DEF GrepInv, PrintedRight, GivesUp, GrepFinds, GrepAt
<1> QED BY <1>1, GrepInvariant, PTL
=============================================================================
