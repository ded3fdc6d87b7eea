--------------------------- MODULE FileAllocator ---------------------------
(***************************************************************************)
(* falloc_init, falloc_destroy, falloc_acquire_page, falloc_release_page   *)
(* of 05-memory/tasks/file-allocator/falloc.c.                             *)
(*                                                                         *)
(* A page allocator in a file mapped MAP_SHARED: the mask of used pages,   *)
(* then the pages.  The mask and the pages live in the file (in its page   *)
(* cache) and outlive the process; the counter and the pointers do not.    *)
(* The program may be killed between any two system calls or stores and    *)
(* start again; the file is never damaged by that, but the kernel zeroes   *)
(* what lies in the last page of the file beyond its end whenever it       *)
(* writes that page back.                                                  *)
(*                                                                         *)
(* Clients follow the README: they release only a page they hold, and open *)
(* a file that falloc_init made with the same allowed_page_count.          *)
(***************************************************************************)
EXTENDS Integers, FiniteSets

CONSTANTS Client,                    \* the users of pages
          Data, Zero,                \* contents of (part of) a page
          N,                         \* allowed_page_count
          PAGE_SIZE,                 \* 4096
          PAGE_MASK_SIZE,            \* 512, the bytes of mask in the mapping
          PAGE_MASK_SIZE_IN_BYTES,   \* 64, the bytes of mask in the file
          WordBits,                  \* bits of one word of the mask, 64
          NoPage,                    \* a NULL page pointer
          MaxMaps                    \* bound on the mappings one process makes

ASSUME FileAllocatorAssumption ==
    /\ Zero \in Data
    /\ N \in Nat \ {0} /\ WordBits \in Nat \ {0}
    /\ PAGE_SIZE \in Nat \ {0}
    /\ PAGE_MASK_SIZE \in Nat /\ PAGE_MASK_SIZE_IN_BYTES \in Nat
    /\ PAGE_MASK_SIZE_IN_BYTES <= PAGE_MASK_SIZE
    /\ PAGE_MASK_SIZE < PAGE_SIZE
    /\ N <= 8 * PAGE_MASK_SIZE       \* the mask has a bit for every page
    /\ NoPage \notin Nat
    /\ MaxMaps \in Nat

Index == 0 .. N - 1

\* Mutant: the bit is looked for in the first word only.
BitOfFirstWord(i) == <<0, i % WordBits>>

\* Bit index & 63 of word index >> 6.
Bit(i) == <<i \div WordBits, i % WordBits>>

FileSize == N * PAGE_SIZE + PAGE_MASK_SIZE_IN_BYTES
PageEnd(i) == PAGE_MASK_SIZE + (i + 1) * PAGE_SIZE

VARIABLES exists,     \* the file exists
          mask,       \* the bits that are set in the file's mask
          body,       \* contents of each page but its last bytes ...
          tail,       \* ... its last PAGE_MASK_SIZE - PAGE_MASK_SIZE_IN_BYTES
          pc,         \* where the process is: "down", in falloc_init, "up",
                      \* or in falloc_acquire_page
          existed,    \* local file_already_existed
          found,      \* the index falloc_acquire_page is about to return
          user,       \* the client falloc_acquire_page works for
          count,      \* allocator->curr_page_count
          base,       \* allocator->base_addr is not NULL
          fds, maps,  \* descriptors and mappings the process has
          held,       \* history: the page each client holds
          wrote       \* history: what each client wrote to its page

file == <<exists, mask, body, tail>>
vars == <<exists, mask, body, tail, pc, existed, found, user, count, base, fds,
          maps, held, wrote>>

Init == /\ exists = FALSE
        /\ mask = {}
        /\ body = [i \in Index |-> Zero]
        /\ tail = [i \in Index |-> Zero]
        /\ pc = "down"
        /\ existed \in BOOLEAN
        /\ found = NoPage
        /\ user = NoPage
        /\ count = 0
        /\ base = FALSE
        /\ fds = 0 /\ maps = 0
        /\ held = [c \in Client |-> NoPage]
        /\ wrote = [c \in Client |-> Zero]

GetPageBit(i) == Bit(i) \in mask

----------------------------------------------------------------------------
(* falloc_init *)

\* open, and open again with O_CREAT when the file does not exist.
Open == /\ pc = "down"
        /\ maps < MaxMaps
        /\ existed' = exists
        /\ exists' = TRUE
        /\ fds' = fds + 1
        /\ pc' = "opened"
        /\ UNCHANGED <<mask, body, tail, found, user, count, base, maps, held, wrote>>

\* Mutant: the early returns leave the descriptor open.
InitFailsOpen == /\ pc \in {"opened", "sized"}
                 /\ pc' = "down"
                 /\ UNCHANGED <<file, existed, found, user, count, base, fds, maps,
                                held, wrote>>

\* ftruncate or mmap fails: the descriptor is closed and the allocator is
\* left as it was.
InitFails == /\ pc \in {"opened", "sized"}
             /\ fds' = fds - 1
             /\ pc' = "down"
             /\ UNCHANGED <<file, existed, found, user, count, base, maps, held, wrote>>

\* ftruncate: a file that was shorter (it was just created) grows by zeroes.
Truncate == /\ pc = "opened"
            /\ pc' = "sized"
            /\ UNCHANGED <<file, existed, found, user, count, base, fds, maps, held, wrote>>

\* mmap; the fields of the allocator are set, the counter to 0.
Map == /\ pc = "sized"
       /\ maps' = maps + 1
       /\ base' = TRUE
       /\ count' = 0
       /\ pc' = "mapped"
       /\ UNCHANGED <<file, existed, found, user, fds, held, wrote>>

\* Mutant: the mask is cleared although the file existed.
ScanClears == /\ pc = "mapped"
              /\ mask' = {}
              /\ count' = count
              /\ pc' = "up"
              /\ UNCHANGED <<exists, body, tail, existed, found, user, base, fds,
                             maps, held, wrote>>

\* The mask of a new file is cleared, the used pages of an old one counted.
Scan == /\ pc = "mapped"
        /\ IF existed
           THEN /\ count' = count + Cardinality({i \in Index : GetPageBit(i)})
                /\ UNCHANGED mask
           ELSE /\ mask' = {}
                /\ UNCHANGED count
        /\ pc' = "up"
        /\ UNCHANGED <<exists, body, tail, existed, found, user, base, fds, maps,
                       held, wrote>>

----------------------------------------------------------------------------
(* falloc_acquire_page and falloc_release_page *)

FreePages == {i \in Index : ~ GetPageBit(i)}

\* The first free page is marked and counted ...
Acquire(c) ==
    /\ pc = "up"
    /\ held[c] = NoPage
    /\ \E i \in FreePages :
          /\ \A j \in FreePages : i <= j
          /\ mask' = mask \cup {Bit(i)}
          /\ found' = i
    /\ count' = count + 1
    /\ user' = c
    /\ pc' = "acquired"
    /\ UNCHANGED <<exists, body, tail, existed, base, fds, maps, held, wrote>>

\* ... and then its address is returned.  A new owner finds whatever the page
\* held before.
AcquireReturns ==
    /\ pc = "acquired"
    /\ held' = [held EXCEPT ![user] = found]
    /\ wrote' = [wrote EXCEPT ![user] = body[found]]
    /\ found' = NoPage /\ user' = NoPage
    /\ pc' = "up"
    /\ UNCHANGED <<file, existed, count, base, fds, maps>>

\* The page is unmarked and uncounted, the client's pointer set to NULL.
Release(c) ==
    /\ pc = "up"
    /\ held[c] # NoPage
    /\ mask' = mask \ {Bit(held[c])}
    /\ count' = count - 1
    /\ held' = [held EXCEPT ![c] = NoPage]
    /\ UNCHANGED <<exists, body, tail, pc, existed, found, user, base, fds, maps,
                   wrote>>

\* A client fills its page.
Write(c) ==
    /\ pc = "up"
    /\ held[c] # NoPage
    /\ \E d \in Data :
          /\ body' = [body EXCEPT ![held[c]] = d]
          /\ tail' = [tail EXCEPT ![held[c]] = d]
          /\ wrote' = [wrote EXCEPT ![c] = d]
    /\ UNCHANGED <<exists, mask, pc, existed, found, user, count, base, fds, maps,
                   held>>

----------------------------------------------------------------------------
(* falloc_destroy, the end of the process, and the kernel *)

\* base_addr is 512 bytes into the mapping, not at a page boundary: msync and
\* munmap fail and the mapping stays.
UnmapSucceeds == PAGE_MASK_SIZE % PAGE_SIZE = 0

Destroy == /\ pc = "up"
           /\ maps' = IF UnmapSucceeds THEN maps - 1 ELSE maps
           /\ fds' = fds - 1
           /\ base' = FALSE
           /\ count' = 0
           /\ pc' = "down"
           /\ UNCHANGED <<file, existed, found, user, held, wrote>>

\* The process is killed, or exits; the kernel takes back what it had.
Kill == /\ pc' = "down"
        /\ fds' = 0 /\ maps' = 0
        /\ base' = FALSE
        /\ count' = 0
        /\ found' = NoPage /\ user' = NoPage
        /\ UNCHANGED <<file, existed, held, wrote>>

\* The kernel writes the last page of the file back and zeroes what follows
\* the end of the file in it.
Writeback == /\ exists
             /\ tail' = [i \in Index |-> IF PageEnd(i) > FileSize THEN Zero ELSE tail[i]]
             /\ UNCHANGED <<exists, mask, body, pc, existed, found, user, count,
                            base, fds, maps, held, wrote>>

Next == \/ Open \/ InitFails \/ Truncate \/ Map \/ Scan
        \/ \E c \in Client : Acquire(c) \/ Release(c) \/ Write(c)
        \/ AcquireReturns
        \/ Destroy \/ Kill \/ Writeback

Spec == Init /\ [][Next]_vars

----------------------------------------------------------------------------
(* Properties *)

\* Every variable stays in its type (falloc.h:5-11).
TypeOK ==
    /\ exists \in BOOLEAN /\ existed \in BOOLEAN /\ base \in BOOLEAN
    /\ mask \in SUBSET (Nat \X (0 .. WordBits - 1))
    /\ body \in [Index -> Data] /\ tail \in [Index -> Data]
    /\ pc \in {"down", "opened", "sized", "mapped", "up", "acquired"}
    /\ found \in Index \cup {NoPage}
    /\ user \in Client \cup {NoPage}
    /\ count \in 0 .. N
    /\ fds \in Nat /\ maps \in Nat
    /\ held \in [Client -> Index \cup {NoPage}]
    /\ wrote \in [Client -> Data]

\* curr_page_count is the number of pages in use (README.md, and the asserts of
\* tester.c): also after the process was killed between two steps and the
\* counter rebuilt from the file.
CountAccurate ==
    pc \in {"up", "acquired"} => count = Cardinality({i \in Index : GetPageBit(i)})

\* A page belongs to one client, and stays marked as long as it does, through
\* every re-creation of the allocator: nobody is given a page in use.
HeldPagesReserved ==
    /\ TypeOK
    /\ \A c \in Client : held[c] # NoPage => GetPageBit(held[c])
    /\ \A c, d \in Client : held[c] = held[d] /\ held[c] # NoPage => c = d
    /\ pc = "acquired" => \A c \in Client : held[c] # found

\* What a client wrote is still there, except in the bytes the file does not
\* reach.
DataSurvives ==
    \A c \in Client : held[c] # NoPage =>
        /\ body[held[c]] = wrote[c]

\* README.md:16: data on allocated pages outlives the allocator.
WholePageSurvives ==
    [][\A c \in Client : held[c] # NoPage /\ held'[c] = held[c] /\ wrote'[c] = wrote[c] =>
           tail'[held[c]] = tail[held[c]]]_vars

\* The descriptor is closed on every way out (tester.c: "Unclosed fd!").
NoDescriptorLeak == fds = IF pc = "down" THEN 0 ELSE 1
=============================================================================
