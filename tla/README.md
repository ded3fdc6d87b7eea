# Verification of the course programs

The repository is a course on operating systems: lectures, and for each topic a
few small C programs (the *tasks*) with their README and tests. There is no one
system; each task is a system of its own. This directory models the tasks whose
behaviour is hard to test: the ones with threads, processes, signals, sockets,
shared files or a long history of calls. Paths below are relative to `src/`.

* [Inventory](#inventory)
* [What is modelled, and how it corresponds to the code](#models)
* [Runs, bounds and fairness](#runs)
* [Proofs](#proofs)
* [What the models showed about the code](#findings)
* [What is not modelled](#not-modelled)
* [Plan](#plan)

## <a name="inventory"></a>Inventory

| task | state | operations | interacts with | what is hard | what makes it correct |
|---|---|---|---|---|---|
| `07-…/lockfree-stack` | `top` (an atomic pointer), nodes on the heap | `lfstack_init`, `_push`, `_pop`, `_destroy` | threads, through `top` and through the nodes, which `free` and `calloc` recycle | any interleaving of single loads and compare-and-swaps; ABA; a node freed while somebody looks at it | linearizable to a stack; no access to freed memory; no node lost; lock freedom |
| `05-…/file-allocator` | a file (mask, pages), the mapping, a counter | `falloc_init`, `_acquire_page`, `_release_page`, `_destroy` | the page cache, the process's next run | a kill between two steps, reopening, failing system calls, a file shorter than its mapping | counter = pages in the mask; a held page is reserved; contents survive reopening |
| `06-…/proc-chain` | descriptors of shell and children, pipes | `run_chain`: `pipe`, `fork`, `dup2`, `exec`, `close`, read loop | the commands, through pipes | who closes which end when; full pipes; commands that end early or do not exist | the output is that of the pipeline; everybody ends |
| `06-…/proc-lca` | two arrays of pids | `find_lca` | `/proc`, which other processes change | processes exit and are reparented between two reads, or are gone between opening and reading | the lowest common ancestor; never a stranger |
| `08-…/userspace-signalfd` | a file, its offset, installed handlers | `signalfd`, the handler, the reader | handler and program share one offset | signals between any two steps, also inside a handler | every signal read once, in the order of delivery |
| `08-…/file-watcher` | list of counters, tracer's place | the ptrace loop, `increment`, `print_counters` | the traced program, through stops and `/proc` | entry and exit stops look alike; signals and kills in between; restarted calls | the counters say what was written |
| `09-…/kv-server` | list of items, list of clients | `accept`, `read`, `get`, `set`, `write` | clients over non-blocking TCP sockets | cut and joined reads, clients that close or reset, full buffers, descriptors used up | an atomic map; nobody starves; clients that are slow, silent or gone in order after their answers never stop the server for the others |
| `01-…/bloom-filter` | bit array | `bloom_init`, `_insert`, `_check`, `_destroy` | – | wrapping arithmetic, partial last word | no false negatives, in bounds |
| `01-…/utf8-file` | two files, a six-byte buffer | `utf8_read`, `utf8_write`, main loop | file system | which bytes belong to a symbol; a file that ends inside one, a full disk, overlong forms | the shortest form of every symbol |
| `07-…/integral` (`wait.h`) | a word, the kernel's queue of sleepers | `atomic_wait`, `atomic_notify_one`, `_all` | threads that change the word before they notify | a change between the load and the sleep; wake-ups for no reason | no wake-up lost; whoever waits for a value that is gone returns |
| `02-…/fs-utils` | directory tree | `rm [-r]`, `mkdir [-p] [-m]` | other processes in the same tree | the tree changes between two calls | nothing else is removed or made; success means all of it was |
| `05-…/minigrep` | directory tree, descriptors | the walk, line search, `pcre_exec` | file system, libpcre | descriptors that are never closed; files that vanish; empty files | every matching line once |
| `02-…/tailf` | a buffer, the file's offset | read, print, sleep | whoever appends to the file | a buffer that is printed as a string and never cleared | what is printed is the file |
| `01-…/ieee754-clf` | – | `classify` | – | every bit pattern has a class | the class agrees with the magnitude |
| `03-asm-1`, `04-asm-2` | registers, memory | `my_memcpy`, `dot_product`, `longest_inc_subseq`, `add`, `add_scanf` | the callers' memory | signed counts, remainders of a block, registers that hold old values | the result is that of the C function they stand for |
| `01-…-bonus/float-*` | big numbers, digit by digit | `LongInt.hpp`, `DynNum.hpp`, `Conversion.hpp`; `floats.c` is a stub | – | carries, signs, shifts by whole digits, normal form; operators that overwrite an operand they still read; texts | arithmetic is that of the integers, modulo the width or exactly; a text is read and written back as the same number |
| others | | `same-file`, `broken-echo`, `persistent-storage` | | | see [Not modelled](#not-modelled) |

Nothing is shared between tasks. Within a task the hard part is nearly always
an actor the program does not control (another thread, the kernel, a child, a
client), so every module has actions for the program's steps and actions for
that actor; what the actor may do is stated at the top of the module.

`PROJECT.json` lists under "hazards", at the line where each one bites, what
could go wrong and which property would show it.

## <a name="models"></a>What is modelled, and how it corresponds to the code

Each program has a module of its own, whose variables and actions mention no
other. The programs are independent, so those that can share bounds share a run: a variable
`unit` says which of them a behaviour is, and the others stand still. `MCProcesses`
does that for `ProcChain` and `FileWatcher`, `MCThreads` for `SignalFd`,
`FutexWait` and the liveness of `LockFreeStack`, `MCPrograms` for all that run alone. `MCLockFreeStack`,
`MCFileAllocator` and `MCKvServer` are about one program each. The theorems are in
modules of their own, which extend the modules of the programs (see [Proofs](#proofs)); `NatFacts` has
the lemmas they share, about numbers, division and powers, places in a sequence and recursion.

### LockFreeStack (`07-synchronization-basics/tasks/lockfree-stack/lockfree-stack.h`)

One action for each access to shared memory: in a push `calloc`, the store of
the value, the load of `top`, the store of `next`, the compare-and-swap; in a
pop the load, the read of `top->next` (an argument of the compare-and-swap,
evaluated before it), the compare-and-swap, the read of the value, `free`. What
lies between two accesses is local to the thread and belongs to one of them. An
address that was freed may be returned by the next `calloc`, so ABA can
happen: there is no tag beside the pointer. What makes the stack right is the mode in
which it is used, any number of pushes but one pop at a time (README.md:4 of
the task); `PopCall` has that as its guard, and nothing else restricts callers.

`chain` is a history variable, the addresses in the stack as the successful
compare-and-swaps built it. The program's own state never depends on it, except
that the owner destroys a stack only when it is empty.

`AbstractStack` is the promise: a sequence, and for each thread a call that
takes effect at one instant between invocation and return. The refinement
mapping reads the sequence off `chain` and the nodes' values; a push takes
effect at its successful compare-and-swap, a pop at its own or, for an empty
stack, when it reads `NULL`. A pop of an empty stack yields 0, so `Zero` is both
the answer and a value.

### FileAllocator (`05-memory/tasks/file-allocator/falloc.c`)

The file's mask and pages survive the process; the counter, the mapping and the
descriptor do not. `falloc_init` is one action per system call (`Open`,
`Truncate`, `Map`, `Scan`) with the failure of each, acquire is two steps (the
bit and the counter, then the return), and the process may be killed between
any two. Each page is split into a body and a tail: the file is created
`PAGE_MASK_SIZE - PAGE_MASK_SIZE_IN_BYTES` bytes shorter than the mapping
needs, so the tail of the last page lies beyond the end of the file, and the
kernel writes zeroes over it when it likes (`Writeback`).

### ProcChain (`06-processes/tasks/proc-chain/chainy.c`)

The shell first takes the command line apart (`NextCommand`, `NextArgument`, as
`create_chain` does with two nested `strtok_r`): separators that touch, stand
first or last, or are alone yield no command. The code writes into two arrays without looking whether they have
room; the model has texts that fit (`TextsFit`: fewer words in a command than
`MAX_ARGS_COUNT`, one place being for the end mark; `Fits` the same for the commands).
Then each process has the
descriptors that `run_chain` names; a pipe reaches end of
file when no process holds its write end and kills its writer when none holds
the read end. The shell's steps, the steps of a child between `fork` and `exec`
and four kinds of command (one that writes, one that copies, one that stops
reading early, one that does not exist) interleave freely; `pipe` and `fork` may
fail. What the text asks for is defined apart from how the code cuts it:
`AskedBy` goes through it element by element, and `Output` is what the commands
make of each other's output, without processes or pipes.

### KvServer (`09-networks-1/tasks/kv-server/main.c`)

The single loop: accept one connection, then read each client in turn, answer,
go on. A connection has the stream the client sent, how much was read, and what
the server wrote; reads return any non-empty part of what has arrived. Clients
connect, send, read, close or reset at any time; `accept` fails when
the descriptors are used up. A client that closed in order reads as an end of
file for ever; but when the server answers one, its host sends a reset, and what the
server does next on that connection fails. `reset` is the connection that the
client cut, `broken` the one that such an answer broke. A word is an element, so a text is a sequence of
words, blanks and newlines, and the buffer size counts those elements; a read
ends anywhere between two of them. `strtok_r` cuts a text at blanks only, as the code
does: words that a read has put side by side are one token, and a newline
belongs to the token before it. `RequestIn` is the command that an untouched text asks for.
A behaviour begins when `main` has its listening socket.
`AbstractKv` is an atomic map; `Patient = TRUE` selects clients that wait for
their command to be taken before they send another (what `test.py` does),
`FALSE` those that do not.

### SignalFd (`08-interprocess-communication/tasks/userspace-signalfd/`)

A signal may arrive between any two steps of the program, and a handler may
itself be interrupted as far as its mask allows: the handlers of a process form a stack
of frames. Handler and program read and write through one descriptor, so they
move one offset: the handler seeks to the end, writes, and puts the offset
back. `SignalLog` is the promise: the numbers read are the signals delivered,
in order, none lost and none twice.

### FileWatcher (`08-interprocess-communication/tasks/file-watcher/main.c`)

Tracer and program run side by side; the program stops at the entry and exit of
each call and at each signal, and `waitpid` reports the stop without saying
which of the first two it is. Writes may be short, interrupted and restarted;
SIGKILL may come at any moment. The tracer's steps are one per ptrace or wait
call. `file_path` is the buffer that `readlink` fills without an end mark.

### FutexWait (`07-synchronization-basics/tasks/integral/wait.h`)

A waiter loads the word, and if it still has the old value asks the kernel to
sleep; the kernel compares the word again, in the same step in which the thread
falls asleep. A setter stores another value and then owes a notification, of one
thread or of all. Threads also wake up for no reason. `notify_one` is
used only where one thread waits at a time. The setters are not code of the
repository (the task that would use `wait.h` is a stub); they do what its interface is for.

### FsUtils (`02-files/tasks/fs-utils/rm.c`, `mkdir.c`)

One action per system call (`lstat`, `remove`, `rmdir`, `opendir`, `readdir`, `mkdir`), with
the stack of directories that the recursion has open. The tree is a function from
paths to what lies there, and between any two calls another process may create
or remove an entry. A path is the sequence of its names; an argument of `mkdir` has its slashes
too, as many as it likes, and a name is one element, so two names have a slash between them. `readdir` returns entries in any order, and may return one
that is gone. The mode of `-m` is a kind of directory of its own, because
`mkdir a/` gives `a` the mode of its parents.

### Minigrep (`05-memory/tasks/minigrep/minigrep.c`)

The walk, the opening, measuring and mapping of a file, and its lines. A text
has characters that the pattern matches, others, and ends of line; what `pcre_exec` returns depends on whether
a line matches and whether the pattern has groups: 0 when
`ovector` has no room for them. The number of a line is how many lines begin no later. The process gets a limited number of descriptors, and a file
may be removed while the walk is under way.

### Tailf (`02-files/tasks/tailf/tailf.c`)

A file that grows, a buffer with anything in it at the start, reads of what
there is. The end mark is stored behind the last byte read and the buffer printed
as a string; when a read fills the buffer the mark goes to the byte behind
it, which belongs to somebody else.

### MachineCode (`03-asm-1`, `04-asm-2`, `01-…/ieee754-clf`)

The assembly functions, an iteration of a loop in a step, with the registers the
source uses; memory is a function from addresses to the byte that was there at
the call. Counts have `COUNT_BITS` bits, so that those that are negative as
signed numbers are reached. `dot_product` adds eight lanes at a time into `ymm0`,
which nothing clears: `Garbage` is what a lane may hold. `MachineCodeRight` asks for the scalar
product when the lanes were 0, and for the bytes of `memcpy`; what the code
does otherwise is under [findings](#findings). `classify` takes every
pattern of a small double apart.

### Lca, BloomFilter, Utf8File

`Lca` walks up `/proc` while other processes exit, move their children to process 1
and are reaped. A step up is two actions, the `fopen` of a status file and its
reading: a process reaped in between leaves a file that cannot be read, and the
parent is 0. `BloomFilter` has a set for the bits that are 1 and computes `calc_hash` as the code does,
modulo the width of an unsigned integer, with words of `WORD` bits. `Utf8File`
reads and writes symbol by symbol with the tests of the code: the loop that measures a symbol
(`Taken`) does not look at the highest bit, so a single byte from 64 to 127
takes up to five others. There is a file that
may end inside a symbol and a disk that may be full.

### LongInt, LongIntSteps (`LongInt.hpp` of `01-…-bonus`)

A number is a tuple of digits, the lowest first. `LongInt` says what an operator
computes: one operation on operands of every value, digit by digit as the code of `float-add`
does: the carry out of each digit, the two halves that a shift puts together, the
rows of a product. A shift of a digit by all of its bits is undefined in C++
for digits as wide as `int` or wider; `kept` says which of two outcomes it has, the
digit or 0, and is always 0 for narrow digits, which are promoted first. The
copy in `float-next-prev` assigns integers differently; `kind.copy` says which
of the two files is meant.

`LongIntSteps` has the same operators, of the copy in `float-next-prev`, as the loops they
are. The objects of a call have names, and the right operand may be the left
one: `x += x`, `x *= x`. A step reads a digit and writes one, so
an operand that is overwritten while it is still read shows. It also has the bitwise
operators, `++`, `--`, those that work on a copy, the comparisons,
`countl_zero` and the conversion to `unsigned long long`. The bitwise operators, `++`, `--`,
`is_even` and `is_zero` of `float-add` are in `LongInt`.

### DynNum, DynNumText, DynNumSteps (`DynNum.hpp`, `Conversion.hpp` of `01-…-bonus`)

A number is its sign, its digits, the highest first, and the place of its
point. `DynNum` says what arithmetic computes: a behaviour makes a number of a text and then adds, subtracts, multiplies
or raises it to a power; after each, the result is written and read
back. There a text is made of the lexemes that the reader looks for (sign, digits before and
after the point, exponent). The product is computed by rows
or, when the lengths multiply to more than a limit (500 in the code), by
Karatsuba's method; the limit is a parameter, and 0 sends short numbers down the long way.

`DynNumText` reads and writes characters: `parse_number` lexeme by lexeme and
digit by digit, what follows a number, digits that are missing, letters
as digits in radix 16 (where `e` is one, so that there is no exponent), and
`Conversion::string` with its precision; then it reads what was written.

`DynNumSteps` has `+=`, `-=`, `*=`, the comparisons, `binpow` and `normalize` as loops: the swap,
the zeros put before and behind the left number, the digits, the carry into digits
the other number does not have; both operands may be one object. `karatsuba_mul`
is taken apart into its halves, their products, which it sums and
subtracts in place, and the result put together.

`PROJECT.json` "map" gives the source lines of each definition.

## <a name="runs"></a>Runs, bounds and fairness

| run | question | bounds, and why they are enough | result |
|---|---|---|---|
| `lfstack_safety` | is the stack linearizable and its memory safe? | 3 threads, 3 addresses, 2 values. ABA needs a pusher that sleeps and others that pop, free, reallocate and push the same address: two other threads suffice | holds |
| `kv_patient` | are commands atomic, and is everybody answered? | 2 clients, 2 keys, 2 values, 2 commands each | holds |
| `kv_stream` | what holds for clients that do not wait? | 2 clients, 2 commands in any pieces, 2 descriptors (so `accept` runs out), answers of 3 words | holds |
| `threads` | is every signal read once and in order? is a wake-up ever lost? do the loops of the stack get anywhere? | 3 signals, 4 kills, room for 3 numbers: the disk can fill; 2 waiters and 2 setters (one is notified while another sleeps; a change while a notification is due), a word that comes back to a value and one that does not; for the stack 3 threads, 2 addresses, 1 value (what is stored does not matter to liveness) | holds |
| `processes` | does every chain end, with the right output? do the counters say what was written? | command lines of up to 3 commands of 4 kinds, tight and loose, of one or two words (`MAX_ARGS_COUNT` is 3, so that two words and the end mark fill it), 2 items through pipes that hold 1, so that writers block; 2 files, 3 calls, writes of up to 2 bytes, 2 signals: a signal before and inside a call, or a kill | holds |
| `programs` | the programs that run alone: see the next table | | holds |
| `falloc_tail` | does the whole of a page survive? | 1 client, 3 pages | violated |
| `kv_nc` | does the session of the README work? | 1 client, commands that end in a newline | violated |
| `longint_shift` | does `LongInt` shift to the right as integers do? | those of `programs` | violated |
| `memcpy_returns` | does `my_memcpy` return its destination? | those of `programs` | violated |
| `minigrep_groups` | are lines found whatever the pattern? | those of `programs` | violated |
| `utf8_letters` | are single bytes copied? | those of `programs` | violated |

What `programs` covers:

| module | properties | bounds |
|---|---|---|
| `Lca` | `Lowest` | all trees of 5 processes, 3 exits or reapings during the search: a walk that is cut, and a parent that is another's next |
| `BloomFilter` | `NoFalseNegatives` | filters of 1 to 9 bits in words of 4, up to 3 hashes, characters of both signs |
| `Utf8File` | `Transcoded` | 2 symbols at the boundaries of each length, in any form; `Transcoded` is about the texts without single bytes from 64 to 127 (see `utf8_letters`); files that end in a beginning or an invalid byte; a disk with room for 3 bytes, and enough |
| `FileAllocator` | `CountAccurate`, `HeldPagesReserved`, `DataSurvives`, `NoDescriptorLeak` | 3 clients, 3 pages, 2 bits to a word (so that the second word is reached), 2 mappings, kills and failures anywhere |
| `FsUtils` | `RmRemoves`, `MkdirMakes` | every tree over 5 paths of depth up to 3, calls with up to two arguments that overlap, repeat or lack, one entry changed by somebody else at any moment; of a name ending in a slash the mode is left open |
| `Minigrep` | `GrepFinds` | every directory over 3 paths with files that are empty, match, or match in a second line; 2 or 4 descriptors, so that the search runs out; one file removed at any moment |
| `Tailf` | `TailCopies` | a buffer of 2 bytes, files that grow to 4 in any pieces, with NUL; what is printed of a file with a NUL, and that a full buffer may end the program, the property leaves open |
| `LongInt` | `LongIntWorks` | all pairs of 3 digits of 2 bits (a lowest, a middle and a highest digit, every carry and sign), all shifts, integers one digit shorter |
| `LongIntSteps` | `InPlace` | 3 digits of 0, 1 or the largest (the middle one 0 or the largest, which stops a carry or passes it on), all pairs, and each with itself |
| `DynNum` | `DynNumExact` | numbers of up to 3 digits of radix 3 with the point before, inside and after them, both ways of multiplying, powers up to 3 |
| `DynNumSteps` | `SumInPlace` | numbers of up to 3 digits that overlap, touch and lie apart, all pairs, and each with itself |
| `DynNumText` | `TextRight` | texts of radix 3 and 16 with each lexeme present and absent, blanks before and characters behind; exponents of two digits; written whole and cut to two digits |
| `MachineCode` | `MachineCodeRight` | counts of 5 bits (blocks of 8, remainders, negative as signed); vectors up to 17 (two blocks and one); arrays up to 4 of 4 heights; registers of 4 bits; doubles of 3 + 3 bits |

Every property of a passing run has a mutant beside the definition it changes: the same definition
with a mistake one could make in that code (a guard dropped, two steps
swapped, an end not closed). TLC finds the property violated with the mutant.

Deadlock is checked except where the program stops for good and the model has no step
for it: the key-value server that exited, the reader of signals when no more
signals may be sent, the programs that run alone when they are done.

Fairness:

* `threads`, the stack: weak fairness of each thread's next step inside an operation (threads are
  preempted but not abandoned by the scheduler). A thread need not start an
  operation. `SomeoneCompletes` needs no more, and `PopReturns`
  holds because a pop only loses its compare-and-swap to a push, and each push
  needs a free node: with finitely many nodes and no other pop they run out.
* `processes`: weak fairness of the shell, of each child until it runs its command, and of the commands:
  a command that can read, write or end does. The four kinds are finite
  programs. For the watcher, of the tracer and of the program, two runnable processes.
* `kv_patient`: weak fairness of the server alone; it never blocks. Clients may
  stop at any point.
* `threads`, signals and futex: weak fairness of the program, of running handlers and of the delivery of a
  pending signal; of a waiter that is awake and of a notification that is due. Nobody has to send
  a signal, to wait or to change the word. `WaitersReturn` is about a word that left the
  value for good: one that keeps coming back may be missed by the loop for ever.

## <a name="proofs"></a>Proofs

A run checks a small instance; a theorem holds for every value of the constants that the
assumptions of the modules allow. Eight modules hold them: `LockFreeStackProofs`,
`KvServerProofs`, `SignalProofs`, `ProcessProofs` (the tracer and the shell), `ProgramProofs` (the allocator and
the programs that run alone), `MachineProofs` (the machine code and `utf8-file`), `NumberProofs` (`LongInt` and its loops), and `NatFacts` with
lemmas for all. No theorem says that there are finitely many
threads, clients, processes or paths, unless its module says so.

They are made alike. None of the properties is inductive, so each proof begins with an invariant that
is: the property, the types, and what the program knows at each place of its code. The initial states have
it; one lemma for each action (or for a few that do much the same) shows that the action keeps it,
and temporal logic does the rest. The conjuncts named below are those without which the
property would not be inductive.

### The stack

`LockFreeStackProofs` proves, for every number of threads, addresses and
values, about `LockFreeStack!Spec`:

| theorem | says |
|---|---|
| `Invariance` | `Spec => []IInv`: the inductive invariant below |
| `TypeCorrect` | `[]TypeOK` |
| `ListIsIntact` | the published nodes form a list that ends, without a cycle |
| `MemorySafety` | a node is not used after it was freed |
| `NoLeak` | each allocated node is in the list or belongs to one thread |
| `NoABA` | what a thread remembers of the stack is still true when it acts on it |
| `NodesAreFrozen` | no step changes a node that is in the list (an action property) |
| `ValuesAreStored` | a node in the list holds the value its push was called with |
| `Linearizability` | `Spec => Stack!ASpec`, the refinement of the abstract stack |

*Assumption*: `StackAssumption` (zero is a value, `NULL` is not an address, the
stack itself is not at `NULL`).

*Argument.* `IInv` is the
conjunction of the type invariant, the life cycle (nobody is inside an operation
of a stack that is not initialised), `OnePopper`, `ListIntact`,
`NoUseAfterFree`, `OneOwner` and `FreshViews`. Each needs the others:

* A push keeps the list intact because the node it publishes points to the
  `old_top` that its compare-and-swap expects (`FreshViews`) and is in nobody
  else's hands and not in the list (`OneOwner`). It does not matter whether `top` was
  that address all the time: if the address left the stack and came back, the
  link to it is right again. For pushes ABA is harmless.
* A pop is different: it replaces `top` by a successor it read earlier. That
  is right only if the node is still the one it read: a node leaves the stack
  only through a pop, there is one popper (`OnePopper`), so the node is still in
  the list, where nobody writes to it (`FreshViews`, `NodesAreFrozen`).
* Nobody touches freed memory because a node is freed only by its owner
  (`OneOwner`), and that owner got it from the one pop that took it off the list.

`PushedChain` and `PoppedSeq` say what the two
ways of changing the list do to a sequence. For the refinement, `ValuesAreStored` adds that a node
past line 40 carries the value of its push; then every step maps to one step of `AbstractStack` or
to a stutter.

### The file allocator

| theorem | says |
|---|---|
| `AllocatorInvariant` | `Spec => []Inv` |
| `CounterIsRight` | `CountAccurate`: the counter is the number of pages in the mask whenever a caller can read it |
| `PagesStayReserved` | `HeldPagesReserved`: no page has two owners, none that is owned is given away |
| `DataIsKept` | `DataSurvives`: what lies inside the file is what its owner wrote |
| `DescriptorsAreClosed` | `NoDescriptorLeak` |
| `AllButLastPageOutlive` | the whole of every page but the last outlives the allocator: the README's promise, as far as it is true (`falloc_tail` refutes it for the last) |

*Assumption*: `FileAllocatorAssumption`. *Argument.* `Inv` adds `Local`: a file that does not
exist, or has just been created, has no owners; before the scan the counter is 0; and a page that is being
acquired is marked and its client has none yet. Without that last part `falloc_acquire_page` could
return a page that is not reserved. The scan of the mask is a
sum of cardinalities, and each word of the mask is a set of its own (`FiniteSetTheorems`).

### The key-value server

| theorem | says |
|---|---|
| `KvInvariant` | `Spec => []Inv` |
| `ClientsStayApart` | `ItemsFromOneClient`: what is stored comes from one client's stream, wherever the reads cut it; no key is in the list twice |
| `ServerStopsOnlyFor` | `StopsOnlyFor`: only a client that resets its connection, one that sends a get and closes before the answer is written, and the end of the descriptors stop the server |
| `AnswersGoToAskers` | if `Terminator = <<>>`: `AnswersOnlyAskers`, a client never has more answers than gets read from it |
| `MapIsAtomic` | if `Patience`: `AtomicMap`, the server implements `AbstractKv` |

*Assumptions.* `KvServerAssumption` for all. For `AnswersGoToAskers` a command ends without a newline, as in
`test.py`: with `nc`'s newline a stored value contains one, and the answer to one get is two lines.
For `MapIsAtomic`, `Patience`: clients that wait, no newline, `CLIENT_BUFFER_SIZE` of at least 6 (a `set` has five elements
and the end mark takes one), room for an answer of two, and no value that is `AbstractKv`'s word for the lack of a reply.
Those are the clients of `test.py`. Of two commands that arrive in one read the server takes the first three
tokens and drops the rest, so clients that do not wait see no atomic map; `kv_stream` and the other theorems say what holds for them.

*Argument.* The number of clients and the place in their list are in `Cycle`; that a text has single blanks
inside only is `Separated`, from which `TokenPlace` finds the tokens. That a broken connection is one of a client
who asked is `Askers`: an answer is written only to a client from which a get was taken. For the answers `Owed` counts lines and gets, of
what is in the socket and what is about to be written. For the refinement `Turns` says that whatever is between a client and the server is one command
or one answer, whole, and never both, so that a `set` takes effect at its read and a `get` reads what is stored then;
`Lookup` is the list of items as a function.

### Signals and the futex

| theorem | says |
|---|---|
| `SignalFdInvariant`, `SignalsReadInOrder` | if `Alone`: `ReadInOrder`, the refinement of `SignalLog`: what a process reads are its signals, in order, each once |
| `FutexInvariant`, `NoWakeupLost` | `NoLostWakeup`: a thread asleep on a value the word no longer has is still to be notified |

*Assumptions*: `SignalFdAssumption`, and `Alone`: one process in the directory. It is needed: two that
start together open one file of the fixed name (`signalfd.c:29`) and share it. The run has one process as well. `FutexWaitAssumption`: the word has a value.

*Argument.* `SigInv` says where the offset is while a handler runs: at the end of the file when it
is about to write. The mapping takes for the reader's place the offset that the handler will put back (`NextOf`), not
the one the descriptor has: with that a handler between its `lseek` and its `write` is a stutter and its `write` an arrival.
For the futex: the kernel puts a
thread to sleep only while the word has the old value, so it becomes stale only by a
store, and whoever stores owes a notification. When that is given, `notify_all` leaves nobody asleep,
and `notify_one` wakes the only sleeper: `OneWaits` says
there is one at most.

### The tracer and the shell

| theorem | says |
|---|---|
| `TracerInvariant`, `CallsSeenAtEntry` | `LooksAtEntry`: the tracer never takes the end of a call for its beginning, whatever signals come between |
| `WatcherInvariant`, `CountersRight` | if `NamesCover`: `CountsRight`, a printed counter is what was written to the file, or more where a write was short, failed or restarted |
| `ChainInvariant`, `EndsStayOwned` | if `TextsAreTexts`, and always `Fits`: `EndsOwned`, who has which end of which pipe at each place of `run_chain` |
| `WhatIsAskedIsPrinted` | under the same: `OutputRight`, the shell runs the commands that its argument asks for and prints what the pipeline prints, whole if nothing failed, and a beginning of it otherwise |

*Assumptions.* `FileWatcherAssumption`, `ProcChainAssumption`. `NamesCover`: the names have one length and the stack holds nothing longer
at first, since `readlink` writes no end mark and a shorter name keeps the end of a longer one (`main.c:91`). `TextsAreTexts` says
what an argument is made of. `Fits` is a hypothesis about the behaviour, that there are no more commands than
the table has room for: `create_chain` does not look, and a longer argument writes past the table.

*Argument.* `InStep` says in which states the program can be at each place of the tracer: that entry and exit alternate is
inductive only together with where signals and the kill come in. `Balance` relates what was written, what was counted and
what was counted ahead of its write (`Owed`). For the pipes `ChainInv` lists the six descriptors of the shell and
of each child at each place; that a writer sees the end of its readers follows.

`OutputRight` is far from inductive: it speaks of the text and of what was printed at the end. `FlowInv` adds to `ChainInv`

* `Parses`: where in the text the two nested `strtok_r` are, and that the chain so far is what the part before it asks for;
* `Forks`: which children are born at each place of the loop, and that nothing was written before;
* `Delivers`: there is a history `w`, of what each command has written from its start, such that what
  command *k* has written is what command *k + 1* has taken followed by what is in the pipe. The state holds only what is under way, so `w` is a
  quantified variable of the invariant. A command that ended without a failure has written all it ever would, or nobody reads from it any more:
  that is how one that stops early (`taker`) may break the pipe of those before it and the output is right nevertheless.

### The programs that run alone

| theorem | says |
|---|---|
| `TailfInvariant`, `TailIsCopied` | `TailCopies`: what is printed of a file without NUL is the file, and never more than was read, for every buffer size and every growth |
| `BloomInvariant`, `InsertedIsFound` | if `SizesFit`: `NoFalseNegatives`, for every key, size and number of hashes |
| `LcaInvariant`, `LcaIsLowest` | `Lowest`: unless a process was reaped between `fopen` and the reading of its file, `find_lca` names a process that was above both, and the lowest one if nobody exited meanwhile |
| `RmInvariant`, `RmSafety` | `rm` removes nothing but its arguments and what is below; they are gone after success, whatever others do |
| `RmDoesWhatIsAsked` | `RmRemoves`: and alone in the tree it does, argument by argument, what its reference does |
| `MkdirInvariant`, `MkdirSafety` | the same for what `mkdir` makes |
| `MkdirDoesWhatIsAsked` | `MkdirMakes`: `mkdir -p` never fails because others make the same directories, and alone in the tree `mkdir` does what its reference does, but for the mode of a name that ends in a slash |
| `GrepInvariant`, `GrepFindsAll` | `GrepFinds`: `minigrep` prints every line that matches once and nothing else, misses none when it succeeds, and gives up only for the reasons it names, on every tree and with any number of descriptors |

*Assumptions*: those of the modules. `FsAssumption` and `GrepAssumption` say that what is above a path is a path too. `SizesFit`: `set_size + 63` does not wrap in `bloom_init`; beyond
that the array is too short.

*Argument.* Tailf: `Fresh`, the front of the buffer is the last part of the file that was read. Bloom: the array has a word for every bit
(`BitsAllocated`), and a bit once set stays. Lca: both lists climb (`Climbs`) while nobody has exited; two walks that reach
the same process are the same from there on (`SameRest`), so comparing them from the root finds the lowest. After an exit what is left is
that a walk stays among those that were above (`AreAbove`), as long as no walk was cut short (`torn`): the list of a walk that
ended before the root is compared from its wrong end.

`rm`: `RmBelow` compares the tree with the one in front of the argument: outside it nothing has changed, and on the stack of open
directories every level has removed what `readdir` has returned so far, except the entry at work, which is the level above (`OpenRight`). `mkdir`:
`MkdirAlone` says that, while `mkdir -p` is at a slash, the tree is the one in front of the argument with everything above the slash
added that was missing (`Underway`, `WithParents`). When it fails, it has found a file where a directory should be;
either the file was there at the start and nothing was added (`ParentsBlocked`), or somebody else has touched the place (`MkdirFails`). That the
recursions `Names`, `RmResults` and `MkdirResults` have values is proved once, in `NatFacts!RecursionHasValue`.

`minigrep`: what was searched depends on the order of `readdir`, so the invariant says it from the other side. `ToCome` are the paths at work
or waiting in an open directory, with what is below them; a file that is not to come has had its lines printed (`Searched`), and
no printed line is of a file that is to come (`PrintedRight`), so nothing comes twice. A path leaves `ToCome` only as a file that is searched:
for that what waits is never above what is at work (`NeverAbove`), and a directory holds whatever lies below it (`InDirectories`). An entry
that was read and is missing was removed (`WasThere`), which is why the search gives up. `NthIs` numbers the lines: the rank of a number in a finite set is
a bijection.

### Machine code and UTF-8

| theorem | says |
|---|---|
| `MachineInvariant`, `ProgramsCompute` | `MachineCodeRight`: `my_memcpy` copies exactly `count` bytes, also counts that are negative as signed numbers; `dot_product` returns the scalar product if the lanes it adds to were clear; `longest_inc_subseq` the greatest length of a rising subsequence; `add` the signed sum where it has room; `classify` the class by magnitude |
| `Utf8Invariant`, `TextIsTranscoded` | `Transcoded`: in a text without single bytes from 64 to 127 every symbol of Unicode comes out in its shortest form whatever form it had; on a full disk the output is cut, but what is there is right |

*Assumptions*: `MachineCodeAssumption` (widths are positive, `my_memcpy`'s count has at least two bits; the
contents of vectors and arrays are integers) and `Utf8Assumption` (an `Invalid` byte is one that really starts no
sequence, and a `Cut` is any sequence of bytes). The theorems are for all widths, sizes and contents, not for the few bits of the run.

*Argument for the machine code.* A loop has an invariant of its own.

* `my_memcpy`: `MemcpyCopied`, the first `rdi + r8` bytes are at the destination and all others where they were;
  `MemcpyRegisters`, `edx` is what is left, and a block was copied only if the count was positive as a signed number. That is why a
  count from 2^(w-1) on is copied byte by byte, and right nevertheless.
* `dot_product`: the lanes together hold what they began with and the products in front of `at` (`DotInv`). The sum of the lanes
  is a recursive function; `SumsExist` says it has a value, `SumsAdd` and `SumsFirst` that it is additive.
* `longest_inc_subseq`: `LisHelp`, the help array has for each place before `i` the length of the longest rising subsequence that ends there
  (`Longest`, over all sets of places), and for `i` itself of those that come to it from a place before `j`. `LongestSame` and `LongestMore` say what one
  more place changes: a set of places without the last one is itself a rising subsequence of an earlier place.
* `classify` compares fields; that fields and magnitude agree is a fact about powers of 2 (`Magnitudes`).

*Argument for `utf8-file`.* `DecodesBytes`: `decode_utf8` gives the symbol back from each form of it, six bits
a byte. `EncodeIs`: up to U+10FFFF the forms of `encode_utf8` are the shortest ones (from 2^26 on its five-byte form loses bits, but no symbol of Unicode is there).
The files are concatenations of sequences of different lengths, made by a fold in the model; the proof speaks
of what is left to read before symbol *k* (`Input`) and of what is written in front of it (`Output`), and `FlattenIs` says that the parts make the whole.
`Progress` is the invariant: the input that is left begins at a symbol (`Reading`), the symbols in memory are the next ones of the
text, and the output ends in front of the symbol to be written (`Written`) or the disk is full. `write` may
store a part of a symbol and count it as written; the disk is full then, so the next write stores nothing and ends
the program: without `room` in the invariant a gap in the output could not be excluded. At the end of the file a sequence that is cut
is completed with old bytes of the buffer, which is the one thing `Transcoded` leaves open.

### LongInt

| theorem | says |
|---|---|
| `LongIntInvariant`, `LongIntsWork` | `LongIntWorks`: an integer of any number of digits of any width is an integer of the width they have together; the exceptions are those the property names |
| `StepsInvariant` | what each loop of `LongIntSteps` has done when it is at a place |
| `StepsAreInPlace` | `InPlace`: the loops compute the functions of `LongInt`, of the operands as they were at the call, also when both are one object |

*Assumption*: `LongIntAssumption` (there is a digit, a digit has a bit, and the integer type that is assigned has one), and
`LongIntStepsAssumption` (the operands are numbers; integers to convert to are at least 0 digits wide).

*Argument.* The invariant says only that digits stay digits and that the result is what the operator makes of the operands (`LongInv`); the work is
in what the operators are. `Values(x)[i]` is the number that the first *i* digits make, and each loop has an equation that
holds at every place, which is proved by induction over the places and stated for one place more than the loop has done:

* sums and differences: what is stored so far and the carry behind it are the sum of what was read so far (`PlusValues`, `MinusValues`).
  So the result is the sum but for one carry out of the last digit, a `MODULUS`;
* a shift to the left: what is stored, and what left the highest digit that was read, is the number so far times the power of 2 (`ShiftLeftValues`). A
  product is the sum of shifted products of two digits, row by row, modulo `MODULUS` (`RowSame`, `RowsSame`), of the absolute values: the
  sign is put back by a negation, which is a complement and a carry;
* a shift to the right: the digits of a negative number go on for ever with the largest one (`Extended`), and division that rounds down shifts them
  (`ShiftRightValues`, `ShiftRightSigned`). `OrIsSum` turns the `|` of the code into a sum, since the two parts have no bit in common, which is
  what fails for a wide digit that is shifted by all of its bits;
* an integer that is assigned has its two's complement in the digits that cover it, and its sign above (`AssignSame`);
* bits: `BitOfNumber`, bit *n* of the number is bit *n* % `BITS` of digit *n* / `BITS`; two numbers are ordered by the highest digit in which
  they differ (`OrderIs`).

`Same` (equal but for a multiple of `MODULUS`) carries the equations from numbers without a sign to those with one.

*The loops.* `StepsInv` says, for each loop, what the number that it overwrites is when the loop is at place *i*: `Upto(r, x, i)`, the digits of
the result *r* below *i* and those of the operand *x* from there on, or `Behind(r, x, i)` for the loops that come from the highest digit. `Setting`
says which objects are one. At place *i* both operands still have their digit *i*, also when they are one object, and the
carry is the one `LongInt` has there, so the digit that a step writes is that of *r*. The digits that a shift puts together lie
on the side it has not reached, or at its place, so they are still those of *x*. A product leaves its operands alone until `sum` has all its rows (`SummedUp`).
At the end nothing of *x* is left, and what `Finished` says implies `InPlace` (`FinishedIsPlaced`).

### Left to TLC

* Liveness under fairness, out of the prover's reach: `PopReturns`, `SomeoneCompletes`, `EveryoneEnds`,
  `GetsAnswered`, `EverySignalRead`, `PrintsAtExit`, `WaitersReturn`.
* What the folds over digits and characters of `DynNum` and `Conversion.hpp` compute for every input: `DynNumExact`, `SumInPlace`,
  `TextRight`. They need induction over sequences of different lengths, and products of numbers that are both unknown.

## <a name="findings"></a>What the models showed about the code

With a run that shows it:

* `falloc_tail`: the file is truncated to `N * 4096 + 64` bytes
  (`falloc.c:48`) while pages start at byte 512 of it; the last 448 bytes
  of the last page lie beyond the end of the file and are lost, although the README
  (line 16) says the contents are kept.
* `kv_nc`: `strtok` splits at blanks only (`main.c:100`), so the newline that
  `nc` sends stays in the last word: `set doll barbie⏎`, `get doll⏎` do not answer
  `barbie`, as README.md:20-22 shows they should.

* `longint_shift`: a shift to the right by a whole number of digits shifts the
  next digit by all of its bits (`LongInt.hpp:257`), which is undefined; where the
  processor shifts by none, the next digit is mixed into the result. The
  README (lines 299-301) lets `>>` be used as on other integers. `<<` has the test that is missing here.

* `memcpy_returns`: `my_memcpy` returns `rdi` (`memcpy.s:38`), which the loop of
  blocks has moved: from a count of 8 on the result is not the destination, although
  the README (line 10) calls the function analogous to `memcpy` and a test
  (`simple_tests/test.c:46`) compares the two pointers, for a count of 5.
* `utf8_letters`: `utf8_read` tests `0x80 >> len` for `len` from 1 on (`utf8_file.c:110`) and never `0x80` itself.
  A single byte from 64 to 127, that is every Latin letter, takes up to five of the bytes behind it, which are lost: of `AB` only `A` is
  copied. README.md:9 lets `utf8_read` read the symbols of the file, and `test.py:29-31` expects a text back as it was.
* `minigrep_groups`: `pcre_exec` returns 0 for a match that sets a group, for
  which `ovector` has no room (`minigrep.c:12`, `:48`), and the line is not printed; README.md:5 wants
  every line with a match.

Seen while modelling; the models contain the behaviour, and the properties that
hold are stated so that neither this code nor one without the flaw violates them:

* kv-server: connections are never closed nor taken off the list. After enough
  of them `accept` fails and the server exits; a reset connection makes `read`
  fail and the server exit too. So does a client that sends a get and closes in order before the answer is written:
  the answer provokes a reset, and the next `read` or `write` on that connection fails, although README.md:10 wants several
  connections served side by side. `StopsOnlyFor` names these three. An answer that does not fit the send buffer is cut.
* lockfree-stack: `lfstack_destroy` returns -1 (`lockfree-stack.h:72`) where the
  README (line 32) has it return 0 on success.
* asm-scalar-product: nothing clears `ymm0` before the first addition
  (`dot_product.s:19`), so that the sum of a vector of eight or more begins with what the
  caller left there, not the scalar product of README.md:9.
* tailf: a NUL in the file ends what is printed of a read, and a read that fills the
  buffer stores the end mark behind it; README.md:5 wants any chunk printed without changes.
* fs-utils: `mkdir -m M -p a/` makes `a` with the mode of a parent, though README.md:13 has `-m` as the mode of what is made (`MkdirMakes` allows both modes), and `mkdir -p` of a name
  that a file has succeeds (`EEXIST` is taken for a directory). `rm` stops at its first argument that fails.
* minigrep: descriptors of searched files are never closed, and an empty file cannot be mapped: in both cases the
  search ends in the middle, with a failure, although README.md:5 wants all files searched.
* LongInt: `x >> k` past all digits is 0 for a negative number too. Assigning a
  negative integer to a wider unsigned `LongInt`, or in `float-next-prev` to any
  wider one, leaves the upper digits 0 (`Excepted` names these cases).
* DynNum: `0 - 0` is a zero with a sign, which does not equal 0. A text that ends
  in its point (`5.`) is read as zero. In a radix above 14 `e` is a digit, and no text has an
  exponent.
* userspace-signalfd: the file name is fixed and opened without `O_EXCL`: two
  processes that start together in one directory share the file until it is
  unlinked. On a full disk a signal is lost without notice.
* file-watcher: only a normal exit ends the loop; after the program was killed
  the tracer spins. `file_path` keeps the end of a longer earlier name. What
  is counted is the size asked for, so short and restarted writes are overcounted.
* proc-lca: a process that has ended has no file in `/proc`, and `fclose(NULL)`
  follows. One that is reaped between `fopen` and `fgets` (`lca.c:15`, `:18`) has parent 0, the walk ends there as if it had
  come to the root, and what is returned can be a stranger: the two lists are compared from ends that do not
  correspond, and where nothing agrees a slot is returned that was never written (`lca.c:57-59`).
* utf8-file: from 2^26 on the five-byte form loses bits (Unicode ends well
  below). A file that ends inside a symbol yields one more symbol, made of bytes of the one before.
* proc-chain: nothing bounds the words of a command. With `MAX_ARGS_COUNT` of them the end mark, with more the words
  too, go into the next command of the table (`chainy.c:63-75`), whose own name and count then overwrite them: the first command is run with an argument list that has
  no end of its own. `TextsFit` keeps the model from there.

## <a name="not-modelled"></a>What is not modelled, and why

* Weak memory: every access to `top` is sequentially consistent in the code,
  and the plain accesses to a node are ordered by them, so interleaving is
  faithful for the stack.
* Concurrent pops: the task rules them out, and with them a node could be freed
  under a reader.
* proc-chain: command lines with more words or commands than the arrays have
  room for (`chainy.c:63-75`); `TextsFit` and `Fits` exclude them by name.
* tailf: a read that fails; `bytes_read` is unsigned and the store is undefined.
* minigrep: names longer than `PATH_MAX`, a file that shrinks while it is mapped.
* fs-utils: permissions, long paths, and too many open descriptors.
* float-library: stream operators, storage classes and templates. The
  copies of the files in the five tasks differ in formatting, but for
  `LongInt.hpp` of `float-next-prev`; each part is modelled from one of them.
* `integral.h`, `storage.c`, `floats.c`, `fix.c`: stubs, there is nothing to model.
* `same-file`: one comparison of two results of `stat`.
* Rounding of floats in `dot_product`; printing and formatting elsewhere.
* libpcre, the C library, the kernel: modelled from how the code uses them
  where they matter ("external" in the map), never for themselves.
* Lectures, tests and graders: read for what they promise, not modelled.

## <a name="plan"></a>Plan

Done, in this order: the stack and its proofs, the allocator, the chain with its
command line, the key-value server, signals, the watcher, the small programs, the number library
first by its results and then by its loops and texts, the futex, the file utilities,
minigrep, tailf, and the machine code; then the proofs, of the safety of everything but `DynNum`.

Next, the most valuable first:

1. Proofs: the sums of `DynNum`, digit by digit as those of `LongInt`.
2. The hazards that have no property yet, at the lines `PROJECT.json` gives: two processes in
   one directory (`signalfd.c:29`), a program killed under the watcher
   (`file-watcher/main.c:72`), a longer name before a shorter one (`:91`), an entry of `/proc` that is gone (`lca.c:18`, `:25`),
   a command that fills `argv` (`chainy.c:74`), which needs the layout of the table.
3. Several threads that share one word with `notify_one`, which needs a word
   that says how many may go on.
