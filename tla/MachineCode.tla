----------------------------- MODULE MachineCode ----------------------------
(***************************************************************************)
(* The assembly functions of 03-asm-1 and 04-asm-2, and classify of        *)
(* ieee754-clf, which takes a double apart bit by bit.                     *)
(*                                                                         *)
(* A loop is an action, one iteration a step; its registers carry the      *)
(* source's names.  A byte of memory is known by the address it had at the *)
(* call, and floats are integers: rounding is not modelled.                *)
(***************************************************************************)
EXTENDS Integers, Sequences, SequencesExt, FiniteSetsExt

CONSTANTS COUNT_BITS,     \* bits of my_memcpy's count (32)
          REG_BITS,       \* bits of a register that is added (64)
          MaxVector,      \* bound on the size of dot_product's vectors
          Garbage,        \* what a lane of a register may hold at a call
          MaxArray,       \* bound on the size of longest_inc_subseq's array
          Heights,        \* the numbers in the array
          EXPONENT_BITS,  \* bits of a double's exponent (11)
          MANTISSA_BITS   \* and of its mantissa (52)

ASSUME MachineCodeAssumption ==
    /\ COUNT_BITS \in Nat \ {0, 1} /\ REG_BITS \in Nat \ {0}
    /\ MaxVector \in Nat /\ MaxArray \in Nat /\ Heights \subseteq Int
    /\ Garbage \subseteq Int /\ Garbage # {}
    /\ EXPONENT_BITS \in Nat \ {0} /\ MANTISSA_BITS \in Nat \ {0}

VARIABLE cpu   \* prog and pc; the arguments, registers and memory of prog

Place(prog, pc) == cpu.prog = prog /\ cpu.pc = pc

SignedIn(bits, v) == IF v >= 2 ^ (bits - 1) THEN v - 2 ^ bits ELSE v

----------------------------------------------------------------------------
(* my_memcpy: blocks of 8 bytes while the signed count allows, then bytes *)

DEST == 0
SRC  == 2 ^ COUNT_BITS   \* right behind the longest destination

my_memcpy == \E count \in 0 .. 2 ^ COUNT_BITS - 1 :
    cpu = [prog |-> "memcpy", pc |-> "loop", count |-> count, edx |-> count,
           rdi |-> DEST, rsi |-> SRC, r8 |-> 0, rcx |-> 0, rax |-> 0,
           mem |-> [a \in 0 .. SRC + 2 ^ COUNT_BITS - 1 |-> a]]

Copied(mem, to, from, n) ==
    [a \in DOMAIN mem |-> IF a - to \in 0 .. n - 1 THEN mem[from + a - to] ELSE mem[a]]

CopyBlock ==
    /\ Place("memcpy", "loop")
    /\ SignedIn(COUNT_BITS, cpu.edx) >= 8
    /\ cpu' = [cpu EXCEPT !.mem = Copied(@, cpu.rdi, cpu.rsi, 8), !.rdi = @ + 8,
                          !.rsi = @ + 8, !.edx = @ - 8]

CopyRest ==
    /\ Place("memcpy", "loop")
    /\ SignedIn(COUNT_BITS, cpu.edx) < 8
    /\ cpu' = [cpu EXCEPT !.pc = IF cpu.edx = 0 THEN "end" ELSE "copy_byte",
                          !.rcx = cpu.edx, !.r8 = 0]

CopyByte ==
    /\ Place("memcpy", "copy_byte")
    /\ cpu' = [cpu EXCEPT !.mem = Copied(@, cpu.rdi + cpu.r8, cpu.rsi + cpu.r8, 1),
                          !.r8 = @ + 1, !.rcx = @ - 1,
                          !.pc = IF cpu.rcx = 1 THEN "end" ELSE @]

CopyReturns ==
    /\ Place("memcpy", "end")
    /\ cpu' = [cpu EXCEPT !.pc = "done", !.rax = cpu.rdi]

----------------------------------------------------------------------------
(* dot_product: eight products at a time into the lanes of ymm0, which     *)
(* nothing clears at the call; what is left goes into its first lane       *)

LANES == 8
Sums(f) == LET s[i \in 0 .. Len(f)] == IF i = 0 THEN 0 ELSE s[i - 1] + f[i] IN s
Total(f) == Sums(f)[Len(f)]

\* Each call singles out one coordinate beside the first.
dot_product == \E n \in 1 .. MaxVector, g \in Garbage, kept \in 1 .. MaxVector :
    /\ kept <= n
    /\ cpu = [prog |-> "dot", pc |-> "main_loop", n |-> n, g |-> g, at |-> 0,
              a |-> [i \in 1 .. n |-> i + 1],
              b |-> [i \in 1 .. n |-> IF i = kept THEN 2 ELSE IF i = 1 THEN 1 ELSE 0],
              ymm0 |-> [l \in 1 .. LANES |-> g], result |-> 0]

MulAddEight ==
    /\ Place("dot", "main_loop")
    /\ cpu.n - cpu.at >= 8
    /\ cpu' = [cpu EXCEPT !.at = @ + 8,
                          !.ymm0 = [l \in 1 .. LANES |->
                                      @[l] + cpu.a[cpu.at + l] * cpu.b[cpu.at + l]]]

MulAddOne ==
    /\ Place("dot", "main_loop")
    /\ cpu.n - cpu.at \in 1 .. 7
    /\ cpu' = [cpu EXCEPT !.at = @ + 1, !.ymm0[1] = @ + cpu.a[cpu.at + 1] * cpu.b[cpu.at + 1]]

AddLanes ==
    /\ Place("dot", "main_loop")
    /\ cpu.at = cpu.n
    /\ cpu' = [cpu EXCEPT !.pc = "done", !.result = Total(cpu.ymm0)]

----------------------------------------------------------------------------
(* longest_inc_subseq: help_array[i] is the length of the longest one that *)
(* ends at i *)

longest_inc_subseq == \E size \in 0 .. MaxArray : \E array \in [1 .. size -> Heights] :
    cpu = [prog |-> "lis", pc |-> IF size = 0 THEN "end" ELSE "init_loop",
           array |-> array, help |-> [i \in 1 .. size |-> MaxArray + 1],
           i |-> 1, j |-> 1, length |-> 0]

Size == Len(cpu.array)

\* One step for the whole loop: nothing is read while it runs.
InitLoop ==
    /\ Place("lis", "init_loop")
    /\ cpu' = [cpu EXCEPT !.pc = "inner_loop", !.help = [i \in 1 .. Size |-> 1], !.i = 2]

\* Mutant: equal numbers count as increasing.
InnerLoopEqual ==
    LET i == cpu.i  j == cpu.j IN
    /\ Place("lis", "inner_loop")
    /\ i <= Size /\ j < i
    /\ cpu' = [cpu EXCEPT !.help[i] = IF cpu.array[i] < cpu.array[j] THEN @
                                      ELSE Max({@, cpu.help[j] + 1}),
                          !.j = @ + 1]

InnerLoop ==
    LET i == cpu.i  j == cpu.j IN
    /\ Place("lis", "inner_loop")
    /\ i <= Size /\ j < i
    /\ cpu' = [cpu EXCEPT !.help[i] = IF cpu.array[i] <= cpu.array[j] THEN @
                                      ELSE Max({@, cpu.help[j] + 1}),
                          !.j = @ + 1]

IncreaseI ==
    /\ Place("lis", "inner_loop")
    /\ cpu.i <= Size /\ cpu.j >= cpu.i
    /\ cpu' = [cpu EXCEPT !.i = @ + 1, !.j = 1]

OuterEnds ==
    /\ Place("lis", "inner_loop")
    /\ cpu.i > Size
    /\ cpu' = [cpu EXCEPT !.pc = "find_lis_len_loop", !.i = 1]

FindLength ==
    /\ Place("lis", "find_lis_len_loop")
    /\ cpu.i <= Size
    /\ cpu' = [cpu EXCEPT !.length = Max({@, cpu.help[cpu.i]}), !.i = @ + 1]

LisReturns ==
    /\ \/ Place("lis", "find_lis_len_loop") /\ cpu.i > Size
       \/ Place("lis", "end")
    /\ cpu' = [cpu EXCEPT !.pc = "done"]

----------------------------------------------------------------------------
(* add, add_scanf and classify, a step each *)

Add(x, y) == (x + y) % 2 ^ REG_BITS
Registers == 0 .. 2 ^ REG_BITS - 1

call_add == \E x, y \in Registers :
    cpu = [prog |-> "add", pc |-> "call", x |-> x, y |-> y, read |-> 2, result |-> 0]

add == Place("add", "call") /\ cpu' = [cpu EXCEPT !.pc = "done", !.result = Add(cpu.x, cpu.y)]

\* scanf stores the numbers it reads in two slots of the stack; a slot it does
\* not reach keeps what was there.
scanf == {[read |-> n, slot |-> <<IF n >= 1 THEN cpu.x ELSE left, IF n = 2 THEN cpu.y ELSE left>>]
             : n \in 0 .. 2, left \in {0, 2 ^ REG_BITS - 1}}

add_scanf ==
    /\ Place("add", "call")
    /\ \E s \in scanf :
          cpu' = [cpu EXCEPT !.pc = "done", !.read = s.read,
                             !.result = Add(s.slot[1], s.slot[2])]

call_classify == \E bits \in 0 .. 2 ^ (1 + EXPONENT_BITS + MANTISSA_BITS) - 1 :
    cpu = [prog |-> "classify", pc |-> "call", bits |-> bits, sign |-> FALSE, class |-> "none"]

classify ==
    LET exponent_max == 2 ^ EXPONENT_BITS - 1
        sign     == cpu.bits \div 2 ^ (EXPONENT_BITS + MANTISSA_BITS) = 1
        exponent == (cpu.bits \div 2 ^ MANTISSA_BITS) % 2 ^ EXPONENT_BITS
        mantissa == cpu.bits % 2 ^ MANTISSA_BITS
        class    == CASE exponent = 0 /\ mantissa = 0 -> "Zero"
                      [] exponent = 0 /\ mantissa # 0 -> "Denormal"
                      [] exponent = exponent_max /\ mantissa = 0 -> "Inf"
                      [] exponent = exponent_max /\ mantissa # 0 -> "NaN"
                      [] OTHER -> "Regular"
    IN  /\ Place("classify", "call")
        /\ cpu' = [cpu EXCEPT !.pc = "done", !.class = class,
                              !.sign = class # "NaN" /\ sign]

MachineInit == \/ my_memcpy \/ dot_product \/ longest_inc_subseq \/ call_add \/ call_classify

MachineNext ==
    \/ CopyBlock \/ CopyRest \/ CopyByte \/ CopyReturns
    \/ MulAddEight \/ MulAddOne \/ AddLanes
    \/ InitLoop \/ InnerLoop \/ IncreaseI \/ OuterEnds \/ FindLength \/ LisReturns
    \/ add \/ add_scanf \/ classify

----------------------------------------------------------------------------
(* Properties *)

\* What the memory holds after a memcpy of count bytes, and nothing else.
CopiedExactly == cpu.mem = [a \in DOMAIN cpu.mem |->
                              IF a - DEST \in 0 .. cpu.count - 1 THEN SRC + a - DEST ELSE a]

ScalarProduct == Total([i \in 1 .. cpu.n |-> cpu.a[i] * cpu.b[i]])

IncreasingAt(S) == \A i, j \in S : i < j => cpu.array[i] < cpu.array[j]
LongestIncreasing == Max({Cardinality(S) : S \in {T \in SUBSET DOMAIN cpu.array : IncreasingAt(T)}})

\* The class by the order of the magnitudes: nothing, below the first number
\* with an exponent, up to infinity, and beyond.
ClassByMagnitude ==
    LET magnitude == cpu.bits % 2 ^ (EXPONENT_BITS + MANTISSA_BITS)
        infinity  == (2 ^ EXPONENT_BITS - 1) * 2 ^ MANTISSA_BITS
    IN  CASE magnitude = 0 -> "Zero"
          [] magnitude \in 1 .. 2 ^ MANTISSA_BITS - 1 -> "Denormal"
          [] magnitude \in 2 ^ MANTISSA_BITS .. infinity - 1 -> "Regular"
          [] magnitude = infinity -> "Inf"
          [] OTHER -> "NaN"

\* The functions compute what they are for.  my_memcpy copies every count,
\* also those that are negative as the signed numbers it compares, and touches
\* no byte beyond (what it returns is ReturnsDest); dot_product returns the
\* scalar product if the lanes of ymm0 are zero at the call, as nothing clears
\* them; longest_inc_subseq finds a longest strictly increasing subsequence
\* whatever help_array held; add and an add_scanf that read both numbers are sums
\* of signed numbers while those have room; classify agrees with the order of the
\* magnitudes, and all but NaN keep their sign.
MachineCodeRight == cpu.pc = "done" =>
    CASE cpu.prog = "memcpy" -> CopiedExactly
      [] cpu.prog = "dot" -> cpu.g = 0 => cpu.result = ScalarProduct
      [] cpu.prog = "lis" -> cpu.length = LongestIncreasing
      [] cpu.prog = "add" ->
            LET sum == SignedIn(REG_BITS, cpu.x) + SignedIn(REG_BITS, cpu.y) IN
            cpu.read = 2 /\ sum \in -(2 ^ (REG_BITS - 1)) .. 2 ^ (REG_BITS - 1) - 1
               => SignedIn(REG_BITS, cpu.result) = sum
      [] cpu.prog = "classify" ->
            /\ cpu.class = ClassByMagnitude
            /\ cpu.sign <=> SignedIn(1 + EXPONENT_BITS + MANTISSA_BITS, cpu.bits) < 0
                            /\ cpu.class # "NaN"

\* my_memcpy is to be analogous to memcpy (README.md:10): it returns the
\* destination it was given, as test_return_value (test.c:46) compares.
ReturnsDest == cpu.pc = "done" /\ cpu.prog = "memcpy" => cpu.rax = DEST
=============================================================================
