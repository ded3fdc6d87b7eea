--------------------------- MODULE MachineProofs ---------------------------
(***************************************************************************)
(* The assembly functions and classify compute what they are for, whatever *)
(* the widths of the registers, counts and fields, the sizes of vectors    *)
(* and arrays and the numbers in them, and utf8-file writes every text in  *)
(* its shortest form.                                                      *)
(*                                                                         *)
(* The loops have an invariant each: the bytes my_memcpy has copied and    *)
(* what its registers say of them, the sum of the lanes of dot_product,    *)
(* what help_array knows of the places before i and j, the place in the    *)
(* text that the files and the symbols in memory of utf8-file belong to.   *)
(***************************************************************************)
EXTENDS MachineCode, Utf8File, NatFacts, TLAPS

----------------------------------------------------------------------------
(* my_memcpy *)

\* The signed value of a register of `bits' bits.
LEMMA SignedValue ==
  ASSUME NEW bits \in Nat \ {0}, NEW v \in 0 .. 2 ^ bits - 1
  PROVE  /\ 2 ^ bits = 2 * 2 ^ (bits - 1) /\ 2 ^ (bits - 1) \in Nat \ {0}
         /\ v < 2 ^ (bits - 1) => SignedIn(bits, v) = v
         /\ v >= 2 ^ (bits - 1) => SignedIn(bits, v) = v - 2 ^ bits
<1>1. bits - 1 \in Nat /\ (bits - 1) + 1 = bits
  OBVIOUS
<1>2. 2 ^ (bits - 1) \in Nat \ {0} /\ 2 ^ ((bits - 1) + 1) = 2 * 2 ^ (bits - 1)
  BY <1>1, PowerStep
<1>3. 2 ^ bits = 2 * 2 ^ (bits - 1)
  BY <1>1, <1>2
<1> DEFINE half == 2 ^ (bits - 1)
           full == 2 ^ bits
<1>4. half \in Nat /\ full \in Nat /\ full = 2 * half
  BY <1>2, <1>3
<1>5. SignedIn(bits, v) = IF v >= half THEN v - full ELSE v
  BY DEF SignedIn
<1> HIDE DEF half, full
<1>6. v \in Int /\ (v < half => ~ (v >= half))
  BY <1>4, <1>3
<1>7. (v < half => SignedIn(bits, v) = v) /\ (v >= half => SignedIn(bits, v) = v - full)
  BY <1>5, <1>6
<1> QED
  BY <1>2, <1>3, <1>7 DEF half, full

----------------------------------------------------------------------------

\* The memory when n bytes are at the destination and all others where they
\* were; what the registers count adds up to the count.
Holding(full, n) == [a \in 0 .. full + full - 1 |-> IF a < n THEN full + a ELSE a]
MemcpyCopied == cpu.mem = Holding(2 ^ COUNT_BITS, cpu.rdi + cpu.r8)
MemcpyRegisters ==
    /\ cpu.rdi <= cpu.count /\ cpu.rsi = SRC + cpu.rdi /\ cpu.edx = cpu.count - cpu.rdi
    /\ cpu.rdi % 8 = 0 /\ (cpu.rdi > 0 => cpu.count < 2 ^ (COUNT_BITS - 1))
    /\ cpu.r8 <= cpu.edx
    /\ cpu.pc = "loop" => cpu.r8 = 0
    /\ cpu.pc # "loop" => SignedIn(COUNT_BITS, cpu.edx) < 8
    /\ cpu.pc = "copy_byte" => cpu.rcx = cpu.edx - cpu.r8 /\ cpu.rcx > 0
    /\ cpu.pc \in {"end", "done"} => cpu.r8 = cpu.edx
    /\ cpu.pc = "done" => cpu.rax = cpu.rdi
MemcpyTypeOK ==
    cpu \in [prog : {"memcpy"}, pc : {"loop", "copy_byte", "end", "done"},
             count : 0 .. 2 ^ COUNT_BITS - 1, edx : 0 .. 2 ^ COUNT_BITS - 1,
             rdi : Nat, rsi : Nat, r8 : Nat, rcx : Nat, rax : Nat,
             mem : [0 .. SRC + 2 ^ COUNT_BITS - 1 -> Nat]]
MemcpyInv == MemcpyTypeOK /\ MemcpyRegisters /\ MemcpyCopied

\* The sizes of my_memcpy's memory.
LEMMA CountFacts ==
  /\ COUNT_BITS \in Nat \ {0} /\ 2 ^ COUNT_BITS \in Nat \ {0} /\ SRC = 2 ^ COUNT_BITS
  /\ 2 ^ (COUNT_BITS - 1) \in Nat \ {0} /\ 2 ^ COUNT_BITS = 2 * 2 ^ (COUNT_BITS - 1)
<1>1. COUNT_BITS \in Nat \ {0}
  BY MachineCodeAssumption
<1>2. 2 ^ COUNT_BITS \in Nat \ {0}
  BY <1>1, PowerStep
<1>3. 0 \in 0 .. 2 ^ COUNT_BITS - 1
  BY <1>2
<1>4. 2 ^ (COUNT_BITS - 1) \in Nat \ {0} /\ 2 ^ COUNT_BITS = 2 * 2 ^ (COUNT_BITS - 1)
  BY <1>1, <1>3, SignedValue
<1> QED
  BY <1>1, <1>2, <1>4 DEF SRC

\* my_memcpy is called with nothing copied and the whole count to go.
LEMMA MemcpyInit == my_memcpy => MemcpyInv
<1> SUFFICES ASSUME my_memcpy PROVE MemcpyInv
  OBVIOUS
<1> DEFINE full == 2 ^ COUNT_BITS
<1>1. full \in Nat \ {0} /\ SRC = full
  BY CountFacts
<1>2. PICK count \in 0 .. full - 1 :
        cpu = [prog |-> "memcpy", pc |-> "loop", count |-> count, edx |-> count,
               rdi |-> DEST, rsi |-> SRC, r8 |-> 0, rcx |-> 0, rax |-> 0,
               mem |-> [a \in 0 .. SRC + full - 1 |-> a]]
  BY DEF my_memcpy
<1> HIDE DEF full
<1>3. MemcpyTypeOK
  <2>1. [a \in 0 .. SRC + full - 1 |-> a] \in [0 .. SRC + full - 1 -> Nat]
    BY <1>1
  <2> QED
    BY <1>1, <1>2, <2>1 DEF MemcpyTypeOK, DEST, full
<1>4. MemcpyRegisters
  <2>1. count \in Nat /\ cpu.rdi = 0 /\ cpu.r8 = 0 /\ cpu.edx = count /\ cpu.count = count
        /\ cpu.rsi = SRC /\ cpu.pc = "loop"
    BY <1>1, <1>2 DEF DEST
  <2> QED
    BY <1>1, <2>1 DEF MemcpyRegisters
<1>5. MemcpyCopied
  <2>1. cpu.rdi + cpu.r8 = 0 /\ cpu.mem = [a \in 0 .. SRC + full - 1 |-> a]
    BY <1>2 DEF DEST
  <2>2. \A a \in 0 .. SRC + full - 1 : ~ (a < 0)
    BY <1>1
  <2> QED
    BY <1>1, <2>1, <2>2 DEF MemcpyCopied, Holding, full
<1> QED
  BY <1>3, <1>4, <1>5 DEF MemcpyInv

\* Bytes that are copied from the source join those already there.
LEMMA CopyMore ==
  ASSUME NEW full \in Nat \ {0}, NEW at \in Nat, NEW n \in Nat, at + n <= full
  PROVE  /\ Copied(Holding(full, at), at, full + at, n) = Holding(full, at + n)
         /\ Holding(full, at + n) \in [0 .. full + full - 1 -> Nat]
<1> DEFINE mem == Holding(full, at)
<1>1. DOMAIN mem = 0 .. full + full - 1
      /\ \A a \in 0 .. full + full - 1 : mem[a] = IF a < at THEN full + a ELSE a
  BY DEF Holding
<1> HIDE DEF mem
<1>2. ASSUME NEW a \in 0 .. full + full - 1
      PROVE  (IF a - at \in 0 .. n - 1 THEN mem[full + at + a - at] ELSE mem[a])
               = IF a < at + n THEN full + a ELSE a
  <2>1. CASE a - at \in 0 .. n - 1
    <3>1. full + at + a - at = full + a /\ full + a \in 0 .. full + full - 1 /\ ~ (full + a < at)
      BY <2>1
    <3> QED
      BY <1>1, <2>1, <3>1
  <2>2. CASE a - at \notin 0 .. n - 1
    BY <1>1, <2>2
  <2> QED
    BY <2>1, <2>2
<1>3. Copied(mem, at, full + at, n) = Holding(full, at + n)
  BY <1>1, <1>2 DEF Copied, Holding
<1> QED
  BY <1>3 DEF mem, Holding

\* A block of 8 bytes fits: the signed count says that at least 8 are left.
LEMMA CopyBlockKeeps == MemcpyInv /\ CopyBlock => MemcpyInv'
<1> SUFFICES ASSUME MemcpyInv, CopyBlock PROVE MemcpyInv'
  OBVIOUS
<1> DEFINE full == 2 ^ COUNT_BITS
           half == 2 ^ (COUNT_BITS - 1)
<1>1. full \in Nat \ {0} /\ SRC = full /\ half \in Nat \ {0} /\ full = 2 * half
      /\ COUNT_BITS \in Nat \ {0}
  BY CountFacts
<1>2. /\ cpu.pc = "loop" /\ SignedIn(COUNT_BITS, cpu.edx) >= 8
      /\ cpu' = [cpu EXCEPT !.mem = Copied(cpu.mem, cpu.rdi, cpu.rsi, 8), !.rdi = cpu.rdi + 8,
                            !.rsi = cpu.rsi + 8, !.edx = cpu.edx - 8]
  BY DEF CopyBlock, Place
<1>3. cpu.edx \in 0 .. full - 1
  BY DEF MemcpyInv, MemcpyTypeOK
<1>4. /\ cpu.edx < half => SignedIn(COUNT_BITS, cpu.edx) = cpu.edx
      /\ cpu.edx >= half => SignedIn(COUNT_BITS, cpu.edx) = cpu.edx - full
  BY <1>1, <1>3, SignedValue
<1> HIDE DEF full, half
<1>5. cpu.edx >= 8 /\ cpu.edx < half
  BY <1>1, <1>2, <1>3, <1>4
<1>6. /\ cpu.count \in 0 .. full - 1 /\ cpu.rdi \in Nat /\ cpu.rsi \in Nat /\ cpu.r8 = 0
      /\ cpu.rdi <= cpu.count /\ cpu.rsi = full + cpu.rdi /\ cpu.edx = cpu.count - cpu.rdi
      /\ cpu.rdi % 8 = 0 /\ (cpu.rdi > 0 => cpu.count < half)
  BY <1>1, <1>2 DEF MemcpyInv, MemcpyTypeOK, MemcpyRegisters, full, half
<1>61. cpu.mem = Holding(full, cpu.rdi)
  <2>1. cpu.rdi + cpu.r8 = cpu.rdi
    BY <1>6
  <2> QED
    BY <2>1 DEF MemcpyInv, MemcpyCopied, full
<1>7. cpu.rdi + 8 <= full
  BY <1>1, <1>5, <1>6
<1> DEFINE m == Copied(cpu.mem, cpu.rdi, cpu.rsi, 8)
<1>9. m = Holding(full, cpu.rdi + 8) /\ m \in [0 .. full + full - 1 -> Nat]
  <2>1. /\ Copied(Holding(full, cpu.rdi), cpu.rdi, full + cpu.rdi, 8)
             = Holding(full, cpu.rdi + 8)
        /\ Holding(full, cpu.rdi + 8) \in [0 .. full + full - 1 -> Nat]
    <3> DEFINE at == cpu.rdi
    <3>1. at \in Nat /\ at + 8 <= full
      BY <1>6, <1>7
    <3> HIDE DEF at
    <3>2. /\ Copied(Holding(full, at), at, full + at, 8) = Holding(full, at + 8)
          /\ Holding(full, at + 8) \in [0 .. full + full - 1 -> Nat]
      BY <1>1, <3>1, CopyMore
    <3> QED
      BY <3>2 DEF at
  <2> QED
    BY <1>6, <1>61, <2>1
<1>11. cpu' = [cpu EXCEPT !.mem = m, !.rdi = cpu.rdi + 8,
                          !.rsi = cpu.rsi + 8, !.edx = cpu.edx - 8]
  BY <1>2
<1> HIDE DEF m
<1>12. cpu \in [prog : {"memcpy"}, pc : {"loop", "copy_byte", "end", "done"},
             count : 0 .. full - 1, edx : 0 .. full - 1,
             rdi : Nat, rsi : Nat, r8 : Nat, rcx : Nat, rax : Nat,
             mem : [0 .. full + full - 1 -> Nat]]
  BY <1>1 DEF MemcpyInv, MemcpyTypeOK, full
<1>13. /\ cpu'.pc = "loop" /\ cpu'.mem = m /\ cpu'.rdi = cpu.rdi + 8 /\ cpu'.rsi = cpu.rsi + 8
       /\ cpu'.edx = cpu.edx - 8 /\ cpu'.r8 = 0 /\ cpu'.count = cpu.count
  BY <1>2, <1>6, <1>11, <1>12
<1>14. MemcpyTypeOK'
  <2>1. cpu.edx - 8 \in 0 .. full - 1 /\ cpu.rdi + 8 \in Nat /\ cpu.rsi + 8 \in Nat
    BY <1>3, <1>5, <1>6, <1>1
  <2>2. cpu' \in [prog : {"memcpy"}, pc : {"loop", "copy_byte", "end", "done"},
             count : 0 .. full - 1, edx : 0 .. full - 1,
             rdi : Nat, rsi : Nat, r8 : Nat, rcx : Nat, rax : Nat,
             mem : [0 .. full + full - 1 -> Nat]]
    BY <2>1, <1>9, <1>11, <1>12
  <2> QED
    BY <1>1, <2>2 DEF MemcpyTypeOK, full
<1>15. MemcpyRegisters'
  <2>1. /\ cpu.rdi + 8 <= cpu.count /\ cpu.rsi + 8 = full + (cpu.rdi + 8)
        /\ cpu.edx - 8 = cpu.count - (cpu.rdi + 8) /\ (cpu.rdi + 8) % 8 = 0 /\ cpu.count < half
        /\ 0 <= cpu.edx - 8
    BY <1>1, <1>5, <1>6
  <2> QED
    BY <1>1, <1>13, <2>1 DEF MemcpyRegisters, half
<1>16. MemcpyCopied'
  <2>1. cpu'.rdi + cpu'.r8 = cpu.rdi + 8
    BY <1>6, <1>13
  <2> QED
    BY <1>9, <1>13, <2>1 DEF MemcpyCopied, full
<1> QED
  BY <1>14, <1>15, <1>16 DEF MemcpyInv

\* The loop ends with the rest of the count in ecx, which may be large.
LEMMA CopyRestKeeps == MemcpyInv /\ CopyRest => MemcpyInv'
<1> SUFFICES ASSUME MemcpyInv, CopyRest PROVE MemcpyInv'
  OBVIOUS
<1> DEFINE p == IF cpu.edx = 0 THEN "end" ELSE "copy_byte"
<1>1. /\ cpu.pc = "loop" /\ SignedIn(COUNT_BITS, cpu.edx) < 8
      /\ cpu' = [cpu EXCEPT !.pc = p, !.rcx = cpu.edx, !.r8 = 0]
  BY DEF CopyRest, Place
<1>2. cpu.edx \in Nat /\ cpu.r8 = 0
  BY <1>1, CountFacts DEF MemcpyInv, MemcpyTypeOK, MemcpyRegisters
<1>3. p \in {"end", "copy_byte"} /\ (p = "end" <=> cpu.edx = 0)
  OBVIOUS
<1> HIDE DEF p
<1>4. MemcpyTypeOK'
  BY <1>1, <1>2, <1>3 DEF MemcpyInv, MemcpyTypeOK
<1>5. /\ cpu'.pc = p /\ cpu'.rcx = cpu.edx /\ cpu'.r8 = 0 /\ cpu'.rdi = cpu.rdi
      /\ cpu'.rsi = cpu.rsi /\ cpu'.count = cpu.count /\ cpu'.edx = cpu.edx /\ cpu'.mem = cpu.mem
  BY <1>1 DEF MemcpyInv, MemcpyTypeOK
<1>6. MemcpyRegisters'
  BY <1>1, <1>2, <1>3, <1>5 DEF MemcpyInv, MemcpyRegisters
<1>7. MemcpyCopied'
  BY <1>2, <1>5 DEF MemcpyInv, MemcpyCopied
<1> QED
  BY <1>4, <1>6, <1>7 DEF MemcpyInv

\* A byte of the rest is copied, and ecx counts down to the last.
LEMMA CopyByteKeeps == MemcpyInv /\ CopyByte => MemcpyInv'
<1> SUFFICES ASSUME MemcpyInv, CopyByte PROVE MemcpyInv'
  OBVIOUS
<1> DEFINE full == 2 ^ COUNT_BITS
           p == IF cpu.rcx = 1 THEN "end" ELSE cpu.pc
           m == Copied(cpu.mem, cpu.rdi + cpu.r8, cpu.rsi + cpu.r8, 1)
<1>1. full \in Nat \ {0} /\ SRC = full
  BY CountFacts
<1>2. /\ cpu.pc = "copy_byte"
      /\ cpu' = [cpu EXCEPT !.mem = m, !.r8 = cpu.r8 + 1, !.rcx = cpu.rcx - 1, !.pc = p]
  BY DEF CopyByte, Place
<1>3. p = IF cpu.rcx = 1 THEN "end" ELSE "copy_byte"
  BY <1>2
<1> HIDE DEF full, p
<1>4. /\ cpu.count \in 0 .. full - 1 /\ cpu.rdi \in Nat /\ cpu.rsi \in Nat /\ cpu.r8 \in Nat
      /\ cpu.edx \in Nat /\ cpu.rcx \in Nat
      /\ cpu.rdi <= cpu.count /\ cpu.rsi = full + cpu.rdi /\ cpu.edx = cpu.count - cpu.rdi
      /\ cpu.rcx = cpu.edx - cpu.r8 /\ cpu.rcx > 0
  BY <1>1, <1>2 DEF MemcpyInv, MemcpyTypeOK, MemcpyRegisters, full
<1>41. cpu.mem = Holding(full, cpu.rdi + cpu.r8)
  BY DEF MemcpyInv, MemcpyCopied, full
<1>5. cpu.rdi + cpu.r8 \in Nat /\ (cpu.rdi + cpu.r8) + 1 <= full
      /\ cpu.rsi + cpu.r8 = full + (cpu.rdi + cpu.r8)
  BY <1>1, <1>4
<1>6. m = Holding(full, (cpu.rdi + cpu.r8) + 1) /\ m \in [0 .. full + full - 1 -> Nat]
  <2> DEFINE at == cpu.rdi + cpu.r8
  <2>1. at \in Nat /\ at + 1 <= full /\ cpu.rsi + cpu.r8 = full + at
    BY <1>5
  <2> HIDE DEF at
  <2>2. /\ Copied(Holding(full, at), at, full + at, 1) = Holding(full, at + 1)
        /\ Holding(full, at + 1) \in [0 .. full + full - 1 -> Nat]
    BY <1>1, <2>1, CopyMore
  <2>3. m = Copied(Holding(full, at), at, full + at, 1)
    BY <1>41, <2>1 DEF at, m
  <2> QED
    BY <2>2, <2>3 DEF at
<1> HIDE DEF m
<1>8. MemcpyTypeOK'
  <2>1. cpu.r8 + 1 \in Nat /\ cpu.rcx - 1 \in Nat
    BY <1>4
  <2> QED
    BY <1>1, <1>2, <1>3, <1>6, <2>1 DEF MemcpyInv, MemcpyTypeOK, full
<1>9. /\ cpu'.pc = p /\ cpu'.rcx = cpu.rcx - 1 /\ cpu'.r8 = cpu.r8 + 1 /\ cpu'.rdi = cpu.rdi
      /\ cpu'.rsi = cpu.rsi /\ cpu'.count = cpu.count /\ cpu'.edx = cpu.edx /\ cpu'.mem = m
  BY <1>2 DEF MemcpyInv, MemcpyTypeOK
<1>10. MemcpyRegisters'
  <2>1. /\ cpu.r8 + 1 <= cpu.edx /\ cpu.rcx - 1 = cpu.edx - (cpu.r8 + 1)
        /\ (cpu.rcx = 1 => cpu.r8 + 1 = cpu.edx) /\ (cpu.rcx # 1 => cpu.rcx - 1 > 0)
    BY <1>4
  <2>2. p \in {"end", "copy_byte"} /\ (p = "end" <=> cpu.rcx = 1)
    BY <1>3
  <2> QED
    BY <1>2, <1>9, <2>1, <2>2 DEF MemcpyInv, MemcpyRegisters
<1>11. MemcpyCopied'
  <2>1. cpu'.rdi + cpu'.r8 = (cpu.rdi + cpu.r8) + 1
    BY <1>4, <1>9
  <2> QED
    BY <1>6, <1>9, <2>1 DEF MemcpyCopied, full
<1> QED
  BY <1>8, <1>10, <1>11 DEF MemcpyInv

\* What is returned is rdi, which the blocks have moved.
LEMMA CopyReturnsKeeps == MemcpyInv /\ CopyReturns => MemcpyInv'
<1> SUFFICES ASSUME MemcpyInv, CopyReturns PROVE MemcpyInv'
  OBVIOUS
<1>1. cpu.pc = "end" /\ cpu' = [cpu EXCEPT !.pc = "done", !.rax = cpu.rdi]
  BY DEF CopyReturns, Place
<1>2. MemcpyTypeOK'
  BY <1>1 DEF MemcpyInv, MemcpyTypeOK
<1>3. /\ cpu'.pc = "done" /\ cpu'.rax = cpu.rdi /\ cpu'.r8 = cpu.r8 /\ cpu'.rdi = cpu.rdi
      /\ cpu'.rsi = cpu.rsi /\ cpu'.count = cpu.count /\ cpu'.edx = cpu.edx /\ cpu'.mem = cpu.mem
  BY <1>1 DEF MemcpyInv, MemcpyTypeOK
<1>4. MemcpyRegisters'
  BY <1>1, <1>3 DEF MemcpyInv, MemcpyRegisters
<1>5. MemcpyCopied'
  BY <1>3 DEF MemcpyInv, MemcpyCopied
<1> QED
  BY <1>2, <1>4, <1>5 DEF MemcpyInv

\* The memory is right when my_memcpy is done.
LEMMA MemcpyRight ==
  ASSUME MemcpyInv, cpu.pc = "done"
  PROVE  CopiedExactly
<1> DEFINE full == 2 ^ COUNT_BITS
<1>1. full \in Nat \ {0} /\ SRC = full
  BY CountFacts
<1>2. cpu.edx \in 0 .. full - 1
  BY DEF MemcpyInv, MemcpyTypeOK
<1> HIDE DEF full
<1>3. /\ cpu.count \in 0 .. full - 1 /\ cpu.rdi \in Nat /\ cpu.r8 \in Nat
      /\ cpu.edx = cpu.count - cpu.rdi /\ cpu.r8 = cpu.edx
  BY DEF MemcpyInv, MemcpyTypeOK, MemcpyRegisters, full
<1>4. cpu.mem = [a \in 0 .. full + full - 1 |->
                    IF a < cpu.rdi + cpu.r8 THEN full + a ELSE a]
  BY <1>1 DEF MemcpyInv, MemcpyCopied, Holding, full
<1>5. cpu.rdi + cpu.r8 = cpu.count
  BY <1>2, <1>3
<1>6. DOMAIN cpu.mem = 0 .. full + full - 1
  BY <1>4
<1>7. ASSUME NEW a \in 0 .. full + full - 1
      PROVE  (IF a < cpu.count THEN full + a ELSE a)
                = IF a - 0 \in 0 .. cpu.count - 1 THEN full + a - 0 ELSE a
  BY <1>1, <1>3
<1> QED
  BY <1>1, <1>4, <1>5, <1>6, <1>7 DEF CopiedExactly, DEST

----------------------------------------------------------------------------
(* add and add_scanf *)

AddNext == add \/ add_scanf

\* A sum is kept if both numbers were read.
AddInv ==
    /\ cpu \in [prog : {"add"}, pc : {"call", "done"}, x : Registers, y : Registers,
                read : 0 .. 2, result : Int]
    /\ cpu.pc = "done" /\ cpu.read = 2 => cpu.result = Add(cpu.x, cpu.y)

\* A sum of registers fits into a register.
LEMMA AddIsNat ==
  ASSUME NEW x \in Int, NEW y \in Int
  PROVE  Add(x, y) \in Registers /\ 2 ^ REG_BITS \in Nat \ {0} /\ REG_BITS \in Nat \ {0}
<1> DEFINE full == 2 ^ REG_BITS
<1>1. REG_BITS \in Nat \ {0}
  BY MachineCodeAssumption
<1>2. full \in Nat \ {0}
  BY <1>1, PowerStep
<1> HIDE DEF full
<1>3. x + y \in Int
  OBVIOUS
<1>4. (x + y) % full \in 0 .. full - 1
  BY <1>2, <1>3, ModIs
<1> QED
  BY <1>1, <1>2, <1>4 DEF Add, Registers, full

\* The call leaves two numbers to be added.
LEMMA AddInvInit == call_add => AddInv
<1> SUFFICES ASSUME call_add PROVE AddInv
  OBVIOUS
<1>1. PICK x \in Registers, y \in Registers :
        cpu = [prog |-> "add", pc |-> "call", x |-> x, y |-> y, read |-> 2, result |-> 0]
  BY DEF call_add
<1> QED
  BY <1>1 DEF AddInv

\* add and add_scanf set the sum of what they were given.
LEMMA AddInvNext == AddInv /\ AddNext => AddInv'
<1> SUFFICES ASSUME AddInv, AddNext PROVE AddInv'
  OBVIOUS
<1>0. 2 ^ REG_BITS \in Nat \ {0} /\ Registers \subseteq Int
  BY AddIsNat DEF Registers
<1>1. cpu.x \in Registers /\ cpu.y \in Registers /\ cpu.x \in Int /\ cpu.y \in Int
      /\ cpu \in [prog : {"add"}, pc : {"call", "done"}, x : Registers, y : Registers,
                  read : 0 .. 2, result : Int]
  BY <1>0 DEF AddInv
<1>2. CASE add
  <2> DEFINE r == Add(cpu.x, cpu.y)
  <2>1. cpu' = [cpu EXCEPT !.pc = "done", !.result = r]
    BY <1>2 DEF add
  <2>2. r \in Int
    BY <1>0, <1>1, AddIsNat
  <2>3. r = Add(cpu.x, cpu.y)
    OBVIOUS
  <2> HIDE DEF r
  <2>4. cpu' \in [prog : {"add"}, pc : {"call", "done"}, x : Registers, y : Registers,
                read : 0 .. 2, result : Int]
        /\ cpu'.result = r /\ cpu'.x = cpu.x /\ cpu'.y = cpu.y
    BY <1>1, <2>1, <2>2
  <2> QED
    BY <2>3, <2>4 DEF AddInv
<1>3. CASE add_scanf
  <2>1. PICK s \in scanf :
           cpu' = [cpu EXCEPT !.pc = "done", !.read = s.read, !.result = Add(s.slot[1], s.slot[2])]
    BY <1>3 DEF add_scanf
  <2>2. PICK n \in 0 .. 2, left \in {0, 2 ^ REG_BITS - 1} :
           s = [read |-> n, slot |-> <<IF n >= 1 THEN cpu.x ELSE left, IF n = 2 THEN cpu.y ELSE left>>]
    BY <2>1 DEF scanf
  <2> DEFINE v == IF n >= 1 THEN cpu.x ELSE left
             w == IF n = 2 THEN cpu.y ELSE left
             r == Add(v, w)
  <2>3. v \in Int /\ w \in Int /\ (n = 2 => v = cpu.x /\ w = cpu.y)
    BY <1>0, <1>1
  <2>4. s.read = n /\ s.slot[1] = v /\ s.slot[2] = w
    BY <2>2
  <2>5. cpu' = [cpu EXCEPT !.pc = "done", !.read = n, !.result = r]
    BY <2>1, <2>4
  <2> HIDE DEF v, w
  <2>6. r \in Int
    BY <1>0, <2>3, AddIsNat
  <2>7. n = 2 => r = Add(cpu.x, cpu.y)
    BY <2>3
  <2> HIDE DEF r
  <2>8. cpu' \in [prog : {"add"}, pc : {"call", "done"}, x : Registers, y : Registers,
                read : 0 .. 2, result : Int]
        /\ cpu'.result = r /\ cpu'.x = cpu.x /\ cpu'.y = cpu.y /\ cpu'.read = n
    BY <1>1, <2>5, <2>6
  <2> QED
    BY <2>7, <2>8 DEF AddInv
<1> QED
  BY <1>2, <1>3 DEF AddNext

\* The sum modulo the register is the signed sum where that has room.
LEMMA AddRight ==
  ASSUME AddInv, cpu.pc = "done"
  PROVE  LET sum == SignedIn(REG_BITS, cpu.x) + SignedIn(REG_BITS, cpu.y) IN
            cpu.read = 2 /\ sum \in -(2 ^ (REG_BITS - 1)) .. 2 ^ (REG_BITS - 1) - 1
               => SignedIn(REG_BITS, cpu.result) = sum
<1> DEFINE half == 2 ^ (REG_BITS - 1)
           sx == SignedIn(REG_BITS, cpu.x)
           sy == SignedIn(REG_BITS, cpu.y)
<1> SUFFICES ASSUME cpu.read = 2, sx + sy \in -half .. half - 1
             PROVE  SignedIn(REG_BITS, cpu.result) = sx + sy
  OBVIOUS
<1>1. REG_BITS \in Nat \ {0} /\ 2 ^ REG_BITS \in Nat \ {0}
  BY AddIsNat
<1>2. 0 \in 0 .. 2 ^ REG_BITS - 1
  BY <1>1
<1>3. 2 ^ REG_BITS = 2 * half /\ half \in Nat \ {0}
  BY <1>1, <1>2, SignedValue
<1>4. /\ cpu.x \in 0 .. 2 * half - 1 /\ cpu.y \in 0 .. 2 * half - 1
      /\ cpu.result = (cpu.x + cpu.y) % (2 * half)
  BY <1>3 DEF AddInv, Registers, Add
<1>5. /\ sx = IF cpu.x >= half THEN cpu.x - 2 * half ELSE cpu.x
      /\ sy = IF cpu.y >= half THEN cpu.y - 2 * half ELSE cpu.y
  BY <1>3 DEF SignedIn
<1>6. SignedIn(REG_BITS, cpu.result)
        = IF cpu.result >= half THEN cpu.result - 2 * half ELSE cpu.result
  BY <1>3 DEF SignedIn
<1> DEFINE x == cpu.x
           y == cpu.y
           r == cpu.result
<1>7. /\ x \in 0 .. 2 * half - 1 /\ y \in 0 .. 2 * half - 1 /\ r = (x + y) % (2 * half)
      /\ sx = (IF x >= half THEN x - 2 * half ELSE x)
      /\ sy = (IF y >= half THEN y - 2 * half ELSE y)
      /\ sx + sy \in -half .. half - 1 /\ half \in Nat \ {0}
  BY <1>3, <1>4, <1>5
<1> HIDE DEF half, sx, sy, x, y, r
<1>8. (IF r >= half THEN r - 2 * half ELSE r) = sx + sy
  <2> DEFINE full == 2 * half
  <2>0. r = (x + y) % full
    BY <1>7
  <2>01. full \in Nat \ {0} /\ full = 2 * half /\ x + y \in 0 .. 2 * full - 2
    BY <1>7
  <2>02. x \in Int /\ y \in Int /\ half \in Nat /\ x >= 0 /\ y >= 0 /\ x < full /\ y < full
    BY <1>7
  <2> HIDE DEF full
  <2>1. CASE x + y < full
    <3>1. r = x + y
      BY <2>0, <2>01, <2>1, ModOnce
    <3> QED
      BY <1>7, <2>01, <2>02, <2>1, <3>1
  <2>2. CASE x + y >= full
    <3> DEFINE z == x + y - full
    <3>1. z \in 0 .. full - 1 /\ x + y = z + full
      BY <2>01, <2>02, <2>2
    <3> HIDE DEF z
    <3>2. r = z
      BY <2>0, <2>01, <3>1, ModOnce
    <3> QED
      BY <1>7, <2>01, <2>02, <2>2, <3>1, <3>2
  <2> QED
    BY <2>1, <2>2, <2>02, <2>01
<1> QED
  BY <1>6, <1>8 DEF r

----------------------------------------------------------------------------
(* classify *)

\* The parts of a number of one bit and two fields.
Mantissas == 2 ^ MANTISSA_BITS
Exponents == 2 ^ EXPONENT_BITS
Exponent(bits) == (bits \div Mantissas) % Exponents
Mantissa(bits) == bits % Mantissas
Class(bits) == CASE Exponent(bits) = 0 /\ Mantissa(bits) = 0 -> "Zero"
                 [] Exponent(bits) = 0 /\ Mantissa(bits) # 0 -> "Denormal"
                 [] Exponent(bits) = Exponents - 1 /\ Mantissa(bits) = 0 -> "Inf"
                 [] Exponent(bits) = Exponents - 1 /\ Mantissa(bits) # 0 -> "NaN"
                 [] OTHER -> "Regular"

\* classify took sign and class from the two fields.
ClassifyInv ==
    /\ cpu \in [prog : {"classify"}, pc : {"call", "done"}, sign : BOOLEAN,
                bits : 0 .. 2 ^ (1 + EXPONENT_BITS + MANTISSA_BITS) - 1,
                class : {"none", "Zero", "Denormal", "Inf", "NaN", "Regular"}]
    /\ cpu.pc = "done" =>
          /\ cpu.class = Class(cpu.bits)
          /\ cpu.sign <=> cpu.class # "NaN"
                          /\ cpu.bits \div 2 ^ (EXPONENT_BITS + MANTISSA_BITS) = 1

\* The sizes of the fields of a double.
LEMMA FieldFacts ==
  /\ Mantissas \in Nat \ {0} /\ Exponents \in Nat /\ Exponents >= 2
  /\ 2 ^ (EXPONENT_BITS + MANTISSA_BITS) = Exponents * Mantissas
  /\ 2 ^ (1 + EXPONENT_BITS + MANTISSA_BITS) = 2 * (Exponents * Mantissas)
  /\ 1 + EXPONENT_BITS + MANTISSA_BITS \in Nat \ {0}
  /\ (1 + EXPONENT_BITS + MANTISSA_BITS) - 1 = EXPONENT_BITS + MANTISSA_BITS
<1>1. EXPONENT_BITS \in Nat \ {0} /\ MANTISSA_BITS \in Nat
  BY MachineCodeAssumption
<1>2. Mantissas \in Nat \ {0}
  BY <1>1, PowerStep DEF Mantissas
<1>3. Exponents \in Nat /\ Exponents >= 2
  <2>1. EXPONENT_BITS - 1 \in Nat /\ (EXPONENT_BITS - 1) + 1 = EXPONENT_BITS
    BY <1>1
  <2>2. 2 ^ (EXPONENT_BITS - 1) \in Nat \ {0}
        /\ 2 ^ ((EXPONENT_BITS - 1) + 1) = 2 * 2 ^ (EXPONENT_BITS - 1)
    BY <2>1, PowerStep
  <2> QED
    BY <2>1, <2>2 DEF Exponents
<1>4. 2 ^ (EXPONENT_BITS + MANTISSA_BITS) = Exponents * Mantissas
  BY <1>1, PowerSum DEF Exponents, Mantissas
<1>5. 2 ^ ((EXPONENT_BITS + MANTISSA_BITS) + 1) = 2 * 2 ^ (EXPONENT_BITS + MANTISSA_BITS)
  <2>1. EXPONENT_BITS + MANTISSA_BITS \in Nat
    BY <1>1
  <2> QED
    BY <2>1, PowerStep
<1>6. (EXPONENT_BITS + MANTISSA_BITS) + 1 = 1 + EXPONENT_BITS + MANTISSA_BITS
      /\ 1 + EXPONENT_BITS + MANTISSA_BITS \in Nat \ {0}
      /\ (1 + EXPONENT_BITS + MANTISSA_BITS) - 1 = EXPONENT_BITS + MANTISSA_BITS
  BY <1>1
<1> QED
  BY <1>2, <1>3, <1>4, <1>5, <1>6

\* classify is called with any bits.
LEMMA ClassifyInvInit == call_classify => ClassifyInv
<1> SUFFICES ASSUME call_classify PROVE ClassifyInv
  OBVIOUS
<1>1. PICK bits \in 0 .. 2 ^ (1 + EXPONENT_BITS + MANTISSA_BITS) - 1 :
        cpu = [prog |-> "classify", pc |-> "call", bits |-> bits, sign |-> FALSE, class |-> "none"]
  BY DEF call_classify
<1> QED
  BY <1>1 DEF ClassifyInv

\* classify looks at exponent and mantissa, and at the sign unless it is a NaN.
LEMMA ClassifyInvNext == ClassifyInv /\ classify => ClassifyInv'
<1> SUFFICES ASSUME ClassifyInv, classify PROVE ClassifyInv'
  OBVIOUS
<1> DEFINE c == Class(cpu.bits)
           s == c # "NaN" /\ cpu.bits \div 2 ^ (EXPONENT_BITS + MANTISSA_BITS) = 1
<1>1. cpu' = [cpu EXCEPT !.pc = "done", !.class = c, !.sign = s]
  BY DEF classify, Class, Exponent, Mantissa, Exponents, Mantissas
<1>2. c \in {"Zero", "Denormal", "Inf", "NaN", "Regular"}
  BY DEF Class
<1>3. s \in BOOLEAN
  OBVIOUS
<1>31. c = Class(cpu.bits) /\ (s <=> c # "NaN" /\ cpu.bits \div 2 ^ (EXPONENT_BITS + MANTISSA_BITS) = 1)
  OBVIOUS
<1> HIDE DEF c, s
<1>4. /\ cpu'.pc = "done" /\ cpu'.class = c /\ cpu'.sign = s /\ cpu'.bits = cpu.bits
      /\ cpu' \in [prog : {"classify"}, pc : {"call", "done"}, sign : BOOLEAN,
                bits : 0 .. 2 ^ (1 + EXPONENT_BITS + MANTISSA_BITS) - 1,
                class : {"none", "Zero", "Denormal", "Inf", "NaN", "Regular"}]
  BY <1>1, <1>2, <1>3 DEF ClassifyInv
<1> QED
  BY <1>31, <1>4 DEF ClassifyInv

\* The order of the magnitudes is that of the exponents, then of the mantissas.
LEMMA Magnitudes ==
  ASSUME NEW M \in Nat \ {0}, NEW E \in Nat, E >= 2, NEW e \in 0 .. E - 1, NEW m \in 0 .. M - 1
  PROVE  LET magnitude == e * M + m
             infinity == (E - 1) * M
         IN  /\ e = 0 /\ m = 0 => magnitude = 0
             /\ e = 0 /\ m # 0 => magnitude \in 1 .. M - 1
             /\ e = E - 1 /\ m = 0 => magnitude = infinity /\ magnitude >= M
             /\ e = E - 1 /\ m # 0 => magnitude > infinity /\ magnitude >= M
             /\ e \in 1 .. E - 2 => magnitude \in M .. infinity - 1
<1> DEFINE magnitude == e * M + m
           infinity == (E - 1) * M
<1>1. CASE e = 0
  BY <1>1
<1>2. CASE e = E - 1
  <2>1. infinity >= M
    <3>1. PICK k \in Nat : E - 1 = 1 + k
      <4>1. E - 2 \in Nat /\ E - 1 = 1 + (E - 2)
        OBVIOUS
      <4> QED
        BY <4>1
    <3>2. (1 + k) * M = M + k * M /\ k * M >= 0
      BY <3>1
    <3> QED
      BY <3>1, <3>2
  <2>2. infinity \in Nat /\ magnitude = infinity + m /\ e # 0 /\ ~ (e \in 1 .. E - 2)
    BY <1>2, <2>1
  <2> QED
    BY <2>1, <2>2
<1>3. CASE e \in 1 .. E - 2
  <2>1. PICK j \in Nat : e = 1 + j
    <3>1. e - 1 \in Nat /\ e = 1 + (e - 1)
      BY <1>3
    <3> QED
      BY <3>1
  <2>2. PICK k \in Nat : E - 1 = e + 1 + k
    <3>1. E - 2 - e \in Nat /\ E - 1 = e + 1 + (E - 2 - e)
      BY <1>3
    <3> QED
      BY <3>1
  <2>3. e * M = M + j * M /\ j * M >= 0 /\ j * M \in Int
    BY <2>1
  <2>4. infinity = e * M + M + k * M /\ k * M >= 0 /\ k * M \in Int
    BY <2>2
  <2>5. magnitude \in M .. infinity - 1
    <3> DEFINE x == e * M
               y == j * M
               z == k * M
    <3>1. x = M + y /\ y >= 0 /\ y \in Int /\ infinity = x + M + z /\ z >= 0 /\ z \in Int
          /\ magnitude = x + m
      BY <2>3, <2>4
    <3> HIDE DEF x, y, z, magnitude, infinity
    <3> QED
      BY <3>1
  <2>6. e # 0 /\ e # E - 1
    BY <1>3
  <2> QED
    BY <2>5, <2>6
<1> QED
  BY <1>1, <1>2, <1>3

\* The class by the fields is the class by the order of the magnitudes.
LEMMA ClassifyRight ==
  ASSUME ClassifyInv, cpu.pc = "done"
  PROVE  /\ cpu.class = ClassByMagnitude
         /\ cpu.sign <=> SignedIn(1 + EXPONENT_BITS + MANTISSA_BITS, cpu.bits) < 0
                         /\ cpu.class # "NaN"
<1> DEFINE M == Mantissas
           E == Exponents
           bits == cpu.bits
           e == Exponent(bits)
           m == Mantissa(bits)
           width == 1 + EXPONENT_BITS + MANTISSA_BITS
<1>1. /\ M \in Nat \ {0} /\ E \in Nat /\ E >= 2
      /\ 2 ^ (EXPONENT_BITS + MANTISSA_BITS) = E * M /\ 2 ^ width = 2 * (E * M)
      /\ width \in Nat \ {0} /\ 2 ^ (width - 1) = E * M
  BY FieldFacts
<1>2. bits \in 0 .. 2 * (E * M) - 1 /\ bits \in Nat
  <2>1. bits \in 0 .. 2 ^ width - 1
    BY DEF ClassifyInv
  <2> QED
    BY <1>1, <2>1
<1>3. bits \div M \in Nat /\ m \in 0 .. M - 1
  BY <1>1, <1>2, DivisionIs DEF Mantissa
<1>4. e \in 0 .. E - 1
  <2> DEFINE q == bits \div M
  <2>1. q \in Nat /\ E \in Nat \ {0}
    BY <1>1, <1>3
  <2> HIDE DEF q
  <2>2. q % E \in 0 .. E - 1
    BY <2>1, ModIs
  <2> QED
    BY <2>2 DEF q, Exponent
<1>5. bits % (E * M) = e * M + m
  <2>1. E \in Nat \ {0}
    BY <1>1
  <2>2. bits % (E * M) = (((bits \div M) % E) * M) + (bits % M)
    BY <1>1, <1>2, <2>1, DivideTwice
  <2> QED
    BY <2>2 DEF Exponent, Mantissa
<1>6. cpu.class = ClassByMagnitude
  <2> DEFINE magnitude == e * M + m
             infinity == (E - 1) * M
  <2>1. ClassByMagnitude =
          CASE magnitude = 0 -> "Zero"
            [] magnitude \in 1 .. M - 1 -> "Denormal"
            [] magnitude \in M .. infinity - 1 -> "Regular"
            [] magnitude = infinity -> "Inf"
            [] OTHER -> "NaN"
    <3>1. bits % 2 ^ (EXPONENT_BITS + MANTISSA_BITS) = magnitude
      BY <1>1, <1>5
    <3> QED
      BY <3>1 DEF ClassByMagnitude, Exponents, Mantissas
  <2>2. /\ e = 0 /\ m = 0 => magnitude = 0
        /\ e = 0 /\ m # 0 => magnitude \in 1 .. M - 1
        /\ e = E - 1 /\ m = 0 => magnitude = infinity /\ magnitude >= M
        /\ e = E - 1 /\ m # 0 => magnitude > infinity /\ magnitude >= M
        /\ e \in 1 .. E - 2 => magnitude \in M .. infinity - 1
    <3> HIDE DEF M, E, e, m
    <3> QED
      BY <1>1, <1>3, <1>4, Magnitudes
  <2>3. magnitude \in Int /\ infinity \in Int /\ infinity >= M
    <3> HIDE DEF M, E, e, m
    <3>1. magnitude \in Int /\ infinity \in Int
      BY <1>1, <1>3, <1>4
    <3>2. E - 1 \in 0 .. E - 1 /\ 0 \in 0 .. M - 1
      BY <1>1
    <3>3. (E - 1) * M + 0 = (E - 1) * M /\ (E - 1) * M + 0 >= M
      BY <1>1, <3>2, Magnitudes
    <3> QED
      BY <3>1, <3>3
  <2>4. cpu.class = CASE e = 0 /\ m = 0 -> "Zero"
                      [] e = 0 /\ m # 0 -> "Denormal"
                      [] e = E - 1 /\ m = 0 -> "Inf"
                      [] e = E - 1 /\ m # 0 -> "NaN"
                      [] OTHER -> "Regular"
    BY DEF ClassifyInv, Class
  <2>5. M \in Nat \ {0} /\ E \in Nat /\ E >= 2 /\ e \in 0 .. E - 1 /\ m \in 0 .. M - 1
    BY <1>1, <1>3, <1>4
  <2> DEFINE big == ClassByMagnitude
             class == cpu.class
  <2> HIDE DEF M, E, e, m, magnitude, infinity, big, class
  <2>6. CASE e = 0 /\ m = 0
    <3>1. class = "Zero" /\ magnitude = 0
      BY <2>2, <2>4, <2>5, <2>6 DEF class
    <3>2. /\ ~ (magnitude \in 1 .. M - 1) /\ ~ (magnitude \in M .. infinity - 1)
          /\ magnitude # infinity
      BY <2>3, <2>5, <3>1
    <3> QED
      BY <2>1, <3>1, <3>2 DEF class
  <2>7. CASE e = 0 /\ m # 0
    <3>1. class = "Denormal" /\ magnitude \in 1 .. M - 1
      BY <2>2, <2>4, <2>5, <2>7 DEF class
    <3>2. /\ magnitude # 0 /\ ~ (magnitude \in M .. infinity - 1)
          /\ magnitude # infinity
      BY <2>3, <2>5, <3>1
    <3> QED
      BY <2>1, <3>1, <3>2 DEF class
  <2>8. CASE e = E - 1 /\ m = 0
    <3>1. class = "Inf" /\ magnitude = infinity /\ magnitude >= M
      BY <2>2, <2>4, <2>5, <2>8 DEF class
    <3>2. magnitude # 0 /\ ~ (magnitude \in 1 .. M - 1) /\ ~ (magnitude \in M .. infinity - 1)
      BY <2>3, <2>5, <3>1
    <3> QED
      BY <2>1, <3>1, <3>2 DEF class
  <2>9. CASE e = E - 1 /\ m # 0
    <3>1. class = "NaN" /\ magnitude > infinity /\ magnitude >= M
      BY <2>2, <2>4, <2>5, <2>9 DEF class
    <3>2. /\ magnitude # 0 /\ ~ (magnitude \in 1 .. M - 1) /\ ~ (magnitude \in M .. infinity - 1)
          /\ magnitude # infinity
      BY <2>3, <2>5, <3>1
    <3> QED
      BY <2>1, <3>1, <3>2 DEF class
  <2>10. CASE e \in 1 .. E - 2
    <3>1. class = "Regular" /\ magnitude \in M .. infinity - 1
      BY <2>2, <2>4, <2>5, <2>10 DEF class
    <3>2. /\ magnitude # 0 /\ ~ (magnitude \in 1 .. M - 1) /\ magnitude # infinity
      BY <2>3, <2>5, <3>1
    <3> QED
      BY <2>1, <3>1, <3>2 DEF class
  <2> QED
    BY <2>5, <2>6, <2>7, <2>8, <2>9, <2>10
<1>7. SignedIn(width, bits) < 0 <=> bits \div (E * M) = 1
  <2> DEFINE f == E * M
  <2>1. f \in Nat \ {0} /\ 2 ^ width = 2 * f /\ 2 ^ (width - 1) = f /\ bits \in 0 .. 2 * f - 1
    <3>1. f \in Nat \ {0}
      <4> HIDE DEF E, M
      <4> QED
        BY <1>1
    <3> QED
      BY <1>1, <1>2, <3>1
  <2>2. SignedIn(width, bits) = IF bits >= f THEN bits - 2 * f ELSE bits
    BY <2>1 DEF SignedIn
  <2> HIDE DEF f, bits, width
  <2>3. CASE bits >= f
    <3>1. bits = 1 * f + (bits - f) /\ bits - f \in 0 .. f - 1 /\ bits \in Nat
      BY <2>1, <2>3
    <3>2. bits \div f = 1
      BY <2>1, <3>1, DivisionUnique
    <3> QED
      BY <2>1, <2>2, <2>3, <3>2 DEF f
  <2>4. CASE ~ (bits >= f)
    <3>1. bits = 0 * f + bits /\ bits \in 0 .. f - 1 /\ bits \in Nat
      BY <2>1, <2>4
    <3>2. bits \div f = 0
      BY <2>1, <3>1, DivisionUnique
    <3> QED
      BY <2>1, <2>2, <2>4, <3>2 DEF f
  <2> QED
    BY <2>3, <2>4
<1>8. cpu.sign <=> cpu.class # "NaN" /\ bits \div (E * M) = 1
  <2>1. cpu.sign <=> cpu.class # "NaN" /\ bits \div 2 ^ (EXPONENT_BITS + MANTISSA_BITS) = 1
    BY DEF ClassifyInv
  <2> QED
    BY <1>1, <2>1
<1> QED
  BY <1>6, <1>7, <1>8

----------------------------------------------------------------------------
(* dot_product *)

\* The recursion has a value.
LEMMA SumsExist ==
  ASSUME NEW n \in Nat, NEW f
  PROVE  (\A i \in 1 .. n : f[i] \in Int)
            => \E h : h = [i \in 0 .. n |-> IF i = 0 THEN 0 ELSE h[i - 1] + f[i]]
<1> DEFINE G == [i \in 1 .. n |-> [v \in Int |-> v + f[i]]]
           base == 0
           S == Int
<1>1. ASSUME \A i \in 1 .. n : f[i] \in Int
      PROVE  \E h : h = [i \in 0 .. n |-> IF i = 0 THEN 0 ELSE h[i - 1] + f[i]]
  <2>1. G \in [1 .. n -> [S -> S]] /\ base \in S /\ n \in Nat
    BY <1>1
  <2>2. \A i \in 1 .. n, v \in S : G[i][v] = v + f[i]
    OBVIOUS
  <2> HIDE DEF G, base, S
  <2>3. PICK h \in [0 .. n -> S] : h[0] = base /\ \A i \in 1 .. n : h[i] = G[i][h[i - 1]]
    BY <2>1, RecursionHasValue, SMTT(60)
  <2>4. \A i \in 0 .. n : h[i] = IF i = 0 THEN 0 ELSE h[i - 1] + f[i]
    <3> TAKE i \in 0 .. n
    <3>1. CASE i = 0
      BY <3>1, <2>3 DEF base
    <3>2. CASE i # 0
      <4>1. i \in 1 .. n /\ i - 1 \in 0 .. n
        BY <3>2
      <4>2. h[i - 1] \in S /\ h[i] = G[i][h[i - 1]]
        BY <4>1, <2>3
      <4> QED
        BY <4>1, <4>2, <3>2, <2>2
    <3> QED
      BY <3>1, <3>2
  <2>5. h = [i \in 0 .. n |-> IF i = 0 THEN 0 ELSE h[i - 1] + f[i]]
    BY <2>3, <2>4
  <2> QED
    BY <2>5
<1> QED
  BY <1>1

\* What the recursion over the numbers of a sequence adds up.
LEMMA SumsAre ==
  ASSUME NEW n \in Nat, NEW f \in [1 .. n -> Int]
  PROVE  /\ Sums(f) \in [0 .. n -> Int] /\ Sums(f)[0] = 0
         /\ \A i \in 1 .. n : Sums(f)[i] = Sums(f)[i - 1] + f[i]
         /\ Total(f) = Sums(f)[n]
<1> DEFINE s == CHOOSE h : h = [i \in 0 .. Len(f) |-> IF i = 0 THEN 0 ELSE h[i - 1] + f[i]]
<1>1. Len(f) = n /\ f \in Seq(Int)
  <2>1. f \in Seq(Int)
    BY SeqDef
  <2>2. DOMAIN f = 1 .. n /\ DOMAIN f = 1 .. Len(f) /\ Len(f) \in Nat
    BY <2>1, LenProperties
  <2> QED
    BY <2>1, <2>2
<1>2. Sums(f) = s
  BY DEF Sums
<1>3. \E h : h = [i \in 0 .. n |-> IF i = 0 THEN 0 ELSE h[i - 1] + f[i]]
  BY SumsExist
<1>4. s = [i \in 0 .. n |-> IF i = 0 THEN 0 ELSE s[i - 1] + f[i]]
  BY <1>1, <1>3
<1> HIDE DEF s
<1>5. s[0] = 0 /\ (\A i \in 1 .. n : s[i] = s[i - 1] + f[i]) /\ DOMAIN s = 0 .. n
  BY <1>4
<1>6. \A i \in 0 .. n : s[i] \in Int
  <2> DEFINE P == {i \in 0 .. n : s[i] \in Int}
  <2>1. 0 \in P
    BY <1>5
  <2>2. ASSUME NEW i \in 0 .. n - 1, i \in P PROVE i + 1 \in P
    <3>1. s[i + 1] = s[i] + f[i + 1] /\ f[i + 1] \in Int /\ s[i] \in Int
      <4>1. i + 1 \in 1 .. n /\ (i + 1) - 1 = i
        OBVIOUS
      <4> QED
        BY <1>5, <2>2, <4>1
    <3> QED
      BY <3>1
  <2> HIDE DEF P
  <2>3. \A i \in 0 .. n : i \in P
    BY <2>1, <2>2, StepByStep
  <2> QED
    BY <2>3 DEF P
<1>7. s \in [0 .. n -> Int]
  BY <1>4, <1>6
<1>8. Total(f) = s[n]
  BY <1>1, <1>2 DEF Total
<1> QED
  BY <1>2, <1>5, <1>7, <1>8

\* Sums of sums, of a part, and of what is always the same.
LEMMA SumsAdd ==
  ASSUME NEW n \in Nat, NEW f \in [1 .. n -> Int], NEW g \in [1 .. n -> Int],
         NEW h \in [1 .. n -> Int], \A i \in 1 .. n : h[i] = f[i] + g[i]
  PROVE  \A i \in 0 .. n : Sums(h)[i] = Sums(f)[i] + Sums(g)[i]
<1> DEFINE F == Sums(f)
           G == Sums(g)
           H == Sums(h)
           P == {i \in 0 .. n : H[i] = F[i] + G[i]}
<1>1. /\ F \in [0 .. n -> Int] /\ F[0] = 0 /\ \A i \in 1 .. n : F[i] = F[i - 1] + f[i]
  BY SumsAre
<1>2. /\ G \in [0 .. n -> Int] /\ G[0] = 0 /\ \A i \in 1 .. n : G[i] = G[i - 1] + g[i]
  BY SumsAre
<1>3. /\ H \in [0 .. n -> Int] /\ H[0] = 0 /\ \A i \in 1 .. n : H[i] = H[i - 1] + h[i]
  BY SumsAre
<1> HIDE DEF F, G, H
<1>4. 0 \in P
  BY <1>1, <1>2, <1>3
<1>5. ASSUME NEW i \in 0 .. n - 1, i \in P PROVE i + 1 \in P
  <2>1. i + 1 \in 1 .. n /\ (i + 1) - 1 = i /\ i \in 0 .. n
    OBVIOUS
  <2>2. /\ F[i + 1] = F[i] + f[i + 1] /\ G[i + 1] = G[i] + g[i + 1] /\ H[i + 1] = H[i] + h[i + 1]
        /\ F[i] \in Int /\ G[i] \in Int /\ f[i + 1] \in Int /\ g[i + 1] \in Int
        /\ h[i + 1] = f[i + 1] + g[i + 1] /\ H[i] = F[i] + G[i]
    BY <1>1, <1>2, <1>3, <1>5, <2>1
  <2>3. H[i + 1] = F[i + 1] + G[i + 1]
    BY <2>2
  <2> QED
    BY <2>1, <2>3
<1> HIDE DEF P
<1>6. \A i \in 0 .. n : i \in P
  BY <1>4, <1>5, StepByStep
<1> QED
  BY <1>6 DEF P, F, G, H

\* ... of a part, ...
LEMMA SumsPart ==
  ASSUME NEW n \in Nat, NEW p \in [1 .. n -> Int], NEW at \in 0 .. n, NEW k \in Nat,
         at + k <= n, NEW q \in [1 .. k -> Int], \A l \in 1 .. k : q[l] = p[at + l]
  PROVE  Sums(p)[at + k] = Sums(p)[at] + Sums(q)[k]
<1> DEFINE S == Sums(p)
           Q == Sums(q)
           P == {l \in 0 .. k : S[at + l] = S[at] + Q[l]}
<1>1. /\ S \in [0 .. n -> Int] /\ \A i \in 1 .. n : S[i] = S[i - 1] + p[i]
  BY SumsAre
<1>2. /\ Q \in [0 .. k -> Int] /\ Q[0] = 0 /\ \A i \in 1 .. k : Q[i] = Q[i - 1] + q[i]
  BY SumsAre
<1> HIDE DEF S, Q
<1>3. 0 \in P
  <2>1. at + 0 = at /\ S[at] \in Int
    BY <1>1
  <2> QED
    BY <1>2, <2>1
<1>4. ASSUME NEW l \in 0 .. k - 1, l \in P PROVE l + 1 \in P
  <2>1. /\ l + 1 \in 1 .. k /\ (l + 1) - 1 = l /\ at + (l + 1) \in 1 .. n
        /\ (at + (l + 1)) - 1 = at + l /\ l \in 0 .. k /\ at + l \in 0 .. n
    OBVIOUS
  <2>2. /\ S[at + (l + 1)] = S[at + l] + p[at + (l + 1)] /\ Q[l + 1] = Q[l] + q[l + 1]
        /\ S[at] \in Int /\ Q[l] \in Int /\ q[l + 1] \in Int /\ q[l + 1] = p[at + (l + 1)]
        /\ S[at + l] = S[at] + Q[l]
    BY <1>1, <1>2, <1>4, <2>1
  <2>3. S[at + (l + 1)] = S[at] + Q[l + 1]
    BY <2>2
  <2> QED
    BY <2>1, <2>3
<1> HIDE DEF P
<1>5. \A l \in 0 .. k : l \in P
  BY <1>3, <1>4, StepByStep
<1>6. k \in P
  BY <1>5
<1> QED
  BY <1>6 DEF P, S, Q

\* ... of what is always the same, ...
LEMMA SumsSame ==
  ASSUME NEW n \in Nat, NEW c \in Int, NEW f \in [1 .. n -> Int], \A i \in 1 .. n : f[i] = c
  PROVE  Sums(f)[n] = n * c
<1> DEFINE F == Sums(f)
           P == {i \in 0 .. n : F[i] = i * c}
<1>1. /\ F[0] = 0 /\ \A i \in 1 .. n : F[i] = F[i - 1] + f[i]
  BY SumsAre
<1> HIDE DEF F
<1>2. 0 \in P
  BY <1>1
<1>3. ASSUME NEW i \in 0 .. n - 1, i \in P PROVE i + 1 \in P
  <2>1. i + 1 \in 1 .. n /\ (i + 1) - 1 = i
    OBVIOUS
  <2>2. F[i + 1] = F[i] + f[i + 1] /\ f[i + 1] = c /\ F[i] = i * c
    BY <1>1, <1>3, <2>1
  <2>3. i * c + c = (i + 1) * c
    OBVIOUS
  <2> QED
    BY <2>1, <2>2, <2>3
<1> HIDE DEF P
<1>4. \A i \in 0 .. n : i \in P
  BY <1>2, <1>3, StepByStep
<1>5. n \in P
  BY <1>4
<1> QED
  BY <1>5 DEF P, F

\* ... and of what is zero but for the first.
LEMMA SumsFirst ==
  ASSUME NEW n \in Nat \ {0}, NEW c \in Int, NEW f \in [1 .. n -> Int],
         f[1] = c, \A i \in 2 .. n : f[i] = 0
  PROVE  Sums(f)[n] = c
<1> DEFINE F == Sums(f)
           P == {i \in 1 .. n : F[i] = c}
<1>1. /\ F[0] = 0 /\ \A i \in 1 .. n : F[i] = F[i - 1] + f[i]
  BY SumsAre
<1> HIDE DEF F
<1>2. 1 \in P
  <2>1. F[1] = F[0] + f[1] /\ 1 - 1 = 0
    BY <1>1
  <2> QED
    BY <1>1, <2>1
<1>3. ASSUME NEW i \in 1 .. n - 1, i \in P PROVE i + 1 \in P
  <2>1. i + 1 \in 2 .. n /\ i + 1 \in 1 .. n /\ (i + 1) - 1 = i
    OBVIOUS
  <2>2. F[i + 1] = F[i] + f[i + 1] /\ f[i + 1] = 0 /\ F[i] = c
    BY <1>1, <1>3, <2>1
  <2> QED
    BY <2>1, <2>2
<1> HIDE DEF P
<1>4. \A i \in 1 .. n : i \in P
  BY <1>2, <1>3, StepByStep
<1>5. n \in P
  BY <1>4
<1> QED
  BY <1>5 DEF P, F

----------------------------------------------------------------------------

\* What the lanes hold is the product so far and what they held at the call.
Products == [i \in 1 .. cpu.n |-> cpu.a[i] * cpu.b[i]]
DotStates == [prog : {"dot"}, pc : {"main_loop", "done"}, n : Nat, g : Int, at : Nat,
              a : Seq(Int), b : Seq(Int), ymm0 : [1 .. LANES -> Int], result : Int]
DotTypeOK == /\ cpu \in DotStates /\ cpu.at <= cpu.n
             /\ cpu.a \in [1 .. cpu.n -> Int] /\ cpu.b \in [1 .. cpu.n -> Int]
DotInv == /\ DotTypeOK
          /\ Total(cpu.ymm0) = Sums(Products)[cpu.at] + LANES * cpu.g
          /\ cpu.pc = "done" => cpu.result = ScalarProduct + LANES * cpu.g

\* At the call the lanes hold what was left in them.
LEMMA DotInvInit == dot_product => DotInv
<1> SUFFICES ASSUME dot_product PROVE DotInv
  OBVIOUS
<1>1. MaxVector \in Nat /\ Garbage \subseteq Int
  BY MachineCodeAssumption
<1>2. PICK n \in 1 .. MaxVector, g \in Garbage, kept \in 1 .. MaxVector :
        cpu = [prog |-> "dot", pc |-> "main_loop", n |-> n, g |-> g, at |-> 0,
              a |-> [i \in 1 .. n |-> i + 1],
              b |-> [i \in 1 .. n |-> IF i = kept THEN 2 ELSE IF i = 1 THEN 1 ELSE 0],
              ymm0 |-> [l \in 1 .. LANES |-> g], result |-> 0]
  BY DEF dot_product
<1> DEFINE a == [i \in 1 .. n |-> i + 1]
           b == [i \in 1 .. n |-> IF i = kept THEN 2 ELSE IF i = 1 THEN 1 ELSE 0]
           y == [l \in 1 .. LANES |-> g]
<1>3. n \in Nat /\ g \in Int /\ 0 \in 0 .. n
  BY <1>1
<1>4. a \in [1 .. n -> Int] /\ b \in [1 .. n -> Int] /\ y \in [1 .. LANES -> Int]
  BY <1>3
<1>5. /\ cpu = [prog |-> "dot", pc |-> "main_loop", n |-> n, g |-> g, at |-> 0,
                a |-> a, b |-> b, ymm0 |-> y, result |-> 0]
  BY <1>2
<1>6. Total(y) = LANES * g
  <2>1. LANES \in Nat /\ \A l \in 1 .. LANES : y[l] = g
    BY DEF LANES
  <2> HIDE DEF y
  <2>2. Total(y) = Sums(y)[LANES]
    BY <1>4, <2>1, SumsAre
  <2>3. Sums(y)[LANES] = LANES * g
    BY <1>3, <1>4, <2>1, SumsSame
  <2> QED
    BY <2>2, <2>3
<1> HIDE DEF a, b, y
<1>7. /\ cpu.prog = "dot" /\ cpu.pc = "main_loop" /\ cpu.n = n /\ cpu.g = g /\ cpu.at = 0
      /\ cpu.a = a /\ cpu.b = b /\ cpu.ymm0 = y /\ cpu.result = 0
  BY <1>5
<1>8. DotTypeOK
  <2>1. a \in Seq(Int) /\ b \in Seq(Int)
    BY <1>3, <1>4, SeqDef
  <2> QED
    BY <1>3, <1>4, <1>5, <1>7, <2>1 DEF DotTypeOK, DotStates
<1>9. Sums(Products)[0] = 0
  <2> DEFINE p == Products
  <2>1. p \in [1 .. n -> Int]
    BY <1>4, <1>7 DEF Products
  <2> HIDE DEF p
  <2>2. Sums(p)[0] = 0
    BY <1>3, <2>1, SumsAre
  <2> QED
    BY <2>2 DEF p
<1>10. LANES * g \in Int
  BY <1>3 DEF LANES
<1> QED
  BY <1>6, <1>7, <1>8, <1>9, <1>10 DEF DotInv

\* The state of dot_product after a step of its loop.
DotAfter(x, pc, at, y, r) ==
    /\ x \in DotStates /\ x.pc = pc /\ x.n = cpu.n /\ x.g = cpu.g /\ x.at = at
    /\ x.a = cpu.a /\ x.b = cpu.b /\ x.ymm0 = y /\ x.result = r

\* The two assignments of dot_product.
LEMMA DotExcept ==
  ASSUME DotTypeOK, NEW at \in Nat, NEW y \in [1 .. LANES -> Int], NEW r \in Int
  PROVE  /\ cpu' = [cpu EXCEPT !.at = at, !.ymm0 = y]
               => DotAfter(cpu', cpu.pc, at, y, cpu.result)
         /\ cpu' = [cpu EXCEPT !.pc = "done", !.result = r]
               => DotAfter(cpu', "done", cpu.at, cpu.ymm0, r)
<1>1. cpu \in DotStates
  BY DEF DotTypeOK
<1>2. ASSUME cpu' = [cpu EXCEPT !.at = at, !.ymm0 = y]
      PROVE  DotAfter(cpu', cpu.pc, at, y, cpu.result)
  BY <1>1, <1>2 DEF DotAfter, DotStates
<1>3. ASSUME cpu' = [cpu EXCEPT !.pc = "done", !.result = r]
      PROVE  DotAfter(cpu', "done", cpu.at, cpu.ymm0, r)
  BY <1>1, <1>3 DEF DotAfter, DotStates
<1> QED
  BY <1>2, <1>3

\* A step keeps the invariant if the lanes add up to what was multiplied.
LEMMA DotStep ==
  ASSUME DotInv, NEW pc, NEW at \in 0 .. cpu.n,
         NEW y \in [1 .. LANES -> Int], NEW r, DotAfter(cpu', pc, at, y, r),
         Total(y) = Sums(Products)[at] + LANES * cpu.g,
         pc = "done" => r = ScalarProduct + LANES * cpu.g
  PROVE  DotInv'
<1>1. /\ cpu' \in DotStates /\ cpu'.pc = pc /\ cpu'.n = cpu.n /\ cpu'.g = cpu.g /\ cpu'.at = at
      /\ cpu'.a = cpu.a /\ cpu'.b = cpu.b /\ cpu'.ymm0 = y /\ cpu'.result = r
  BY DEF DotAfter
<1>2. Products' = Products /\ ScalarProduct' = ScalarProduct
  BY <1>1 DEF Products, ScalarProduct
<1>3. at <= cpu.n
  BY DEF DotInv, DotTypeOK, DotStates
<1>4. DotTypeOK'
  BY <1>1, <1>3 DEF DotInv, DotTypeOK
<1> QED
  BY <1>1, <1>2, <1>4 DEF DotInv

\* The products are those of the two vectors.
LEMMA ProductsAre ==
  ASSUME DotTypeOK
  PROVE  /\ Products \in [1 .. cpu.n -> Int]
         /\ \A i \in 1 .. cpu.n : Products[i] = cpu.a[i] * cpu.b[i]
  BY DEF DotTypeOK, DotStates, Products

\* Eight products go into the lanes, one into each.
LEMMA MulAddEightKeeps == DotInv /\ MulAddEight => DotInv'
<1> SUFFICES ASSUME DotInv, MulAddEight PROVE DotInv'
  OBVIOUS
<1> DEFINE y == cpu.ymm0
           p == Products
           at == cpu.at
           z == [l \in 1 .. LANES |-> cpu.ymm0[l] + cpu.a[cpu.at + l] * cpu.b[cpu.at + l]]
<1>1. /\ cpu.pc = "main_loop" /\ cpu.n - cpu.at >= 8
      /\ cpu' = [cpu EXCEPT !.at = cpu.at + 8, !.ymm0 = z]
  BY DEF MulAddEight, Place
<1>2. /\ cpu.n \in Nat /\ at \in 0 .. cpu.n /\ y \in [1 .. LANES -> Int] /\ cpu.g \in Int
      /\ Total(y) = Sums(p)[at] + LANES * cpu.g
      /\ cpu.result \in Int /\ DotTypeOK
  BY DEF DotInv, DotTypeOK, DotStates
<1>3. p \in [1 .. cpu.n -> Int] /\ \A i \in 1 .. cpu.n : p[i] = cpu.a[i] * cpu.b[i]
  BY ProductsAre DEF DotInv
<1>4. at \in Nat /\ at + 8 <= cpu.n /\ at + 8 \in 0 .. cpu.n
  BY <1>1, <1>2
<1>5. z = [l \in 1 .. LANES |-> y[l] + p[at + l]]
  <2>1. \A l \in 1 .. LANES : at + l \in 1 .. cpu.n
    BY <1>2, <1>4 DEF LANES
  <2> QED
    BY <1>3, <2>1
<1> DEFINE q == [l \in 1 .. LANES |-> p[at + l]]
<1> HIDE DEF y, p, at, z
<1>6. q \in [1 .. LANES -> Int] /\ \A l \in 1 .. LANES : q[l] = p[at + l]
  <2>1. \A l \in 1 .. LANES : at + l \in 1 .. cpu.n
    BY <1>2, <1>4 DEF LANES
  <2> QED
    BY <1>2, <1>3, <2>1
<1> HIDE DEF q
<1>8. LANES \in Nat /\ z \in [1 .. LANES -> Int] /\ \A l \in 1 .. LANES : z[l] = y[l] + q[l]
  BY <1>2, <1>5, <1>6 DEF LANES
<1>9. Total(z) = Total(y) + Total(q)
  <2>1. Sums(z)[LANES] = Sums(y)[LANES] + Sums(q)[LANES]
    <3>1. \A l \in 0 .. LANES : Sums(z)[l] = Sums(y)[l] + Sums(q)[l]
      BY <1>2, <1>6, <1>8, SumsAdd
    <3> QED
      BY <1>8, <3>1
  <2>2. /\ Total(z) = Sums(z)[LANES] /\ Total(y) = Sums(y)[LANES] /\ Total(q) = Sums(q)[LANES]
    BY <1>2, <1>6, <1>8, SumsAre
  <2> QED
    BY <2>1, <2>2
<1>10. Sums(p)[at + 8] = Sums(p)[at] + Total(q)
  <2>1. Total(q) = Sums(q)[LANES]
    BY <1>6, <1>8, SumsAre
  <2>2. at + LANES <= cpu.n /\ at + 8 = at + LANES
    BY <1>4 DEF LANES
  <2>3. Sums(p)[at + LANES] = Sums(p)[at] + Sums(q)[LANES]
    BY <1>2, <1>3, <1>6, <1>8, <2>2, SumsPart
  <2> QED
    BY <2>1, <2>2, <2>3
<1>11. Total(z) = Sums(p)[at + 8] + LANES * cpu.g
  <2> DEFINE e == Total(q)
             s == Sums(p)[at]
             g == LANES * cpu.g
  <2>1. e \in Int
    <3>1. Total(q) = Sums(q)[LANES] /\ Sums(q) \in [0 .. LANES -> Int]
      BY <1>6, <1>8, SumsAre
    <3> QED
      BY <1>8, <3>1
  <2>2. s \in Int
    <3>1. Sums(p) \in [0 .. cpu.n -> Int]
      BY <1>2, <1>3, SumsAre
    <3>2. at \in 0 .. cpu.n
      BY <1>2
    <3> QED
      BY <3>1, <3>2
  <2>3. g \in Int
    BY <1>2 DEF LANES
  <2>4. Total(z) = Total(y) + e /\ Sums(p)[at + 8] = s + e /\ Total(y) = s + g
    BY <1>2, <1>9, <1>10
  <2> HIDE DEF e, s, g
  <2>5. Total(z) = Sums(p)[at + 8] + g
    BY <2>1, <2>2, <2>3, <2>4
  <2> QED
    BY <2>5 DEF g
<1>12. DotAfter(cpu', "main_loop", at + 8, z, cpu.result)
  <2>1. at = cpu.at /\ at + 8 \in Nat
    BY <1>4 DEF at
  <2>2. DotAfter(cpu', cpu.pc, at + 8, z, cpu.result)
    BY <1>1, <1>2, <1>8, <2>1, DotExcept
  <2> QED
    BY <1>1, <2>2
<1> QED
  BY <1>4, <1>12, <1>8, <1>11, DotStep DEF p

\* One product goes into the first lane.
LEMMA MulAddOneKeeps == DotInv /\ MulAddOne => DotInv'
<1> SUFFICES ASSUME DotInv, MulAddOne PROVE DotInv'
  OBVIOUS
<1> DEFINE y == cpu.ymm0
           p == Products
           at == cpu.at
           z == [y EXCEPT ![1] = y[1] + cpu.a[cpu.at + 1] * cpu.b[cpu.at + 1]]
<1>1. /\ cpu.pc = "main_loop" /\ cpu.n - cpu.at \in 1 .. 7
      /\ cpu' = [cpu EXCEPT !.at = cpu.at + 1,
                   !.ymm0[1] = cpu.ymm0[1] + cpu.a[cpu.at + 1] * cpu.b[cpu.at + 1]]
  BY DEF MulAddOne, Place
<1>2. /\ cpu.n \in Nat /\ at \in 0 .. cpu.n /\ y \in [1 .. LANES -> Int] /\ cpu.g \in Int
      /\ Total(y) = Sums(p)[at] + LANES * cpu.g
      /\ cpu.result \in Int /\ DotTypeOK
  BY DEF DotInv, DotTypeOK, DotStates
<1>3. p \in [1 .. cpu.n -> Int] /\ \A i \in 1 .. cpu.n : p[i] = cpu.a[i] * cpu.b[i]
  BY ProductsAre DEF DotInv
<1>4. at \in Nat /\ at + 1 \in 1 .. cpu.n /\ (at + 1) - 1 = at
  <2>1. cpu.n \in Nat /\ at \in 0 .. cpu.n
    BY <1>2
  <2> QED
    BY <1>1, <2>1
<1>5. p[at + 1] = cpu.a[cpu.at + 1] * cpu.b[cpu.at + 1] /\ p[at + 1] \in Int
  BY <1>3, <1>4
<1>6. z = [y EXCEPT ![1] = y[1] + p[at + 1]]
  BY <1>5
<1>71. /\ cpu' = [cpu EXCEPT !.at = at + 1, !.ymm0 = z]
       /\ at = cpu.at
  BY <1>1, <1>2
<1> HIDE DEF y, p, at, z
<1> DEFINE v == p[at + 1]
           q == [l \in 1 .. LANES |-> IF l = 1 THEN v ELSE 0]
<1>8. /\ LANES \in Nat \ {0} /\ z \in [1 .. LANES -> Int] /\ q \in [1 .. LANES -> Int]
      /\ q[1] = v /\ (\A l \in 2 .. LANES : q[l] = 0)
      /\ \A l \in 1 .. LANES : z[l] = y[l] + q[l]
  <2>1. LANES \in Nat \ {0} /\ 1 \in 1 .. LANES
    BY DEF LANES
  <2>2. v \in Int
    BY <1>5
  <2> HIDE DEF v
  <2>3. q \in [1 .. LANES -> Int] /\ q[1] = v /\ (\A l \in 2 .. LANES : q[l] = 0)
    BY <2>1, <2>2
  <2>4. z = [y EXCEPT ![1] = y[1] + v]
    BY <1>6 DEF v
  <2>5. ASSUME NEW l \in 1 .. LANES PROVE z[l] = y[l] + q[l] /\ z[l] \in Int
    <3>1. CASE l = 1
      BY <1>2, <2>1, <2>2, <2>3, <2>4, <3>1
    <3>2. CASE l # 1
      <4>1. z[l] = y[l] /\ y[l] \in Int /\ l \in 2 .. LANES
        BY <1>2, <2>1, <2>4, <3>2
      <4> QED
        BY <2>3, <4>1
    <3> QED
      BY <3>1, <3>2
  <2>6. z \in [1 .. LANES -> Int]
    BY <1>2, <2>4, <2>5
  <2> QED
    BY <2>1, <2>3, <2>5, <2>6
<1>9. Total(z) = Total(y) + p[at + 1]
  <2>0. v \in Int
    BY <1>5
  <2> HIDE DEF q, v
  <2>1. Sums(z)[LANES] = Sums(y)[LANES] + Sums(q)[LANES]
    <3>1. \A l \in 0 .. LANES : Sums(z)[l] = Sums(y)[l] + Sums(q)[l]
      BY <1>2, <1>8, SumsAdd
    <3> QED
      BY <1>8, <3>1
  <2>2. Total(z) = Sums(z)[LANES] /\ Total(y) = Sums(y)[LANES]
    BY <1>2, <1>8, SumsAre
  <2>3. Sums(q)[LANES] = v
    BY <1>8, <2>0, SumsFirst
  <2> QED
    BY <2>1, <2>2, <2>3 DEF v
<1>10. Sums(p)[at + 1] = Sums(p)[at] + p[at + 1] /\ Sums(p)[at] \in Int
  <2>1. Sums(p) \in [0 .. cpu.n -> Int] /\ \A i \in 1 .. cpu.n : Sums(p)[i] = Sums(p)[i - 1] + p[i]
    BY <1>2, <1>3, SumsAre
  <2> QED
    BY <1>2, <1>4, <2>1
<1>11. Total(z) = Sums(p)[at + 1] + LANES * cpu.g
  <2> DEFINE g == LANES * cpu.g
  <2>1. g \in Int
    BY <1>2 DEF LANES
  <2>2. Total(y) = Sums(p)[at] + g
    BY <1>2
  <2> HIDE DEF g
  <2>3. Total(z) = Sums(p)[at + 1] + g
    BY <1>5, <1>9, <1>10, <2>1, <2>2
  <2> QED
    BY <2>3 DEF g
<1>12. at + 1 \in 0 .. cpu.n /\ at + 1 \in Nat
  BY <1>4
<1>13. DotAfter(cpu', "main_loop", at + 1, z, cpu.result)
  <2>1. DotAfter(cpu', cpu.pc, at + 1, z, cpu.result)
    BY <1>2, <1>71, <1>8, <1>12, DotExcept
  <2> QED
    BY <1>1, <2>1
<1> QED
  BY <1>13, <1>8, <1>11, <1>12, DotStep DEF p

\* The lanes are added when every product is in them.
LEMMA AddLanesKeeps == DotInv /\ AddLanes => DotInv'
<1> SUFFICES ASSUME DotInv, AddLanes PROVE DotInv'
  OBVIOUS
<1> DEFINE p == Products
           r == Total(cpu.ymm0)
<1>1. cpu.at = cpu.n /\ cpu' = [cpu EXCEPT !.pc = "done", !.result = r]
  BY DEF AddLanes, Place
<1>2. /\ cpu.n \in Nat /\ cpu.at \in 0 .. cpu.n /\ cpu.ymm0 \in [1 .. LANES -> Int]
      /\ r = Sums(p)[cpu.at] + LANES * cpu.g
      /\ cpu.result \in Int /\ DotTypeOK
  BY DEF DotInv, DotTypeOK, DotStates
<1>3. ScalarProduct = Sums(p)[cpu.n]
  <2>1. p \in [1 .. cpu.n -> Int]
    BY ProductsAre DEF DotInv
  <2> HIDE DEF p
  <2>2. Total(p) = Sums(p)[cpu.n]
    BY <1>2, <2>1, SumsAre
  <2> QED
    BY <2>2 DEF p, Products, ScalarProduct
<1>4. DotAfter(cpu', "done", cpu.at, cpu.ymm0, r)
  <2>1. r \in Int
    <3>1. LANES \in Nat
      BY DEF LANES
    <3>2. r = Sums(cpu.ymm0)[LANES] /\ Sums(cpu.ymm0) \in [0 .. LANES -> Int]
      BY <1>2, <3>1, SumsAre
    <3> QED
      BY <3>1, <3>2
  <2> HIDE DEF p, r
  <2> QED
    BY <1>1, <1>2, <2>1, DotExcept
<1>5. r = ScalarProduct + LANES * cpu.g
  BY <1>1, <1>2, <1>3
<1>6. Total(cpu.ymm0) = Sums(Products)[cpu.at] + LANES * cpu.g
  BY <1>2
<1> HIDE DEF p, r
<1> QED
  BY <1>2, <1>4, <1>5, <1>6, DotStep

\* The result is the scalar product if nothing was left in the lanes.
LEMMA DotRight ==
  ASSUME DotInv, cpu.pc = "done"
  PROVE  cpu.g = 0 => cpu.result = ScalarProduct
<1> DEFINE p == Products
           sp == ScalarProduct
<1>1. cpu.n \in Nat /\ p \in [1 .. cpu.n -> Int]
  BY ProductsAre DEF DotInv, DotTypeOK, DotStates
<1>2. sp = Total(p)
  BY DEF Products, ScalarProduct
<1> HIDE DEF p
<1>3. Total(p) \in Int
  <2>1. Total(p) = Sums(p)[cpu.n] /\ Sums(p) \in [0 .. cpu.n -> Int]
    BY <1>1, SumsAre
  <2>2. cpu.n \in 0 .. cpu.n
    BY <1>1
  <2> QED
    BY <2>1, <2>2
<1>4. cpu.result = sp + LANES * cpu.g
  BY DEF DotInv
<1> HIDE DEF sp
<1>5. cpu.g = 0 => cpu.result = sp
  BY <1>2, <1>3, <1>4 DEF LANES
<1> QED
  BY <1>5 DEF sp

----------------------------------------------------------------------------
(* longest_inc_subseq *)

\* The rising subsequences that end at i and have the numbers before from the
\* places before j, and the length of a longest of them.
Rising(A, S) == \A i, j \in S : i < j => A[i] < A[j]
Chains(A, i, j) == {S \in SUBSET ((1 .. j - 1) \cup {i}) : i \in S /\ Rising(A, S)}
Longest(A, i, j, m) == /\ \E S \in Chains(A, i, j) : Cardinality(S) = m
                       /\ \A S \in Chains(A, i, j) : Cardinality(S) <= m

\* They are finite.
LEMMA ChainsFinite ==
  ASSUME NEW A, NEW i \in Nat, NEW j \in Nat, NEW S \in Chains(A, i, j)
  PROVE  IsFiniteSet(S) /\ Cardinality(S) \in Nat
<1>1. IsFiniteSet(1 .. j - 1)
  <2>1. j - 1 \in Int /\ 1 \in Int
    OBVIOUS
  <2> QED
    BY <2>1, FS_Interval
<1>2. IsFiniteSet((1 .. j - 1) \cup {i})
  BY <1>1, FS_AddElement
<1>3. IsFiniteSet(S)
  BY <1>2, FS_Subset DEF Chains
<1> QED
  BY <1>3, FS_CardinalityType

\* Their lengths are numbers.
LEMMA LongestIsNat ==
  ASSUME NEW A, NEW i \in Nat, NEW j \in Nat, NEW m, Longest(A, i, j, m)
  PROVE  m \in Nat
  BY ChainsFinite DEF Longest

\* With nothing before it a place is alone.
LEMMA LongestAlone ==
  ASSUME NEW A, NEW i \in Nat
  PROVE  Longest(A, i, 1, 1)
<1>0. 1 .. 1 - 1 = {}
  OBVIOUS
<1>1. Chains(A, i, 1) = {{i}}
  <2>1. ASSUME NEW S \in Chains(A, i, 1) PROVE S = {i}
    BY <1>0 DEF Chains
  <2>2. Rising(A, {i})
    <3>1. ~ (i < i)
      OBVIOUS
    <3> QED
      BY <3>1 DEF Rising
  <2>3. {i} \in Chains(A, i, 1)
    BY <2>2 DEF Chains
  <2> QED
    BY <2>1, <2>3
<1>2. Cardinality({i}) = 1
  BY FS_Singleton
<1> QED
  BY <1>1, <1>2 DEF Longest

\* A number that is not smaller adds no subsequence.
LEMMA LongestSame ==
  ASSUME NEW n \in Nat, NEW A \in [1 .. n -> Int], NEW i \in 1 .. n, NEW j \in 1 .. i - 1,
         NEW m, Longest(A, i, j, m), A[i] <= A[j]
  PROVE  Longest(A, i, j + 1, m)
<1>1. (1 .. j - 1) \cup {j} = 1 .. (j + 1) - 1
  OBVIOUS
<1>2. ASSUME NEW S \in Chains(A, i, j + 1) PROVE S \in Chains(A, i, j)
  <2>1. S \subseteq ((1 .. (j + 1) - 1) \cup {i}) /\ i \in S /\ Rising(A, S)
    BY DEF Chains
  <2>2. j \notin S
    <3>1. ASSUME j \in S PROVE FALSE
      <4>1. j < i /\ A[j] \in Int /\ A[i] \in Int
        OBVIOUS
      <4>2. A[j] < A[i]
        BY <2>1, <3>1, <4>1 DEF Rising
      <4> QED
        BY <4>1, <4>2
    <3> QED
      BY <3>1
  <2>3. S \subseteq ((1 .. j - 1) \cup {i})
    BY <1>1, <2>1, <2>2
  <2> QED
    BY <2>1, <2>3 DEF Chains
<1>3. ASSUME NEW S \in Chains(A, i, j) PROVE S \in Chains(A, i, j + 1)
  BY <1>1 DEF Chains
<1> QED
  BY <1>2, <1>3 DEF Longest

\* A smaller number at j adds those that end at j and go on to i.
LEMMA LongestMore ==
  ASSUME NEW n \in Nat, NEW A \in [1 .. n -> Int], NEW i \in 1 .. n, NEW j \in 1 .. i - 1,
         NEW m, Longest(A, i, j, m), NEW k, Longest(A, j, j, k), A[j] < A[i]
  PROVE  Longest(A, i, j + 1, Max({m, k + 1}))
<1>0. i \in Nat /\ j \in Nat /\ j + 1 \in Nat /\ j < i
  OBVIOUS
<1>1. (1 .. j - 1) \cup {j} = 1 .. (j + 1) - 1 /\ (1 .. j - 1) \cup {j} = 1 .. j
  OBVIOUS
<1>2. m \in Nat /\ k \in Nat
  BY <1>0, LongestIsNat
<1> DEFINE M == Max({m, k + 1})
<1>3. M \in {m, k + 1} /\ m <= M /\ k + 1 <= M
  <2> DEFINE b == m + k + 1
             X == {m, k + 1}
  <2>1. b \in Nat /\ X \in SUBSET (0 .. b) /\ X # {}
    BY <1>2
  <2> HIDE DEF b, X
  <2>2. Max(X) \in X /\ \A y \in X : y <= Max(X)
    BY <2>1, MaxIsGreatest
  <2> QED
    BY <2>2 DEF X
<1> HIDE DEF M
<1>4. ASSUME NEW S \in Chains(A, i, j) PROVE S \in Chains(A, i, j + 1)
  BY <1>1 DEF Chains
\* A subsequence that ends at j goes on to i.
<1>5. ASSUME NEW T \in Chains(A, j, j)
      PROVE  T \cup {i} \in Chains(A, i, j + 1) /\ Cardinality(T \cup {i}) = Cardinality(T) + 1
  <2>1. T \subseteq 1 .. j /\ j \in T /\ Rising(A, T)
    BY <1>1 DEF Chains
  <2>2. i \notin T
    BY <2>1, <1>0
  <2>3. Cardinality(T \cup {i}) = Cardinality(T) + 1
    BY <1>0, <2>2, ChainsFinite, FS_AddElement
  <2>4. ASSUME NEW a \in T \cup {i}, NEW b \in T \cup {i}, a < b PROVE A[a] < A[b]
    <3>1. a \in T
      <4>1. a # i
        BY <2>1, <2>4, <1>0
      <4> QED
        BY <4>1
    <3>2. a \in 1 .. j /\ a <= j /\ A[a] \in Int /\ A[j] \in Int /\ A[i] \in Int
      BY <2>1, <3>1
    <3>3. CASE b \in T
      BY <2>1, <2>4, <3>1, <3>3 DEF Rising
    <3>4. CASE b = i
      <4>1. A[a] <= A[j]
        <5>1. CASE a = j
          BY <3>2, <5>1
        <5>2. CASE a < j
          <6>1. A[a] < A[j]
            BY <2>1, <3>1, <5>2 DEF Rising
          <6> QED
            BY <3>2, <6>1
        <5> QED
          BY <3>2, <5>1, <5>2
      <4> QED
        BY <3>2, <3>4, <4>1
    <3> QED
      BY <3>3, <3>4
  <2>5. T \cup {i} \in SUBSET ((1 .. (j + 1) - 1) \cup {i})
    BY <1>1, <2>1
  <2> QED
    BY <2>3, <2>4, <2>5 DEF Chains, Rising
\* One that comes from j to i ends at j without i.
<1>6. ASSUME NEW S \in Chains(A, i, j + 1), j \in S
      PROVE  S \ {i} \in Chains(A, j, j) /\ Cardinality(S) = Cardinality(S \ {i}) + 1
  <2>1. S \subseteq (1 .. j) \cup {i} /\ i \in S /\ Rising(A, S)
    BY <1>1 DEF Chains
  <2>2. S \ {i} \in SUBSET ((1 .. j - 1) \cup {j}) /\ j \in S \ {i}
    BY <1>0, <1>1, <1>6, <2>1
  <2>3. Rising(A, S \ {i})
    BY <2>1 DEF Rising
  <2>4. IsFiniteSet(S) /\ Cardinality(S) \in Nat
    BY <1>0, ChainsFinite
  <2>5. Cardinality(S \ {i}) = Cardinality(S) - 1
    BY <2>1, <2>4, FS_RemoveElement
  <2>6. Cardinality(S) = Cardinality(S \ {i}) + 1
    BY <2>4, <2>5
  <2>7. S \ {i} \in Chains(A, j, j)
    BY <2>2, <2>3 DEF Chains
  <2> QED
    BY <2>6, <2>7
<1>7. ASSUME NEW S \in Chains(A, i, j + 1), j \notin S PROVE S \in Chains(A, i, j)
  BY <1>1, <1>7 DEF Chains
<1>8. ASSUME NEW S \in Chains(A, i, j + 1) PROVE Cardinality(S) <= M
  <2>0. Cardinality(S) \in Nat
    BY <1>0, ChainsFinite
  <2>1. CASE j \in S
    <3>1. S \ {i} \in Chains(A, j, j) /\ Cardinality(S) = Cardinality(S \ {i}) + 1
      BY <1>6, <2>1
    <3>2. Cardinality(S \ {i}) <= k /\ Cardinality(S \ {i}) \in Nat
      BY <1>0, <3>1, ChainsFinite DEF Longest
    <3> QED
      BY <1>2, <1>3, <3>1, <3>2
  <2>2. CASE j \notin S
    <3>1. Cardinality(S) <= m
      BY <1>7, <2>2 DEF Longest
    <3> QED
      BY <1>2, <1>3, <2>0, <3>1
  <2> QED
    BY <2>1, <2>2
<1>9. \E S \in Chains(A, i, j + 1) : Cardinality(S) = M
  <2>1. CASE M = m
    BY <1>4, <2>1 DEF Longest
  <2>2. CASE M = k + 1
    <3>1. PICK T \in Chains(A, j, j) : Cardinality(T) = k
      BY DEF Longest
    <3> QED
      BY <1>5, <2>2, <3>1
  <2> QED
    BY <1>3, <2>1, <2>2
<1> QED
  BY <1>8, <1>9 DEF Longest, M

\* The registers and arrays of longest_inc_subseq.
LisStates == [prog : {"lis"}, pc : {"init_loop", "inner_loop", "find_lis_len_loop", "end", "done"},
              array : Seq(Int), help : Seq(Int), i : Nat, j : Nat, length : Nat]
\* The help of the places below i is final, that of i knows the places below j.
LisHelp == \A k \in 1 .. Size :
    /\ k < cpu.i => Longest(cpu.array, k, k, cpu.help[k])
    /\ k = cpu.i => Longest(cpu.array, k, cpu.j, cpu.help[k])
    /\ k > cpu.i => cpu.help[k] = 1
\* The longest so far.
LisLength(n) ==
    /\ \A k \in 1 .. Size : Longest(cpu.array, k, k, cpu.help[k])
    /\ \A k \in 1 .. Size : k < n => cpu.help[k] <= cpu.length
    /\ \/ cpu.length = 0
       \/ \E k \in 1 .. Size : k < n /\ cpu.help[k] = cpu.length
\* What holds in each of the loops of longest_inc_subseq.
LisInv ==
    /\ cpu \in LisStates /\ Len(cpu.help) = Size
    /\ cpu.pc \in {"init_loop", "inner_loop", "find_lis_len_loop"} => Size > 0
    /\ cpu.pc \in {"init_loop", "inner_loop", "end"} => cpu.length = 0
    /\ cpu.pc = "init_loop" => cpu.j = 1
    /\ cpu.pc = "inner_loop" => LisHelp /\ cpu.i \in 2 .. Size + 1 /\ cpu.j \in 1 .. cpu.i
    /\ cpu.pc = "find_lis_len_loop" => LisLength(cpu.i) /\ cpu.i \in 1 .. Size + 1
    /\ cpu.pc = "end" => Size = 0
    /\ cpu.pc = "done" => LisLength(Size + 1)

\* Both arrays have the size, and their numbers are integers.
LEMMA ArrayFacts ==
  ASSUME cpu \in LisStates, Len(cpu.help) = Size
  PROVE  /\ Size \in Nat /\ cpu.array \in [1 .. Size -> Int] /\ cpu.help \in [1 .. Size -> Int]
         /\ cpu.help \in Seq(Int) /\ cpu.i \in Nat /\ cpu.j \in Nat /\ cpu.length \in Nat
<1>1. cpu.array \in Seq(Int) /\ cpu.help \in Seq(Int) /\ cpu.i \in Nat /\ cpu.j \in Nat
      /\ cpu.length \in Nat
  BY DEF LisStates
<1>2. \A s \in Seq(Int) : Len(s) \in Nat /\ s \in [1 .. Len(s) -> Int]
  BY LenProperties
<1> QED
  BY <1>1, <1>2 DEF Size

\* help_array holds anything at the call.
LEMMA LisInvInit == longest_inc_subseq => LisInv
<1> SUFFICES ASSUME longest_inc_subseq PROVE LisInv
  OBVIOUS
<1>0. MaxArray \in Nat /\ Heights \subseteq Int
  BY MachineCodeAssumption
<1>1. PICK size \in 0 .. MaxArray : \E array \in [1 .. size -> Heights] :
         cpu = [prog |-> "lis", pc |-> IF size = 0 THEN "end" ELSE "init_loop",
                array |-> array, help |-> [i \in 1 .. size |-> MaxArray + 1],
                i |-> 1, j |-> 1, length |-> 0]
  BY DEF longest_inc_subseq
<1>a. PICK array \in [1 .. size -> Heights] :
         cpu = [prog |-> "lis", pc |-> IF size = 0 THEN "end" ELSE "init_loop",
                array |-> array, help |-> [i \in 1 .. size |-> MaxArray + 1],
                i |-> 1, j |-> 1, length |-> 0]
  BY <1>1
<1> DEFINE help == [i \in 1 .. size |-> MaxArray + 1]
           pc == IF size = 0 THEN "end" ELSE "init_loop"
<1>2. help \in [1 .. size -> Int] /\ array \in [1 .. size -> Int] /\ size \in Nat
  <2>1. MaxArray + 1 \in Int /\ size \in Nat
    BY <1>0
  <2>2. help \in [1 .. size -> Int]
    BY <2>1
  <2>3. array \in [1 .. size -> Int]
    BY <1>0
  <2> QED
    BY <2>1, <2>2, <2>3
<1>3. pc \in {"end", "init_loop"} /\ (pc = "end" => size = 0) /\ (pc = "init_loop" => size > 0)
  BY <1>2
<1>4. cpu = [prog |-> "lis", pc |-> pc, array |-> array, help |-> help,
             i |-> 1, j |-> 1, length |-> 0]
  BY <1>a
<1> HIDE DEF help, pc
<1>5. help \in Seq(Int) /\ array \in Seq(Int) /\ Len(help) = size /\ Len(array) = size
  <2>1. ASSUME NEW s \in [1 .. size -> Int] PROVE s \in Seq(Int) /\ Len(s) = size
    <3>1. s \in Seq(Int)
      BY <1>2, SeqDef
    <3>2. DOMAIN s = 1 .. Len(s) /\ Len(s) \in Nat /\ DOMAIN s = 1 .. size
      BY <3>1, LenProperties
    <3> QED
      BY <1>2, <3>1, <3>2
  <2> QED
    BY <1>2, <2>1
<1>6. cpu \in LisStates
  BY <1>3, <1>4, <1>5 DEF LisStates
<1> QED
  BY <1>3, <1>4, <1>5, <1>6 DEF LisInv, Size

\* Every place is alone before the loops begin.
LEMMA InitLoopKeeps == LisInv /\ InitLoop => LisInv'
<1> SUFFICES ASSUME LisInv, InitLoop PROVE LisInv'
  OBVIOUS
<1> DEFINE help == [i \in 1 .. Size |-> 1]
<1>1. cpu.pc = "init_loop" /\ cpu' = [cpu EXCEPT !.pc = "inner_loop", !.help = help, !.i = 2]
  BY DEF InitLoop, Place
<1>2. cpu \in LisStates /\ Size \in Nat /\ Size > 0 /\ cpu.length = 0 /\ cpu.j = 1
  BY <1>1, ArrayFacts DEF LisInv
<1>3. help \in Seq(Int) /\ Len(help) = Size /\ \A k \in 1 .. Size : help[k] = 1
  <2>1. help \in [1 .. Size -> Int]
    OBVIOUS
  <2>2. help \in Seq(Int)
    BY <1>2, <2>1, SeqDef
  <2>3. DOMAIN help = 1 .. Len(help) /\ Len(help) \in Nat /\ DOMAIN help = 1 .. Size
    BY <2>2, LenProperties
  <2> QED
    BY <1>2, <2>2, <2>3
<1> HIDE DEF help
<1>4. /\ cpu' \in LisStates /\ cpu'.pc = "inner_loop" /\ cpu'.help = help /\ cpu'.i = 2
      /\ cpu'.j = 1 /\ cpu'.length = 0 /\ cpu'.array = cpu.array
  BY <1>1, <1>2, <1>3 DEF LisStates
<1>5. Size' = Size
  BY <1>4 DEF Size
<1>6. LisHelp'
  <2>1. ASSUME NEW k \in 1 .. Size PROVE Longest(cpu.array, k, 1, 1)
    BY LongestAlone
  <2>2. ASSUME NEW k \in 1 .. Size, k < 2 PROVE Longest(cpu.array, k, k, 1)
    <3>1. k = 1
      BY <2>2
    <3> QED
      BY <2>1, <3>1
  <2> QED
    BY <1>3, <1>4, <1>5, <2>1, <2>2 DEF LisHelp
<1>7. 2 \in 2 .. Size + 1 /\ 1 \in 1 .. 2
  BY <1>2
<1> QED
  BY <1>2, <1>3, <1>4, <1>5, <1>6, <1>7 DEF LisInv

\* The inner loop lets help_array[i] know one more place.
LEMMA InnerLoopKeeps == LisInv /\ InnerLoop => LisInv'
<1> SUFFICES ASSUME LisInv, InnerLoop PROVE LisInv'
  OBVIOUS
<1> DEFINE A == cpu.array
           i == cpu.i
           j == cpu.j
           h == cpu.help
           best == IF A[i] <= A[j] THEN h[i] ELSE Max({h[i], h[j] + 1})
<1>1. /\ cpu.pc = "inner_loop" /\ i <= Size /\ j < i
      /\ cpu' = [cpu EXCEPT !.help[i] = best, !.j = j + 1]
  BY DEF InnerLoop, Place
<1>2. /\ cpu \in LisStates /\ Len(h) = Size /\ Size > 0 /\ cpu.length = 0 /\ LisHelp
      /\ i \in 2 .. Size + 1 /\ j \in 1 .. i
  BY <1>1 DEF LisInv
<1>3. Size \in Nat /\ A \in [1 .. Size -> Int] /\ h \in [1 .. Size -> Int] /\ h \in Seq(Int)
  BY <1>2, ArrayFacts
<1>4. i \in 1 .. Size /\ j \in 1 .. i - 1 /\ j \in 1 .. Size /\ i \in Nat /\ j \in Nat
  BY <1>1, <1>2, <1>3
<1>5. Longest(A, i, j, h[i]) /\ Longest(A, j, j, h[j])
  BY <1>2, <1>4 DEF LisHelp
<1>6. Longest(A, i, j + 1, best)
  <2>1. CASE A[i] <= A[j]
    <3> HIDE DEF A, i, j, h
    <3>1. Longest(A, i, j + 1, h[i])
      BY <1>3, <1>4, <1>5, <2>1, LongestSame
    <3> QED
      BY <2>1, <3>1
  <2>2. CASE ~ (A[i] <= A[j])
    <3>1. A[i] \in Int /\ A[j] \in Int
      BY <1>3, <1>4
    <3>2. A[j] < A[i]
      BY <2>2, <3>1
    <3> HIDE DEF A, i, j, h
    <3>3. Longest(A, i, j + 1, Max({h[i], h[j] + 1}))
      BY <1>3, <1>4, <1>5, <3>2, LongestMore
    <3> QED
      BY <2>2, <3>3
  <2> QED
    BY <2>1, <2>2
<1> DEFINE g == [h EXCEPT ![i] = best]
<1>7. cpu' = [cpu EXCEPT !.help = g, !.j = j + 1]
  BY <1>1, <1>2 DEF LisStates
<1>8. best \in Nat
  <2>1. j + 1 \in Nat
    BY <1>4
  <2> HIDE DEF best, A, i, j
  <2> QED
    BY <1>4, <1>6, <2>1, LongestIsNat
<1> HIDE DEF A, i, j, h, best
<1>9. /\ g \in [1 .. Size -> Int] /\ g \in Seq(Int) /\ Len(g) = Size /\ g[i] = best
      /\ \A k \in 1 .. Size : k # i => g[k] = h[k]
  <2>1. g \in [1 .. Size -> Int]
    BY <1>3, <1>4, <1>8
  <2>2. g \in Seq(Int)
    BY <1>3, <2>1, SeqDef
  <2>3. DOMAIN g = 1 .. Len(g) /\ Len(g) \in Nat /\ DOMAIN g = 1 .. Size
    BY <2>1, <2>2, LenProperties
  <2>4. g[i] = best /\ \A k \in 1 .. Size : k # i => g[k] = h[k]
    BY <1>3, <1>4
  <2>5. Len(g) = Size
    BY <1>3, <2>3
  <2> QED
    BY <2>1, <2>2, <2>4, <2>5
<1> HIDE DEF g
<1>10. /\ cpu' \in LisStates /\ cpu'.pc = "inner_loop" /\ cpu'.help = g /\ cpu'.i = i
       /\ cpu'.j = j + 1 /\ cpu'.length = 0 /\ cpu'.array = A
  <2>1. j + 1 \in Nat /\ cpu.i = i /\ cpu.array = A
    BY <1>4 DEF i, A
  <2> QED
    BY <1>1, <1>2, <1>7, <1>9, <2>1 DEF LisStates
<1>11. Size' = Size
  BY <1>10 DEF Size, A
<1>12. LisHelp'
  <2>1. /\ \A k \in 1 .. Size : k < i => Longest(A, k, k, h[k])
        /\ \A k \in 1 .. Size : k > i => h[k] = 1
    BY <1>2 DEF LisHelp, A, i, h
  <2>2. /\ \A k \in 1 .. Size : k < i => Longest(A, k, k, g[k])
        /\ \A k \in 1 .. Size : k > i => g[k] = 1
        /\ \A k \in 1 .. Size : k = i => Longest(A, k, j + 1, g[k])
    BY <1>4, <1>6, <1>9, <2>1
  <2> QED
    BY <1>10, <1>11, <2>2 DEF LisHelp
<1>13. i \in 2 .. Size + 1 /\ j + 1 \in 1 .. i
  BY <1>2, <1>3, <1>4
<1> QED
  BY <1>2, <1>9, <1>10, <1>11, <1>12, <1>13 DEF LisInv

\* When j has reached i, help_array[i] is final.
LEMMA IncreaseIKeeps == LisInv /\ IncreaseI => LisInv'
<1> SUFFICES ASSUME LisInv, IncreaseI PROVE LisInv'
  OBVIOUS
<1>1. /\ cpu.pc = "inner_loop" /\ cpu.i <= Size /\ cpu.j >= cpu.i
      /\ cpu' = [cpu EXCEPT !.i = cpu.i + 1, !.j = 1]
  BY DEF IncreaseI, Place
<1>2. /\ cpu \in LisStates /\ Len(cpu.help) = Size /\ Size > 0 /\ cpu.length = 0 /\ LisHelp
      /\ cpu.i \in 2 .. Size + 1 /\ cpu.j \in 1 .. cpu.i
  BY <1>1 DEF LisInv
<1>3. Size \in Nat /\ cpu.i \in Nat
  BY <1>2, ArrayFacts
<1>4. cpu.j = cpu.i
  BY <1>1, <1>2, <1>3
<1>5. /\ cpu' \in LisStates /\ cpu'.pc = "inner_loop" /\ cpu'.help = cpu.help
      /\ cpu'.i = cpu.i + 1 /\ cpu'.j = 1 /\ cpu'.length = 0 /\ cpu'.array = cpu.array
  <2>1. cpu.i + 1 \in Nat
    BY <1>3
  <2> QED
    BY <1>1, <1>2, <2>1 DEF LisStates
<1>6. Size' = Size
  BY <1>5 DEF Size
<1>7. LisHelp'
  <2>1. ASSUME NEW k \in 1 .. Size
        PROVE  /\ k < cpu.i + 1 => Longest(cpu.array, k, k, cpu.help[k])
               /\ k = cpu.i + 1 => Longest(cpu.array, k, 1, cpu.help[k])
               /\ k > cpu.i + 1 => cpu.help[k] = 1
    <3>1. CASE k < cpu.i
      BY <1>2, <1>3, <3>1 DEF LisHelp
    <3>2. CASE k = cpu.i
      BY <1>2, <1>3, <1>4, <3>2 DEF LisHelp
    <3>3. CASE k > cpu.i
      <4>1. cpu.help[k] = 1
        BY <1>2, <3>3 DEF LisHelp
      <4>2. Longest(cpu.array, k, 1, 1)
        BY LongestAlone
      <4> QED
        BY <1>3, <3>3, <4>1, <4>2
    <3> QED
      BY <1>3, <3>1, <3>2, <3>3
  <2> QED
    BY <1>5, <1>6, <2>1 DEF LisHelp
<1>8. cpu.i + 1 \in 2 .. Size + 1 /\ 1 \in 1 .. cpu.i + 1
  BY <1>1, <1>2, <1>3
<1> QED
  BY <1>2, <1>5, <1>6, <1>7, <1>8 DEF LisInv

\* After the last i all of help_array is final.
LEMMA OuterEndsKeeps == LisInv /\ OuterEnds => LisInv'
<1> SUFFICES ASSUME LisInv, OuterEnds PROVE LisInv'
  OBVIOUS
<1>1. /\ cpu.pc = "inner_loop" /\ cpu.i > Size
      /\ cpu' = [cpu EXCEPT !.pc = "find_lis_len_loop", !.i = 1]
  BY DEF OuterEnds, Place
<1>2. /\ cpu \in LisStates /\ Len(cpu.help) = Size /\ Size > 0 /\ cpu.length = 0 /\ LisHelp
  BY <1>1 DEF LisInv
<1>3. Size \in Nat /\ cpu.i \in Nat
  BY <1>2, ArrayFacts
<1>4. /\ cpu' \in LisStates /\ cpu'.pc = "find_lis_len_loop" /\ cpu'.help = cpu.help
      /\ cpu'.i = 1 /\ cpu'.length = 0 /\ cpu'.array = cpu.array
  BY <1>1, <1>2 DEF LisStates
<1>5. Size' = Size
  BY <1>4 DEF Size
<1>6. \A k \in 1 .. Size : Longest(cpu.array, k, k, cpu.help[k]) /\ ~ (k < 1)
  BY <1>1, <1>2, <1>3 DEF LisHelp
<1>7. LisLength(cpu.i)'
  BY <1>4, <1>5, <1>6 DEF LisLength
<1>8. 1 \in 1 .. Size + 1
  BY <1>3
<1> QED
  BY <1>2, <1>4, <1>5, <1>7, <1>8 DEF LisInv

\* The length is the greatest number of help_array so far.
LEMMA FindLengthKeeps == LisInv /\ FindLength => LisInv'
<1> SUFFICES ASSUME LisInv, FindLength PROVE LisInv'
  OBVIOUS
<1> DEFINE m == Max({cpu.length, cpu.help[cpu.i]})
<1>1. /\ cpu.pc = "find_lis_len_loop" /\ cpu.i <= Size
      /\ cpu' = [cpu EXCEPT !.length = m, !.i = cpu.i + 1]
  BY DEF FindLength, Place
<1>2. /\ cpu \in LisStates /\ Len(cpu.help) = Size /\ Size > 0 /\ LisLength(cpu.i)
      /\ cpu.i \in 1 .. Size + 1
  BY <1>1 DEF LisInv
<1>3. Size \in Nat /\ cpu.i \in Nat /\ cpu.length \in Nat
  BY <1>2, ArrayFacts
<1>4. cpu.i \in 1 .. Size
  BY <1>1, <1>2, <1>3
<1>5. \A k \in 1 .. Size : cpu.help[k] \in Nat
  <2> TAKE k \in 1 .. Size
  <2>1. Longest(cpu.array, k, k, cpu.help[k]) /\ k \in Nat
    BY <1>2 DEF LisLength
  <2> QED
    BY <2>1, LongestIsNat
<1>6. m \in {cpu.length, cpu.help[cpu.i]} /\ cpu.length <= m /\ cpu.help[cpu.i] <= m /\ m \in Nat
  <2> DEFINE x == cpu.length
             y == cpu.help[cpu.i]
             b == x + y
             X == {x, y}
  <2>1. x \in Nat /\ y \in Nat
    BY <1>3, <1>4, <1>5
  <2> HIDE DEF x, y
  <2>2. b \in Nat /\ X \in SUBSET (0 .. b) /\ X # {}
    BY <2>1
  <2> HIDE DEF b, X
  <2>3. Max(X) \in X /\ \A z \in X : z <= Max(X)
    BY <2>2, MaxIsGreatest
  <2>4. m = Max(X)
    BY DEF X, x, y
  <2> QED
    BY <2>1, <2>3, <2>4 DEF X, x, y
<1> HIDE DEF m
<1>7. /\ cpu' \in LisStates /\ cpu'.pc = "find_lis_len_loop" /\ cpu'.help = cpu.help
      /\ cpu'.i = cpu.i + 1 /\ cpu'.length = m /\ cpu'.array = cpu.array
  <2>1. cpu.i + 1 \in Nat
    BY <1>3
  <2> QED
    BY <1>1, <1>2, <1>6, <2>1 DEF LisStates
<1>8. Size' = Size
  BY <1>7 DEF Size
<1>9. \A k \in 1 .. Size : k < cpu.i + 1 => cpu.help[k] <= m
  <2> TAKE k \in 1 .. Size
  <2>1. CASE k < cpu.i
    <3>1. cpu.help[k] <= cpu.length
      BY <1>2, <2>1 DEF LisLength
    <3> QED
      BY <1>3, <1>5, <1>6, <3>1
  <2>2. CASE k = cpu.i
    BY <1>6, <2>2
  <2> QED
    BY <1>3, <2>1, <2>2
<1>10. \E k \in 1 .. Size : k < cpu.i + 1 /\ cpu.help[k] = m
  <2>1. CASE m = cpu.help[cpu.i]
    BY <1>3, <1>4, <2>1
  <2>2. CASE m # cpu.help[cpu.i]
    <3>1. m = cpu.length
      BY <1>6, <2>2
    <3>2. CASE \E k \in 1 .. Size : k < cpu.i /\ cpu.help[k] = cpu.length
      BY <1>3, <3>1, <3>2
    <3>3. CASE cpu.length = 0
      <4>1. cpu.help[cpu.i] \in Nat
        BY <1>4, <1>5
      <4>2. cpu.help[cpu.i] = 0
        BY <1>6, <3>1, <3>3, <4>1
      <4> QED
        BY <2>2, <3>1, <3>3, <4>2
    <3> QED
      BY <1>2, <3>2, <3>3 DEF LisLength
  <2> QED
    BY <2>1, <2>2
<1>11. LisLength(cpu.i)'
  <2>1. \A k \in 1 .. Size : Longest(cpu.array, k, k, cpu.help[k])
    BY <1>2 DEF LisLength
  <2> QED
    BY <1>7, <1>8, <1>9, <1>10, <2>1 DEF LisLength
<1>12. cpu.i + 1 \in 1 .. Size + 1
  BY <1>3, <1>4
<1> QED
  BY <1>2, <1>7, <1>8, <1>11, <1>12 DEF LisInv

\* All of help_array was looked at, or there was nothing.
LEMMA LisReturnsKeeps == LisInv /\ LisReturns => LisInv'
<1> SUFFICES ASSUME LisInv, LisReturns PROVE LisInv'
  OBVIOUS
<1>1. /\ \/ cpu.pc = "find_lis_len_loop" /\ cpu.i > Size
         \/ cpu.pc = "end"
      /\ cpu' = [cpu EXCEPT !.pc = "done"]
  BY DEF LisReturns, Place
<1>2. cpu \in LisStates /\ Len(cpu.help) = Size /\ Size \in Nat /\ cpu.i \in Nat
  BY ArrayFacts DEF LisInv
<1>3. /\ cpu' \in LisStates /\ cpu'.pc = "done" /\ cpu'.help = cpu.help
      /\ cpu'.length = cpu.length /\ cpu'.array = cpu.array
  BY <1>1, <1>2 DEF LisStates
<1>4. Size' = Size
  BY <1>3 DEF Size
<1>5. LisLength(Size + 1)
  <2>1. CASE cpu.pc = "end"
    <3>1. Size = 0 /\ cpu.length = 0
      BY <2>1 DEF LisInv
    <3> QED
      BY <3>1 DEF LisLength
  <2>2. CASE cpu.pc = "find_lis_len_loop" /\ cpu.i > Size
    <3>1. LisLength(cpu.i) /\ cpu.i \in 1 .. Size + 1
      BY <2>2 DEF LisInv
    <3>2. cpu.i = Size + 1
      BY <1>2, <2>2, <3>1
    <3> QED
      BY <3>1, <3>2
  <2> QED
    BY <1>1, <2>1, <2>2
<1>6. LisLength(Size + 1)'
  BY <1>3, <1>4, <1>5 DEF LisLength
<1> QED
  BY <1>2, <1>3, <1>4, <1>6 DEF LisInv

\* The greatest length by last places is the greatest of all.
LEMMA LisRight ==
  ASSUME LisInv, cpu.pc = "done"
  PROVE  cpu.length = LongestIncreasing
<1> DEFINE sets == {T \in SUBSET DOMAIN cpu.array : IncreasingAt(T)}
           lengths == {Cardinality(S) : S \in sets}
<1>1. /\ Size \in Nat /\ cpu.array \in [1 .. Size -> Int] /\ cpu.length \in Nat
      /\ LisLength(Size + 1)
  BY ArrayFacts DEF LisInv
<1>2. DOMAIN cpu.array = 1 .. Size
  BY <1>1
<1>3. ASSUME NEW T \in sets PROVE T \subseteq 1 .. Size /\ Rising(cpu.array, T)
  BY <1>2 DEF IncreasingAt, Rising
<1>4. ASSUME NEW T \in SUBSET (1 .. Size), Rising(cpu.array, T) PROVE T \in sets
  BY <1>2, <1>4 DEF IncreasingAt, Rising
<1>5. \A T \in SUBSET (1 .. Size) : Cardinality(T) \in 0 .. Size
  <2> TAKE T \in SUBSET (1 .. Size)
  <2>1. IsFiniteSet(1 .. Size) /\ Cardinality(1 .. Size) = Size
    <3>1. 1 \in Int /\ Size \in Int /\ (1 > Size => Size = 0) /\ Size - 1 + 1 = Size
      BY <1>1
    <3> HIDE DEF sets, lengths
    <3>2. IsFiniteSet(1 .. Size)
      BY <3>1, FS_Interval
    <3>3. Cardinality(1 .. Size) = IF 1 > Size THEN 0 ELSE Size - 1 + 1
      BY <3>1, FS_Interval
    <3> QED
      BY <3>1, <3>2, <3>3
  <2>2. IsFiniteSet(T) /\ Cardinality(T) <= Size
    BY <2>1, FS_Subset
  <2>3. Cardinality(T) \in Nat
    BY <2>2, FS_CardinalityType
  <2> QED
    BY <1>1, <2>2, <2>3
<1> HIDE DEF sets
\* A longest one ends at its last place, where help_array knows its length.
<1>6. ASSUME NEW T \in sets PROVE Cardinality(T) <= cpu.length
  <2>1. CASE T = {}
    <3>1. Cardinality(T) = 0
      BY <2>1, FS_EmptySet
    <3> QED
      BY <1>1, <3>1
  <2>2. CASE T # {}
    <3> DEFINE k == Max(T)
    <3>1. T \in SUBSET (0 .. Size)
      BY <1>1, <1>3
    <3>2. k \in T /\ \A y \in T : y <= k
      BY <1>1, <2>2, <3>1, MaxIsGreatest
    <3> HIDE DEF k
    <3>3. k \in 1 .. Size
      BY <1>3, <3>2
    <3>4. T \in SUBSET ((1 .. k - 1) \cup {k})
      <4>1. ASSUME NEW y \in T PROVE y \in (1 .. k - 1) \cup {k}
        <5>1. y \in 1 .. Size /\ y <= k
          BY <1>3, <3>2
        <5> QED
          BY <1>1, <3>3, <5>1
      <4> QED
        BY <4>1
    <3>5. T \in Chains(cpu.array, k, k)
      BY <1>3, <3>2, <3>4 DEF Chains
    <3>6. Longest(cpu.array, k, k, cpu.help[k])
      BY <1>1, <3>3 DEF LisLength
    <3>7. cpu.help[k] <= cpu.length
      <4>1. k < Size + 1
        BY <1>1, <3>3
      <4> QED
        BY <1>1, <3>3, <4>1 DEF LisLength
    <3>8. Cardinality(T) <= cpu.help[k]
      BY <3>5, <3>6 DEF Longest
    <3>9. Cardinality(T) \in Nat /\ cpu.help[k] \in Nat
      <4>1. k \in Nat
        BY <1>1, <3>3
      <4> QED
        BY <3>5, <3>6, <4>1, ChainsFinite, LongestIsNat
    <3> QED
      BY <1>1, <3>7, <3>8, <3>9
  <2> QED
    BY <2>1, <2>2
<1>7. \E T \in sets : Cardinality(T) = cpu.length
  <2>1. CASE cpu.length = 0
    <3>1. {} \in sets
      BY <1>4 DEF Rising
    <3> QED
      BY <2>1, <3>1, FS_EmptySet
  <2>2. CASE \E k \in 1 .. Size : cpu.help[k] = cpu.length
    <3>1. PICK k \in 1 .. Size : cpu.help[k] = cpu.length
      BY <2>2
    <3>2. Longest(cpu.array, k, k, cpu.help[k])
      BY <1>1 DEF LisLength
    <3>3. PICK S \in Chains(cpu.array, k, k) : Cardinality(S) = cpu.length
      BY <3>1, <3>2 DEF Longest
    <3>4. (1 .. k - 1) \cup {k} \subseteq 1 .. Size
      BY <1>1
    <3>5. S \in SUBSET (1 .. Size) /\ Rising(cpu.array, S)
      BY <3>4 DEF Chains
    <3> QED
      BY <1>4, <3>3, <3>5
  <2> QED
    BY <1>1, <2>1, <2>2 DEF LisLength
<1>8. lengths \in SUBSET (0 .. Size) /\ cpu.length \in lengths
      /\ \A n \in lengths : n <= cpu.length
  <2>1. \A T \in sets : Cardinality(T) \in 0 .. Size
    BY <1>3, <1>5
  <2> QED
    BY <1>6, <1>7, <2>1
<1> HIDE DEF lengths
<1>9. Max(lengths) \in lengths /\ \A y \in lengths : y <= Max(lengths)
  BY <1>1, <1>8, MaxIsGreatest
<1>10. Max(lengths) = cpu.length
  <2>1. Max(lengths) \in 0 .. Size
    BY <1>8, <1>9
  <2> HIDE DEF lengths
  <2> QED
    BY <1>1, <1>8, <1>9, <2>1
<1> QED
  BY <1>10 DEF LongestIncreasing, lengths, sets

----------------------------------------------------------------------------
(* All of them *)

\* The calls and their steps; liveness is not needed for what they compute.
MachineSpec == MachineInit /\ [][MachineNext]_cpu

\* Each program keeps the invariant of its own.
MachineInv == MemcpyInv \/ DotInv \/ LisInv \/ AddInv \/ ClassifyInv

\* An invariant says whose it is.
LEMMA ProgramOf ==
  /\ MemcpyInv => cpu.prog = "memcpy"
  /\ DotInv => cpu.prog = "dot"
  /\ LisInv => cpu.prog = "lis"
  /\ AddInv => cpu.prog = "add"
  /\ ClassifyInv => cpu.prog = "classify"
<1>1. MemcpyInv => cpu.prog = "memcpy"
  BY DEF MemcpyInv, MemcpyTypeOK
<1>2. DotInv => cpu.prog = "dot"
  BY DEF DotInv, DotTypeOK, DotStates
<1>3. LisInv => cpu.prog = "lis"
  BY DEF LisInv, LisStates
<1>4. AddInv => cpu.prog = "add"
  BY DEF AddInv
<1>5. ClassifyInv => cpu.prog = "classify"
  BY DEF ClassifyInv
<1> QED
  BY <1>1, <1>2, <1>3, <1>4, <1>5

\* Every call begins in the invariant of its program.
LEMMA MachineInvInit == MachineInit => MachineInv
  BY MemcpyInit, DotInvInit, LisInvInit, AddInvInit, ClassifyInvInit DEF MachineInit, MachineInv

\* Every step is one of the program called.
LEMMA MachineInvNext == MachineInv /\ [MachineNext]_cpu => MachineInv'
<1> SUFFICES ASSUME MachineInv, [MachineNext]_cpu PROVE MachineInv'
  OBVIOUS
<1>1. CASE CopyBlock \/ CopyRest \/ CopyByte \/ CopyReturns
  <2>1. cpu.prog = "memcpy"
    BY <1>1 DEF CopyBlock, CopyRest, CopyByte, CopyReturns, Place
  <2>2. MemcpyInv
    BY <2>1, ProgramOf DEF MachineInv
  <2> QED
    BY <1>1, <2>2, CopyBlockKeeps, CopyRestKeeps, CopyByteKeeps, CopyReturnsKeeps DEF MachineInv
<1>2. CASE MulAddEight \/ MulAddOne \/ AddLanes
  <2>1. cpu.prog = "dot"
    BY <1>2 DEF MulAddEight, MulAddOne, AddLanes, Place
  <2>2. DotInv
    BY <2>1, ProgramOf DEF MachineInv
  <2> QED
    BY <1>2, <2>2, MulAddEightKeeps, MulAddOneKeeps, AddLanesKeeps DEF MachineInv
<1>3. CASE InitLoop \/ InnerLoop \/ IncreaseI \/ OuterEnds \/ FindLength \/ LisReturns
  <2>1. cpu.prog = "lis"
    BY <1>3 DEF InitLoop, InnerLoop, IncreaseI, OuterEnds, FindLength, LisReturns, Place
  <2>2. LisInv
    BY <2>1, ProgramOf DEF MachineInv
  <2> QED
    BY <1>3, <2>2, InitLoopKeeps, InnerLoopKeeps, IncreaseIKeeps, OuterEndsKeeps,
       FindLengthKeeps, LisReturnsKeeps DEF MachineInv
<1>4. CASE add \/ add_scanf
  <2>1. cpu.prog = "add"
    BY <1>4 DEF add, add_scanf, Place
  <2>2. AddInv
    BY <2>1, ProgramOf DEF MachineInv
  <2> QED
    BY <1>4, <2>2, AddInvNext DEF MachineInv, AddNext
<1>5. CASE classify
  <2>1. cpu.prog = "classify"
    BY <1>5 DEF classify, Place
  <2>2. ClassifyInv
    BY <2>1, ProgramOf DEF MachineInv
  <2> QED
    BY <1>5, <2>2, ClassifyInvNext DEF MachineInv
<1>6. CASE UNCHANGED cpu
  <2>1. MemcpyInv => MemcpyInv'
    BY <1>6 DEF MemcpyInv, MemcpyTypeOK, MemcpyRegisters, MemcpyCopied
  <2>2. DotInv => DotInv'
    BY <1>6 DEF DotInv, DotTypeOK, Products, ScalarProduct
  <2>3. LisInv => LisInv'
    BY <1>6 DEF LisInv, LisHelp, LisLength, Size
  <2>4. AddInv => AddInv'
    BY <1>6 DEF AddInv
  <2>5. ClassifyInv => ClassifyInv'
    BY <1>6 DEF ClassifyInv
  <2> QED
    BY <2>1, <2>2, <2>3, <2>4, <2>5 DEF MachineInv
<1> QED
  BY <1>1, <1>2, <1>3, <1>4, <1>5, <1>6 DEF MachineNext

\* Where a program is done its invariant says that it is right.
LEMMA MachineInvMeans == MachineInv => MachineCodeRight
<1> SUFFICES ASSUME MachineInv, cpu.pc = "done" PROVE MachineCodeRight
  BY DEF MachineCodeRight
<1>1. CASE MemcpyInv
  <2>1. cpu.prog = "memcpy"
    BY <1>1, ProgramOf
  <2> QED
    BY <1>1, <2>1, MemcpyRight DEF MachineCodeRight
<1>2. CASE DotInv
  <2>1. cpu.prog = "dot"
    BY <1>2, ProgramOf
  <2> QED
    BY <1>2, <2>1, DotRight DEF MachineCodeRight
<1>3. CASE LisInv
  <2>1. cpu.prog = "lis"
    BY <1>3, ProgramOf
  <2> QED
    BY <1>3, <2>1, LisRight DEF MachineCodeRight
<1>4. CASE AddInv
  <2>1. cpu.prog = "add"
    BY <1>4, ProgramOf
  <2> QED
    BY <1>4, <2>1, AddRight DEF MachineCodeRight
<1>5. CASE ClassifyInv
  <2>1. cpu.prog = "classify"
    BY <1>5, ProgramOf
  <2> QED
    BY <1>5, <2>1, ClassifyRight DEF MachineCodeRight
<1> QED
  BY <1>1, <1>2, <1>3, <1>4, <1>5 DEF MachineInv

\* Every call of every program keeps the invariant of that program
\* through each step of its loops.
THEOREM MachineInvariant == MachineSpec => []MachineInv
  BY MachineInvInit, MachineInvNext, PTL DEF MachineSpec

\* my_memcpy copies exactly count bytes, also counts that are negative as
\* signed numbers; dot_product returns the scalar product if its lanes are zero
\* at the call; longest_inc_subseq the length of a longest rising subsequence;
\* add the signed sum where it has room; classify the class by magnitude.
THEOREM ProgramsCompute == MachineSpec => []MachineCodeRight
  BY MachineInvariant, MachineInvMeans, PTL

----------------------------------------------------------------------------
(* utf8-file *)

\* The bits of the first of n bytes that belong to the symbol.
First(n, b) == CASE n = 1 -> b [] n = 2 -> b % 32 [] n = 3 -> b % 16
                 [] n = 4 -> b % 8 [] n = 5 -> b % 4 [] n = 6 -> b % 2

\* What the recursion over the bytes puts together.
LEMMA DecodeIs ==
  ASSUME NEW buffer, NEW n \in 1 .. 6
  PROVE  buffer \in [1 .. 6 -> Nat] /\ Announced(buffer[1]) = n =>
         \E s \in [0 .. n - 1 -> Nat] :
            /\ s[0] = First(n, buffer[1]) /\ decode_utf8(buffer) = s[n - 1]
            /\ \A i \in 1 .. n - 1 : s[i] = s[i - 1] * 64 + (buffer[i + 1] % 64)
<1>0. SUFFICES ASSUME buffer \in [1 .. 6 -> Nat], Announced(buffer[1]) = n
      PROVE  \E s \in [0 .. n - 1 -> Nat] :
                /\ s[0] = First(n, buffer[1]) /\ decode_utf8(buffer) = s[n - 1]
                /\ \A i \in 1 .. n - 1 : s[i] = s[i - 1] * 64 + (buffer[i + 1] % 64)
  OBVIOUS
<1> DEFINE first == First(n, buffer[1])
           last == n - 1
           Is(f) == f = [i \in 0 .. last |-> IF i = 0 THEN first
                                              ELSE f[i - 1] * 64 + (buffer[i + 1] % 64)]
           s == CHOOSE f : Is(f)
           G == [i \in 1 .. last |-> [v \in Nat |-> v * 64 + (buffer[i + 1] % 64)]]
<1>1. last \in Nat /\ \A i \in 0 .. last : i + 1 \in 1 .. 6 /\ buffer[i + 1] \in Nat
  BY <1>0
<1>2. first \in Nat
  <2> DEFINE b == buffer[1]
  <2>1. b \in Nat
    BY <1>1
  <2>2. b % 32 \in Nat /\ b % 16 \in Nat /\ b % 8 \in Nat /\ b % 4 \in Nat /\ b % 2 \in Nat
    <3> HIDE DEF b
    <3> QED
      BY <2>1
  <2> HIDE DEF b
  <2>3. First(n, b) \in Nat
    BY <2>1, <2>2 DEF First
  <2> QED
    BY <2>3 DEF b
<1>3. \A i \in 1 .. last : \A v \in Nat : v * 64 + (buffer[i + 1] % 64) \in Nat
  <2> TAKE i \in 1 .. last
  <2> TAKE v \in Nat
  <2> DEFINE b == buffer[i + 1]
  <2>1. b \in Nat
    BY <1>1
  <2> HIDE DEF b
  <2>2. v * 64 + (b % 64) \in Nat
    BY <2>1
  <2> QED
    BY <2>2 DEF b
<1>4. decode_utf8(buffer) = s[last]
  BY <1>0 DEF decode_utf8, First
<1>5. G \in [1 .. last -> [Nat -> Nat]] /\ first \in Nat /\ last \in Nat
  BY <1>1, <1>2, <1>3
<1>a. \A i \in 1 .. last, v \in Nat : G[i][v] = v * 64 + (buffer[i + 1] % 64)
  OBVIOUS
<1> HIDE DEF G, first, last
<1>6. PICK f \in [0 .. last -> Nat] : f[0] = first /\ \A i \in 1 .. last : f[i] = G[i][f[i - 1]]
  <2> DEFINE S == Nat
  <2>1. G \in [1 .. last -> [S -> S]] /\ first \in S /\ last \in Nat
    BY <1>5
  <2> HIDE DEF S
  <2>2. \E f \in [0 .. last -> S] : f[0] = first /\ \A i \in 1 .. last : f[i] = G[i][f[i - 1]]
    BY <2>1, RecursionHasValue, SMTT(60)
  <2> QED
    BY <2>2 DEF S
<1>7. \A i \in 1 .. last : f[i] = f[i - 1] * 64 + (buffer[i + 1] % 64)
  <2> TAKE i \in 1 .. last
  <2>1. i - 1 \in 0 .. last
    BY <1>1
  <2>2. f[i - 1] \in Nat /\ f[i] = G[i][f[i - 1]]
    BY <2>1, <1>6
  <2> QED
    BY <2>2, <1>a
<1>8. Is(f)
  <2>1. ASSUME NEW i \in 0 .. last
        PROVE  f[i] = IF i = 0 THEN first ELSE f[i - 1] * 64 + (buffer[i + 1] % 64)
    <3>1. CASE i = 0
      BY <3>1, <1>6
    <3>2. CASE i # 0
      <4>1. i \in 1 .. last
        BY <3>2, <1>1
      <4> QED
        BY <3>2, <4>1, <1>7
    <3> QED
      BY <3>1, <3>2
  <2> QED
    BY <2>1, <1>6
<1>9. Is(s)
  <2> HIDE DEF Is
  <2> QED
    BY <1>8
<1> HIDE DEF s
\* Two recursions over the same have the same values.
<1>10. \A i \in 0 .. last : s[i] = f[i]
  <2> DEFINE P == {i \in 0 .. last : s[i] = f[i]}
  <2>1. 0 \in P
    BY <1>1, <1>6, <1>9
  <2>2. ASSUME NEW i \in 0 .. last - 1, i \in P PROVE i + 1 \in P
    <3>1. i + 1 \in 0 .. last /\ i + 1 # 0 /\ i + 1 \in 1 .. last /\ (i + 1) - 1 = i
      BY <1>1
    <3>2. s[i + 1] = s[i] * 64 + (buffer[(i + 1) + 1] % 64)
      BY <1>9, <3>1
    <3>3. f[i + 1] = f[i] * 64 + (buffer[(i + 1) + 1] % 64)
      BY <1>7, <3>1
    <3> QED
      BY <2>2, <3>1, <3>2, <3>3
  <2> HIDE DEF P
  <2>3. \A i \in 0 .. last : i \in P
    BY <1>1, <2>1, <2>2, StepByStep
  <2> QED
    BY <2>3 DEF P
<1>11. last \in 0 .. last
  BY <1>1
<1> QED
  BY <1>4, <1>6, <1>7, <1>10, <1>11 DEF first, last

Sixes == <<1, 64, 4096, 262144, 16777216, 1073741824>>
\* The values the first of n bytes may add to its lead.
Upper == <<128, 32, 16, 8, 4, 2>>

\* The powers of 64 up to six bytes.
LEMMA PowersOf64 ==
  \A k \in 0 .. 5 : 64 ^ k = Sixes[k + 1] /\ 64 ^ k \in Nat \ {0}
<1>1. /\ 64 ^ 0 = 1 /\ 64 ^ 1 = 64 /\ 64 ^ 2 = 4096 /\ 64 ^ 3 = 262144
      /\ 64 ^ 4 = 16777216 /\ 64 ^ 5 = 1073741824
  OBVIOUS
<1> TAKE k \in 0 .. 5
<1>2. k = 0 \/ k = 1 \/ k = 2 \/ k = 3 \/ k = 4 \/ k = 5
  OBVIOUS
<1>3. CASE k = 0
  BY <1>1, <1>3 DEF Sixes
<1>4. CASE k = 1
  BY <1>1, <1>4 DEF Sixes
<1>5. CASE k = 2
  BY <1>1, <1>5 DEF Sixes
<1>6. CASE k = 3
  BY <1>1, <1>6 DEF Sixes
<1>7. CASE k = 4
  BY <1>1, <1>7 DEF Sixes
<1>8. CASE k = 5
  BY <1>1, <1>8 DEF Sixes
<1> QED
  BY <1>2, <1>3, <1>4, <1>5, <1>6, <1>7, <1>8

\* Six bits more of a number.
LEMMA NextSixBits ==
  ASSUME NEW s \in Nat, NEW k \in 0 .. 4
  PROVE  /\ s \div 64 ^ k \in Nat
         /\ (s \div 64 ^ (k + 1)) * 64 + ((s \div 64 ^ k) % 64) = s \div 64 ^ k
<1>0. k \in 0 .. 5 /\ k + 1 \in 0 .. 5
  OBVIOUS
<1>1. 64 ^ k \in Nat \ {0} /\ 64 ^ (k + 1) = 64 * 64 ^ k
  <2>1. Sixes[(k + 1) + 1] = 64 * Sixes[k + 1]
    <3>1. k = 0 \/ k = 1 \/ k = 2 \/ k = 3 \/ k = 4
      OBVIOUS
    <3>2. CASE k = 0
      BY <3>2 DEF Sixes
    <3>3. CASE k = 1
      BY <3>3 DEF Sixes
    <3>4. CASE k = 2
      BY <3>4 DEF Sixes
    <3>5. CASE k = 3
      BY <3>5 DEF Sixes
    <3>6. CASE k = 4
      BY <3>6 DEF Sixes
    <3> QED
      BY <3>1, <3>2, <3>3, <3>4, <3>5, <3>6
  <2>2. 64 ^ k = Sixes[k + 1] /\ 64 ^ (k + 1) = Sixes[(k + 1) + 1] /\ 64 ^ k \in Nat \ {0}
    BY <1>0, PowersOf64
  <2> QED
    BY <2>1, <2>2
<1> DEFINE d == 64 ^ k
           c == 64
           q == s \div d
<1>2. s \div 64 ^ (k + 1) = q \div c /\ q \in Nat
  <2>1. 64 ^ (k + 1) = c * d /\ d \in Nat \ {0} /\ c \in Nat \ {0}
    BY <1>1
  <2> HIDE DEF d, c
  <2>2. s \div (c * d) = (s \div d) \div c
    BY <2>1, DivideTwice
  <2>3. s \div d \in Nat
    BY <2>1, DivisionIs
  <2> QED
    BY <2>1, <2>2, <2>3
<1> HIDE DEF q
<1>3. q = (q \div 64) * 64 + (q % 64)
  BY <1>2, DivisionIs
<1> QED
  BY <1>2, <1>3 DEF q, c, d

\* The bytes of a symbol.
LEMMA BytesAre ==
  ASSUME NEW s \in Nat, NEW n \in 1 .. 6
  PROVE  /\ Bytes(s, n) \in Seq(Nat) /\ Len(Bytes(s, n)) = n
         /\ Bytes(s, n)[1] = Lead[n] + (s \div 64 ^ (n - 1))
         /\ \A i \in 2 .. n : Bytes(s, n)[i] = 128 + ((s \div 64 ^ (n - i)) % 64)
<1>1. \A i \in 1 .. n : s \div 64 ^ (n - i) \in Nat
  <2> TAKE i \in 1 .. n
  <2>1. n - i \in 0 .. 5
    OBVIOUS
  <2> DEFINE d == 64 ^ (n - i)
  <2>2. d \in Nat \ {0}
    BY <2>1, PowersOf64
  <2> HIDE DEF d
  <2>3. s \div d \in Nat
    BY <2>2, DivisionIs
  <2> QED
    BY <2>3 DEF d
<1>2. Lead[n] \in Nat
  BY DEF Lead
<1> DEFINE q == [i \in 1 .. n |-> s \div 64 ^ (n - i)]
           bytes == [i \in 1 .. n |-> IF i = 1 THEN Lead[n] + q[1] ELSE 128 + (q[i] % 64)]
<1>3. \A i \in 1 .. n : q[i] \in Nat /\ q[i] = s \div 64 ^ (n - i)
  BY <1>1
<1>4. Bytes(s, n) = bytes
  BY <1>3 DEF Bytes
<1>5. q[1] = s \div 64 ^ (n - 1) /\ 1 \in 1 .. n
  OBVIOUS
<1> HIDE DEF q
<1>6. \A i \in 1 .. n : 128 + (q[i] % 64) \in Nat /\ Lead[n] + q[1] \in Nat
  <2> TAKE i \in 1 .. n
  <2> DEFINE a == q[i]
             b == q[1]
             l == Lead[n]
  <2>1. a \in Nat /\ b \in Nat /\ l \in Nat
    BY <1>2, <1>3, <1>5
  <2> HIDE DEF a, b, l
  <2>2. 128 + (a % 64) \in Nat /\ l + b \in Nat
    BY <2>1
  <2> QED
    BY <2>2 DEF a, b, l
<1>7. bytes \in [1 .. n -> Nat]
  BY <1>6
<1>8. bytes \in Seq(Nat) /\ Len(bytes) = n
  <2>1. n \in Nat
    OBVIOUS
  <2> HIDE DEF bytes
  <2> QED
    BY <1>7, <2>1, SeqOfLength
<1>9. /\ bytes[1] = Lead[n] + q[1] /\ \A i \in 2 .. n : bytes[i] = 128 + (q[i] % 64)
  <2>1. \A i \in 2 .. n : i # 1 /\ i \in 1 .. n
    OBVIOUS
  <2> QED
    BY <1>5, <2>1
<1> HIDE DEF bytes
<1>10. \A i \in 2 .. n : q[i] = s \div 64 ^ (n - i)
  <2>1. \A i \in 2 .. n : i \in 1 .. n
    OBVIOUS
  <2> QED
    BY <1>3, <2>1
<1> QED
  BY <1>4, <1>5, <1>8, <1>9, <1>10

\* Numbers that n bytes hold.
Holds(s, n) == s < IF n = 6 THEN 2147483648 ELSE Capacity[n]

\* What the first byte tells.
LEMMA FirstTells ==
  ASSUME NEW n \in 1 .. 6, NEW x \in 0 .. Upper[n] - 1, n > 1 \/ x < 64
  PROVE  /\ Announced(Lead[n] + x) = n /\ Taken(Lead[n] + x) = n
         /\ First(n, Lead[n] + x) = x
<1>1. n = 1 \/ n = 2 \/ n = 3 \/ n = 4 \/ n = 5 \/ n = 6
  OBVIOUS
<1>2. CASE n = 1
  <2>1. x \in 0 .. 63 /\ Lead[n] + x = x /\ x % 128 = x
    BY <1>2 DEF Upper, Lead
  <2> QED
    BY <1>2, <2>1 DEF Announced, Taken, First
<1>3. CASE n = 2
  <2>1. x \in 0 .. 31 /\ Lead[n] + x = 192 + x /\ (192 + x) % 32 = x
        /\ (192 + x) % 128 = 64 + x
    BY <1>3 DEF Upper, Lead
  <2> QED
    BY <1>3, <2>1 DEF Announced, Taken, First
<1>4. CASE n = 3
  <2>1. x \in 0 .. 15 /\ Lead[n] + x = 224 + x /\ (224 + x) % 16 = x
        /\ (224 + x) % 128 = 96 + x
    BY <1>4 DEF Upper, Lead
  <2> QED
    BY <1>4, <2>1 DEF Announced, Taken, First
<1>5. CASE n = 4
  <2>1. x \in 0 .. 7 /\ Lead[n] + x = 240 + x /\ (240 + x) % 8 = x
        /\ (240 + x) % 128 = 112 + x
    BY <1>5 DEF Upper, Lead
  <2> QED
    BY <1>5, <2>1 DEF Announced, Taken, First
<1>6. CASE n = 5
  <2>1. x \in 0 .. 3 /\ Lead[n] + x = 248 + x /\ (248 + x) % 4 = x
        /\ (248 + x) % 128 = 120 + x
    BY <1>6 DEF Upper, Lead
  <2> QED
    BY <1>6, <2>1 DEF Announced, Taken, First
<1>7. CASE n = 6
  <2>1. x \in 0 .. 1 /\ Lead[n] + x = 252 + x /\ (252 + x) % 2 = x
        /\ (252 + x) % 128 = 124 + x
    BY <1>7 DEF Upper, Lead
  <2> QED
    BY <1>7, <2>1 DEF Announced, Taken, First
<1> QED
  BY <1>1, <1>2, <1>3, <1>4, <1>5, <1>6, <1>7

\* What the first byte has to hold of a symbol fits beside its lead.
LEMMA UpperBits ==
  ASSUME NEW s \in Nat, NEW n \in 1 .. 6, Holds(s, n)
  PROVE  s \div 64 ^ (n - 1) \in 0 .. Upper[n] - 1
<1>0. n - 1 \in 0 .. 5 /\ n - 1 + 1 = n
  OBVIOUS
<1>1. n = 1 \/ n = 2 \/ n = 3 \/ n = 4 \/ n = 5 \/ n = 6
  OBVIOUS
<1>2. 64 ^ (n - 1) = Sixes[n]
  BY <1>0, PowersOf64
<1>3. s \div Sixes[n] \in 0 .. Upper[n] - 1
  <2>1. CASE n = 1
    BY <2>1 DEF Upper, Sixes, Holds, Capacity
  <2>2. CASE n = 2
    BY <2>2 DEF Upper, Sixes, Holds, Capacity
  <2>3. CASE n = 3
    BY <2>3 DEF Upper, Sixes, Holds, Capacity
  <2>4. CASE n = 4
    BY <2>4 DEF Upper, Sixes, Holds, Capacity
  <2>5. CASE n = 5
    BY <2>5 DEF Upper, Sixes, Holds, Capacity
  <2>6. CASE n = 6
    BY <2>6 DEF Upper, Sixes, Holds, Capacity
  <2> QED
    BY <1>1, <2>1, <2>2, <2>3, <2>4, <2>5, <2>6
<1> QED
  BY <1>2, <1>3

\* decode_utf8 finds the symbol that the bytes are of, however many they are.
LEMMA DecodesBytes ==
  ASSUME NEW s \in Nat, NEW n \in 1 .. 6, Holds(s, n),
         NEW buffer \in [1 .. 6 -> Nat], \A i \in 1 .. n : buffer[i] = Bytes(s, n)[i]
  PROVE  (n > 1 \/ s < 64) =>
         /\ Announced(buffer[1]) = n /\ Taken(buffer[1]) = n
         /\ decode_utf8(buffer) = s
<1> SUFFICES ASSUME n > 1 \/ s < 64
             PROVE  /\ Announced(buffer[1]) = n /\ Taken(buffer[1]) = n
                    /\ decode_utf8(buffer) = s
  OBVIOUS
<1> DEFINE last == n - 1
           q(i) == s \div 64 ^ (last - i)
<1>0. last \in 0 .. 5 /\ last \in Nat /\ n = last + 1
  OBVIOUS
<1>1. buffer[1] = Lead[n] + (s \div 64 ^ (n - 1))
      /\ \A i \in 2 .. n : buffer[i] = 128 + ((s \div 64 ^ (n - i)) % 64)
  <2>1. 1 \in 1 .. n /\ \A i \in 2 .. n : i \in 1 .. n
    OBVIOUS
  <2>2. /\ Bytes(s, n)[1] = Lead[n] + (s \div 64 ^ (n - 1))
        /\ \A i \in 2 .. n : Bytes(s, n)[i] = 128 + ((s \div 64 ^ (n - i)) % 64)
    BY BytesAre
  <2>3. buffer[1] = Lead[n] + (s \div 64 ^ (n - 1))
    BY <2>1, <2>2
  <2>4. ASSUME NEW i \in 2 .. n PROVE buffer[i] = 128 + ((s \div 64 ^ (n - i)) % 64)
    <3>1. buffer[i] = Bytes(s, n)[i]
      BY <2>1
    <3> QED
      BY <2>2, <3>1
  <2> QED
    BY <2>3, <2>4
<1>2. /\ Announced(buffer[1]) = n /\ Taken(buffer[1]) = n
      /\ First(n, buffer[1]) = s \div 64 ^ (n - 1)
  <2> DEFINE x == s \div 64 ^ (n - 1)
  <2>1. x \in 0 .. Upper[n] - 1
    BY UpperBits
  <2>2. buffer[1] = Lead[n] + x
    BY <1>1
  <2>3. n > 1 \/ x < 64
    <3>1. n = 1 => 64 ^ (n - 1) = 1
      BY <1>0, PowersOf64 DEF Sixes
    <3>2. n = 1 => x = s
      BY <3>1
    <3> HIDE DEF x
    <3> QED
      BY <3>2
  <2> HIDE DEF x
  <2>4. Announced(Lead[n] + x) = n /\ Taken(Lead[n] + x) = n /\ First(n, Lead[n] + x) = x
    BY <2>1, <2>3, FirstTells
  <2> QED
    BY <2>2, <2>4 DEF x
<1>3. PICK f \in [0 .. last -> Nat] :
         /\ f[0] = First(n, buffer[1]) /\ decode_utf8(buffer) = f[last]
         /\ \A i \in 1 .. last : f[i] = f[i - 1] * 64 + (buffer[i + 1] % 64)
  BY <1>2, DecodeIs
<1> DEFINE P == {i \in 0 .. last : f[i] = q(i)}
<1>4. 0 \in P
  <2>1. last - 0 = n - 1
    OBVIOUS
  <2> QED
    BY <1>0, <1>2, <1>3, <2>1
<1>5. ASSUME NEW i \in 0 .. last - 1, i \in P PROVE i + 1 \in P
  <2> DEFINE k == last - (i + 1)
  <2>1. /\ k \in 0 .. 4 /\ last - i = k + 1 /\ i + 1 \in 1 .. last /\ (i + 1) - 1 = i
        /\ i + 1 \in 0 .. last /\ i + 2 \in 2 .. n /\ n - (i + 2) = k /\ (i + 1) + 1 = i + 2
    BY <1>0
  <2>2. buffer[i + 2] = 128 + ((s \div 64 ^ k) % 64)
    <3> DEFINE j == i + 2
    <3>1. j \in 2 .. n /\ n - j = k
      BY <2>1
    <3> HIDE DEF j, k
    <3>2. buffer[j] = 128 + ((s \div 64 ^ (n - j)) % 64)
      BY <1>1, <3>1
    <3> QED
      BY <3>1, <3>2 DEF j
  <2>3. f[i + 1] = f[i] * 64 + (buffer[i + 2] % 64)
    BY <1>3, <2>1
  <2>4. f[i] = s \div 64 ^ (k + 1)
    BY <1>5, <2>1
  <2>5. /\ s \div 64 ^ k \in Nat
        /\ (s \div 64 ^ (k + 1)) * 64 + ((s \div 64 ^ k) % 64) = s \div 64 ^ k
    BY <2>1, NextSixBits
  <2> DEFINE r == s \div 64 ^ k
             h == s \div 64 ^ (k + 1)
             b == buffer[i + 2]
  <2>6. r \in Nat /\ h * 64 + (r % 64) = r /\ b = 128 + (r % 64)
    BY <2>2, <2>5
  <2> HIDE DEF k, r, h, b
  <2>7. b % 64 = r % 64
    BY <2>6
  <2>8. f[i + 1] = r
    BY <2>3, <2>4, <2>6, <2>7 DEF h, b
  <2> QED
    BY <2>1, <2>8 DEF r, k
<1> HIDE DEF P
<1>6. \A i \in 0 .. last : i \in P
  <2>1. 0 \in Nat /\ \A i \in 0 .. last - 1 : i \in P => i + 1 \in P
    BY <1>5
  <2> QED
    BY <1>0, <1>4, <2>1, StepByStep
<1>7. f[last] = q(last)
  <2>1. last \in 0 .. last
    BY <1>0
  <2> QED
    BY <1>6, <2>1 DEF P
<1>8. q(last) = s
  <2>1. last - last = 0 /\ 64 ^ 0 = 1
    BY <1>0
  <2> QED
    BY <2>1
<1> QED
  BY <1>2, <1>3, <1>7, <1>8

\* The shortest form of a symbol of Unicode, as the limits of encode_utf8 say.
LEMMA ShortestIs ==
  ASSUME NEW s \in Nat
  PROVE  /\ Shortest(s) \in 1 .. 6
         /\ Shortest(s) < 6 => s < Capacity[Shortest(s)]
         /\ \A n \in 1 .. 5 : s < Capacity[n] => Shortest(s) <= n
<1> DEFINE X == {n \in 1 .. 5 : s < Capacity[n]} \cup {6}
<1>1. X \in SUBSET Nat /\ X # {} /\ \A n \in X : n \in 1 .. 6
  OBVIOUS
<1>2. Shortest(s) = Min(X)
  BY DEF Shortest
<1>3. \A n \in 1 .. 5 : n \in X <=> s < Capacity[n]
  OBVIOUS
<1> HIDE DEF X
<1>4. Min(X) \in X /\ \A y \in X : Min(X) <= y
  BY <1>1, MinIsLeast
<1>5. Min(X) \in 1 .. 6
  BY <1>1, <1>4
<1>6. ASSUME Min(X) < 6 PROVE s < Capacity[Min(X)]
  <2>1. Min(X) \in 1 .. 5
    BY <1>5, <1>6
  <2> QED
    BY <1>3, <1>4, <2>1
<1> QED
  BY <1>2, <1>3, <1>4, <1>5, <1>6

\* Every form that Start gives a symbol of Unicode holds it.
LEMMA WidthHolds ==
  ASSUME NEW s \in Nat, s <= 1114111, NEW n \in Widths(s)
  PROVE  n \in 1 .. 6 /\ Holds(s, n)
<1>1. s \in Nat /\ Shortest(s) \in 1 .. 6 /\ n \in Shortest(s) .. 6
  BY ShortestIs DEF Widths
<1> DEFINE m == Shortest(s)
<1>2. m < 6 => s < Capacity[m]
  BY <1>1, ShortestIs
<1> HIDE DEF m
<1>3. m \in 1 .. 6 /\ n \in m .. 6
  BY <1>1 DEF m
<1>4. n \in 1 .. 6
  BY <1>3
<1>5. CASE n = 6
  <2>1. s < 2147483648
    BY SMT
  <2> QED
    BY <1>5, <2>1, SMT DEF Holds
<1>6. CASE n # 6
  <2>1. m \in 1 .. 5 /\ n \in 1 .. 5 /\ m <= n /\ m < 6
    BY <1>3, <1>6
  <2>2. \A a, b \in 1 .. 5 : a <= b => Capacity[a] <= Capacity[b] /\ Capacity[a] \in Nat
                                       /\ Capacity[b] \in Nat
    BY DEF Capacity
  <2>3. s < Capacity[m] /\ Capacity[m] <= Capacity[n] /\ Capacity[m] \in Nat /\ Capacity[n] \in Nat
    BY <1>2, <2>1, <2>2
  <2>4. s < Capacity[n]
    BY <1>1, <2>3
  <2> QED
    BY <1>4, <1>6, <2>1, <2>4, SMT DEF Holds
<1> QED
  BY <1>4, <1>5, <1>6

\* Six bits of a symbol, by shifts or by powers of 64.
LEMMA LowBits ==
  ASSUME NEW s \in Nat
  PROVE  /\ \A shift \in Nat : Low6(s, shift) \in Nat
         /\ Low6(s, 0) = (s \div 64 ^ 0) % 64 /\ Low6(s, 6) = (s \div 64 ^ 1) % 64
         /\ Low6(s, 12) = (s \div 64 ^ 2) % 64
<1>1. /\ 2 ^ 0 = 1 /\ 2 ^ 6 = 64 /\ 2 ^ 12 = 4096
      /\ 64 ^ 0 = 1 /\ 64 ^ 1 = 64 /\ 64 ^ 2 = 4096
  OBVIOUS
<1>2. ASSUME NEW shift \in Nat PROVE Low6(s, shift) \in Nat
  <2> DEFINE d == 2 ^ shift
  <2>1. d \in Nat \ {0}
    BY PowerStep
  <2> HIDE DEF d
  <2>2. s \div d \in Nat
    BY <2>1, DivisionIs
  <2> DEFINE q == s \div d
  <2>3. q \in Nat
    BY <2>2
  <2> HIDE DEF q
  <2>4. q % 64 \in Nat
    BY <2>3
  <2> QED
    BY <2>4 DEF Low6, q, d
<1>3. /\ Low6(s, 0) = (s \div 2 ^ 0) % 64 /\ Low6(s, 6) = (s \div 2 ^ 6) % 64
      /\ Low6(s, 12) = (s \div 2 ^ 12) % 64
  BY DEF Low6
<1> QED
  BY <1>1, <1>2, <1>3

\* The value of a CASE with five arms that exclude each other.
LEMMA FiveForms ==
  ASSUME NEW p1 \in BOOLEAN, NEW p2 \in BOOLEAN, NEW p3 \in BOOLEAN, NEW p4 \in BOOLEAN,
         NEW p5 \in BOOLEAN, NEW a, NEW b, NEW c, NEW d, NEW e,
         NEW f, f = CASE p1 -> a [] p2 -> b [] p3 -> c [] p4 -> d [] p5 -> e,
         p1 => ~p2 /\ ~p3 /\ ~p4 /\ ~p5, p2 => ~p3 /\ ~p4 /\ ~p5,
         p3 => ~p4 /\ ~p5, p4 => ~p5
  PROVE  (p1 => f = a) /\ (p2 => f = b) /\ (p3 => f = c) /\ (p4 => f = d) /\ (p5 => f = e)
OBVIOUS

\* The five forms of encode_utf8.
LEMMA EncodeForms ==
  ASSUME NEW s \in Nat
  PROVE  /\ s <= 127 => encode_utf8(s) = <<s>>
         /\ s > 127 /\ s <= 2047 => encode_utf8(s) = <<192 + s \div 64, 128 + Low6(s, 0)>>
         /\ s > 2047 /\ s <= 65535 => encode_utf8(s) =
               <<224 + s \div 2 ^ 12, 128 + Low6(s, 6), 128 + Low6(s, 0)>>
         /\ s > 65535 /\ s <= 1114111 => encode_utf8(s) =
               <<240 + s \div 2 ^ 18, 128 + Low6(s, 12), 128 + Low6(s, 6), 128 + Low6(s, 0)>>
         /\ s > 1114111 => encode_utf8(s) =
               <<248 + ((s \div 2 ^ 24) % 8), 128 + Low6(s, 18), 128 + Low6(s, 12),
                 128 + Low6(s, 6), 128 + Low6(s, 0)>>
<1> DEFINE a == <<s>>
           b == <<192 + s \div 64, 128 + Low6(s, 0)>>
           c == <<224 + s \div 2 ^ 12, 128 + Low6(s, 6), 128 + Low6(s, 0)>>
           d == <<240 + s \div 2 ^ 18, 128 + Low6(s, 12), 128 + Low6(s, 6), 128 + Low6(s, 0)>>
           e == <<248 + ((s \div 2 ^ 24) % 8), 128 + Low6(s, 18), 128 + Low6(s, 12),
                  128 + Low6(s, 6), 128 + Low6(s, 0)>>
           f == encode_utf8(s)
           p1 == s <= 127
           p2 == s > 127 /\ s <= 2047
           p3 == s > 2047 /\ s <= 65535
           p4 == s > 65535 /\ s <= 1114111
           p5 == s > 1114111
<1>1. f = CASE p1 -> a [] p2 -> b [] p3 -> c [] p4 -> d [] p5 -> e
  BY SMT DEF encode_utf8
<1>2. /\ p1 => ~p2 /\ ~p3 /\ ~p4 /\ ~p5
      /\ p2 => ~p3 /\ ~p4 /\ ~p5
      /\ p3 => ~p4 /\ ~p5
      /\ p4 => ~p5
  BY SMT
<1>3. /\ p1 \in BOOLEAN /\ p2 \in BOOLEAN /\ p3 \in BOOLEAN /\ p4 \in BOOLEAN
      /\ p5 \in BOOLEAN
  BY SMT
<1>4. /\ s <= 127 => p1
      /\ s > 127 /\ s <= 2047 => p2
      /\ s > 2047 /\ s <= 65535 => p3
      /\ s > 65535 /\ s <= 1114111 => p4
      /\ s > 1114111 => p5
  BY SMT
<1> HIDE DEF a, b, c, d, e, f, p1, p2, p3, p4, p5
<1>5. (p1 => f = a) /\ (p2 => f = b) /\ (p3 => f = c) /\ (p4 => f = d) /\ (p5 => f = e)
  BY ONLY <1>1, <1>2, <1>3, FiveForms
<1>6. /\ s <= 127 => f = a
      /\ s > 127 /\ s <= 2047 => f = b
      /\ s > 2047 /\ s <= 65535 => f = c
      /\ s > 65535 /\ s <= 1114111 => f = d
      /\ s > 1114111 => f = e
  BY <1>4, <1>5, SMT
<1> QED
  BY <1>6, SMT DEF a, b, c, d, e, f

\* encode_utf8 writes at least one byte.
LEMMA EncodeTyped ==
  ASSUME NEW s \in Nat
  PROVE  encode_utf8(s) \in Seq(Nat) /\ Len(encode_utf8(s)) >= 1
<1> DEFINE a == s \div 64
           b == s \div 2 ^ 12
           c == s \div 2 ^ 18
           d == s \div 2 ^ 24
           l(k) == Low6(s, k)
           f == encode_utf8(s)
<1>1. \A k \in Nat : l(k) \in Nat
  BY LowBits
<1>2. a \in Nat /\ b \in Nat /\ c \in Nat /\ d \in Nat
  <2>1. \A k \in Nat : 2 ^ k \in Nat \ {0}
    BY PowerStep
  <2>2. \A x \in Nat \ {0} : s \div x \in Nat
    BY DivisionIs
  <2>3. s \div 64 \in Nat /\ \A k \in Nat : s \div 2 ^ k \in Nat
    BY <2>1, <2>2
  <2> QED
    BY <2>3
<1>3. \/ f = <<s>>
      \/ f = <<192 + a, 128 + l(0)>>
      \/ f = <<224 + b, 128 + l(6), 128 + l(0)>>
      \/ f = <<240 + c, 128 + l(12), 128 + l(6), 128 + l(0)>>
      \/ f = <<248 + (d % 8), 128 + l(18), 128 + l(12), 128 + l(6), 128 + l(0)>>
  <2>1. s <= 127 \/ (s > 127 /\ s <= 2047) \/ (s > 2047 /\ s <= 65535)
        \/ (s > 65535 /\ s <= 1114111) \/ s > 1114111
    BY SMT
  <2> QED
    BY <2>1, EncodeForms, SMT
<1>4. l(0) \in Nat /\ l(6) \in Nat /\ l(12) \in Nat /\ l(18) \in Nat /\ d % 8 \in Nat
  <2>1. l(0) \in Nat /\ l(6) \in Nat /\ l(12) \in Nat /\ l(18) \in Nat
    BY <1>1
  <2> HIDE DEF d
  <2>2. d % 8 \in Nat
    BY <1>2
  <2> QED
    BY <2>1, <2>2
<1> SUFFICES f \in Seq(Nat) /\ Len(f) >= 1
  OBVIOUS
<1> DEFINE l0 == 128 + l(0)
           l6 == 128 + l(6)
           l12 == 128 + l(12)
           l18 == 128 + l(18)
           a1 == 192 + a
           b1 == 224 + b
           c1 == 240 + c
           d1 == 248 + (d % 8)
<1> HIDE DEF a, b, c, d, l, f
<1>5. /\ l0 \in Nat /\ l6 \in Nat /\ l12 \in Nat /\ l18 \in Nat
      /\ a1 \in Nat /\ b1 \in Nat /\ c1 \in Nat /\ d1 \in Nat
  BY <1>2, <1>4
<1> HIDE DEF l0, l6, l12, l18, a1, b1, c1, d1
<1>6. \/ f = <<s>> \/ f = <<a1, l0>> \/ f = <<b1, l6, l0>>
      \/ f = <<c1, l12, l6, l0>> \/ f = <<d1, l18, l12, l6, l0>>
  BY <1>3 DEF l0, l6, l12, l18, a1, b1, c1, d1
<1>7. CASE f = <<s>>
  BY <1>7
<1>8. CASE f = <<a1, l0>>
  BY <1>5, <1>8
<1>9. CASE f = <<b1, l6, l0>>
  BY <1>5, <1>9
<1>10. CASE f = <<c1, l12, l6, l0>>
  BY <1>5, <1>10
<1>11. CASE f = <<d1, l18, l12, l6, l0>>
  BY <1>5, <1>11
<1> QED
  BY <1>6, <1>7, <1>8, <1>9, <1>10, <1>11

\* Two sequences with the same elements.
LEMMA SameSequences ==
  ASSUME NEW s \in Seq(Nat), NEW t \in Seq(Nat), Len(s) = Len(t),
         \A i \in 1 .. Len(s) : s[i] = t[i]
  PROVE  s = t
OBVIOUS

\* encode_utf8 writes the shortest form of a symbol of Unicode.

LEMMA EncodeIs ==
  ASSUME NEW s \in Nat
  PROVE  s <= 1114111 => encode_utf8(s) = Bytes(s, Shortest(s))
<1> DEFINE n == Shortest(s)
           t == Bytes(s, n)
           e == encode_utf8(s)
           q(k) == s \div 64 ^ k
<1>1. /\ n \in 1 .. 6 /\ (n < 6 => s < Capacity[n])
      /\ \A m \in 1 .. 5 : s < Capacity[m] => n <= m
  BY ShortestIs
<1>2. /\ t \in Seq(Nat) /\ Len(t) = n /\ t[1] = Lead[n] + q(n - 1)
      /\ \A i \in 2 .. n : t[i] = 128 + (q(n - i) % 64)
  <2>1. n \in 1 .. 6
    BY <1>1
  <2> HIDE DEF n
  <2>2. /\ Bytes(s, n) \in Seq(Nat) /\ Len(Bytes(s, n)) = n
        /\ Bytes(s, n)[1] = Lead[n] + (s \div 64 ^ (n - 1))
        /\ \A i \in 2 .. n : Bytes(s, n)[i] = 128 + ((s \div 64 ^ (n - i)) % 64)
    BY <2>1, BytesAre
  <2> QED
    BY <2>2
<1>3. e \in Seq(Nat)
  BY EncodeTyped
<1>4. /\ Low6(s, 0) = q(0) % 64 /\ Low6(s, 6) = q(1) % 64 /\ Low6(s, 12) = q(2) % 64
  BY LowBits
<1>5. s = q(0) /\ s \div 64 = q(1) /\ s \div 2 ^ 12 = q(2) /\ s \div 2 ^ 18 = q(3)
  <2>1. /\ 64 ^ 0 = 1 /\ 64 ^ 1 = 64 /\ 64 ^ 2 = 4096 /\ 64 ^ 3 = 262144
        /\ 2 ^ 12 = 4096 /\ 2 ^ 18 = 262144
    BY SMT
  <2>2. s \div 1 = s
    BY SMT
  <2> QED
    BY <2>1, <2>2, SMT
<1>6. CASE s <= 127
  <2>1. n = 1
    BY <1>1, <1>6, SMT DEF Capacity
  <2>2. e = <<q(0)>>
    BY <1>5, <1>6, EncodeForms, SMT
  <2> HIDE DEF n, t, e, q
  <2>3. Lead[n] = 0 /\ n - 1 = 0 /\ q(0) \in Nat
    BY <2>1, <1>5 DEF Lead
  <2>4. t[1] = q(0)
    BY <1>2, <2>3
  <2>5. e[1] = q(0) /\ Len(e) = 1
    BY <2>2
  <2>6. \A i \in 1 .. Len(e) : e[i] = t[i]
    BY <2>4, <2>5
  <2>7. e = t
    <3>1. e \in Seq(Nat) /\ t \in Seq(Nat) /\ Len(e) = Len(t)
      BY <2>5, <2>1, <1>2, <1>3
    <3> QED
      BY ONLY <3>1, <2>6, SameSequences
  <2> QED
    BY <2>7 DEF e, t, n
<1>7. CASE s > 127 /\ s <= 2047
  <2>1. n = 2
    BY <1>1, <1>7, SMT DEF Capacity
  <2>2. e = <<192 + q(1), 128 + (q(0) % 64)>>
    <3>1. e = <<192 + s \div 64, 128 + Low6(s, 0)>>
      BY <1>7, EncodeForms, SMT
    <3> QED
      BY <3>1, <1>4, <1>5
  <2> HIDE DEF n, t, e, q
  <2>3. Lead[n] = 192 /\ n - 1 = 1 /\ n - 2 = 0 /\ 2 \in 2 .. n
    BY <2>1 DEF Lead
  <2>4. t[1] = 192 + q(1) /\ t[2] = 128 + (q(0) % 64)
    BY <1>2, <2>3
  <2>5. e[1] = 192 + q(1) /\ e[2] = 128 + (q(0) % 64) /\ Len(e) = 2
    BY <2>2
  <2>6. \A i \in 1 .. Len(e) : e[i] = t[i]
    <3> TAKE i \in 1 .. Len(e)
    <3>1. i = 1 \/ i = 2
      BY <2>5
    <3> QED
      BY <3>1, <2>4, <2>5
  <2>7. e = t
    <3>1. e \in Seq(Nat) /\ t \in Seq(Nat) /\ Len(e) = Len(t)
      BY <2>5, <2>1, <1>2, <1>3
    <3> QED
      BY ONLY <3>1, <2>6, SameSequences
  <2> QED
    BY <2>7 DEF e, t, n
<1>8. CASE s > 2047 /\ s <= 65535
  <2>1. n = 3
    BY <1>1, <1>8, SMT DEF Capacity
  <2>2. e = <<224 + q(2), 128 + (q(1) % 64), 128 + (q(0) % 64)>>
    <3>1. e = <<224 + s \div 2 ^ 12, 128 + Low6(s, 6), 128 + Low6(s, 0)>>
      BY <1>8, EncodeForms, SMT
    <3> QED
      BY <3>1, <1>4, <1>5
  <2> HIDE DEF n, t, e, q
  <2>3. Lead[n] = 224 /\ n - 1 = 2 /\ n - 2 = 1 /\ n - 3 = 0 /\ 2 \in 2 .. n /\ 3 \in 2 .. n
    BY <2>1 DEF Lead
  <2>4. t[1] = 224 + q(2) /\ t[2] = 128 + (q(1) % 64) /\ t[3] = 128 + (q(0) % 64)
    BY <1>2, <2>3
  <2>5. e[1] = 224 + q(2) /\ e[2] = 128 + (q(1) % 64) /\ e[3] = 128 + (q(0) % 64) /\ Len(e) = 3
    BY <2>2
  <2>6. \A i \in 1 .. Len(e) : e[i] = t[i]
    <3> TAKE i \in 1 .. Len(e)
    <3>1. i = 1 \/ i = 2 \/ i = 3
      BY <2>5
    <3> QED
      BY <3>1, <2>4, <2>5
  <2>7. e = t
    <3>1. e \in Seq(Nat) /\ t \in Seq(Nat) /\ Len(e) = Len(t)
      BY <2>5, <2>1, <1>2, <1>3
    <3> QED
      BY ONLY <3>1, <2>6, SameSequences
  <2> QED
    BY <2>7 DEF e, t, n
<1>9. CASE s > 65535 /\ s <= 1114111
  <2>1. n = 4
    BY <1>1, <1>9, SMT DEF Capacity
  <2>2. e = <<240 + q(3), 128 + (q(2) % 64), 128 + (q(1) % 64), 128 + (q(0) % 64)>>
    <3>1. e = <<240 + s \div 2 ^ 18, 128 + Low6(s, 12), 128 + Low6(s, 6), 128 + Low6(s, 0)>>
      BY <1>9, EncodeForms, SMT
    <3> QED
      BY <3>1, <1>4, <1>5
  <2> HIDE DEF n, t, e, q
  <2>3. /\ Lead[n] = 240 /\ n - 1 = 3 /\ n - 2 = 2 /\ n - 3 = 1 /\ n - 4 = 0
        /\ 2 \in 2 .. n /\ 3 \in 2 .. n /\ 4 \in 2 .. n
    BY <2>1 DEF Lead
  <2>4. /\ t[1] = 240 + q(3) /\ t[2] = 128 + (q(2) % 64) /\ t[3] = 128 + (q(1) % 64)
        /\ t[4] = 128 + (q(0) % 64)
    BY <1>2, <2>3
  <2>5. /\ e[1] = 240 + q(3) /\ e[2] = 128 + (q(2) % 64) /\ e[3] = 128 + (q(1) % 64)
        /\ e[4] = 128 + (q(0) % 64) /\ Len(e) = 4
    BY <2>2
  <2>6. \A i \in 1 .. Len(e) : e[i] = t[i]
    <3> TAKE i \in 1 .. Len(e)
    <3>1. i = 1 \/ i = 2 \/ i = 3 \/ i = 4
      BY <2>5
    <3> QED
      BY <3>1, <2>4, <2>5
  <2>7. e = t
    <3>1. e \in Seq(Nat) /\ t \in Seq(Nat) /\ Len(e) = Len(t)
      BY <2>5, <2>1, <1>2, <1>3
    <3> QED
      BY ONLY <3>1, <2>6, SameSequences
  <2> QED
    BY <2>7 DEF e, t, n
<1> QED
  BY <1>6, <1>7, <1>8, <1>9, SMT

\* Sequences appended one after another, and put in front of a tail, the
\* last one first.
Appended(flat, seqs, n) ==
    /\ flat \in [0 .. n -> Seq(Nat)] /\ flat[0] = <<>>
    /\ \A i \in 1 .. n : flat[i] = flat[i - 1] \o seqs[i]
Prepended(rest, seqs, tail, n) ==
    /\ rest \in [0 .. n -> Seq(Nat)] /\ rest[n] = tail
    /\ \A i \in 1 .. n : rest[i - 1] = seqs[i] \o rest[i]
MakeUp(flat, rest, whole, n) ==
    rest[0] = whole /\ \A i \in 0 .. n : flat[i] \o rest[i] = whole

\* Any sequences can be appended one after another.
LEMMA PartsAppended ==
  ASSUME NEW n \in Nat, NEW seqs
  PROVE  seqs \in [1 .. n -> Seq(Nat)] => \E flat : Appended(flat, seqs, n)
<1> SUFFICES ASSUME seqs \in [1 .. n -> Seq(Nat)]
             PROVE  \E flat : Appended(flat, seqs, n)
  OBVIOUS
<1> DEFINE S == Seq(Nat)
           base == <<>>
           G == [i \in 1 .. n |-> [v \in S |-> v \o seqs[i]]]
<1>1. \A i \in 1 .. n : \A v \in S : v \o seqs[i] \in S
  OBVIOUS
<1>2. G \in [1 .. n -> [S -> S]] /\ base \in S /\ n \in Nat
  <2> HIDE DEF S
  <2>1. G \in [1 .. n -> [S -> S]]
    BY <1>1
  <2> QED
    BY <2>1 DEF S
<1>3. \A i \in 1 .. n : \A v \in S : G[i][v] = v \o seqs[i]
  OBVIOUS
<1> HIDE DEF S, G, base
<1>4. \E f \in [0 .. n -> S] : f[0] = base /\ \A i \in 1 .. n : f[i] = G[i][f[i - 1]]
  BY ONLY <1>2, RecursionHasValue, SMTT(60)
<1>5. PICK f \in [0 .. n -> S] : f[0] = base /\ \A i \in 1 .. n : f[i] = G[i][f[i - 1]]
  BY ONLY <1>4
<1>6. \A i \in 1 .. n : f[i] = f[i - 1] \o seqs[i]
  <2> TAKE i \in 1 .. n
  <2>1. i - 1 \in 0 .. n
    OBVIOUS
  <2>2. f[i - 1] \in S
    BY <2>1, <1>5
  <2> QED
    BY <2>2, <1>3, <1>5
<1> QED
  BY <1>5, <1>6 DEF S, base, Appended

\* And put in front of any tail.
LEMMA PartsPrepended ==
  ASSUME NEW n \in Nat, NEW tail, NEW seqs
  PROVE  tail \in Seq(Nat) /\ seqs \in [1 .. n -> Seq(Nat)] =>
         \E rest : Prepended(rest, seqs, tail, n)
<1> SUFFICES ASSUME tail \in Seq(Nat), seqs \in [1 .. n -> Seq(Nat)]
             PROVE  \E rest : Prepended(rest, seqs, tail, n)
  OBVIOUS
<1> DEFINE S == Seq(Nat)
           G == [i \in 1 .. n |-> [v \in S |-> seqs[(n + 1) - i] \o v]]
<1>1. \A i \in 1 .. n : \A v \in S : seqs[(n + 1) - i] \o v \in S
  <2> TAKE i \in 1 .. n
  <2>1. (n + 1) - i \in 1 .. n
    OBVIOUS
  <2>2. seqs[(n + 1) - i] \in Seq(Nat)
    BY <2>1
  <2> QED
    BY <2>2
<1>2. G \in [1 .. n -> [S -> S]] /\ tail \in S /\ n \in Nat
  <2> HIDE DEF S
  <2>1. G \in [1 .. n -> [S -> S]]
    BY <1>1
  <2> QED
    BY <2>1 DEF S
<1>3. \A i \in 1 .. n : \A v \in S : G[i][v] = seqs[(n + 1) - i] \o v
  OBVIOUS
<1> HIDE DEF S, G
<1>4. \E g \in [0 .. n -> S] : g[0] = tail /\ \A i \in 1 .. n : g[i] = G[i][g[i - 1]]
  BY ONLY <1>2, RecursionHasValue, SMTT(60)
<1>5. PICK g \in [0 .. n -> S] : g[0] = tail /\ \A i \in 1 .. n : g[i] = G[i][g[i - 1]]
  BY ONLY <1>4
<1> DEFINE rest == [i \in 0 .. n |-> g[n - i]]
<1>6. rest \in [0 .. n -> S]
  <2>1. \A i \in 0 .. n : n - i \in 0 .. n
    OBVIOUS
  <2> QED
    BY <2>1, <1>5
<1>7. rest[n] = tail
  <2>1. n \in 0 .. n /\ n - n = 0
    OBVIOUS
  <2> QED
    BY <2>1, <1>5
<1>8. \A i \in 1 .. n : rest[i - 1] = seqs[i] \o rest[i]
  <2> TAKE i \in 1 .. n
  <2> DEFINE k == (n - i) + 1
  <2>1. /\ k \in 1 .. n /\ k - 1 \in 0 .. n /\ k - 1 = n - i /\ n - (i - 1) = k
        /\ (n + 1) - k = i /\ i - 1 \in 0 .. n /\ i \in 0 .. n
    OBVIOUS
  <2>2. rest[i - 1] = g[k] /\ rest[i] = g[k - 1]
    BY <2>1
  <2> HIDE DEF k, rest
  <2>3. g[k - 1] \in S
    BY <2>1, <1>5
  <2>4. g[k] = G[k][g[k - 1]]
    BY <2>1, <1>5
  <2>5. g[k] = seqs[(n + 1) - k] \o g[k - 1]
    BY <2>1, <2>3, <2>4, <1>3
  <2> QED
    BY <2>1, <2>2, <2>5
<1> HIDE DEF rest
<1> QED
  BY <1>6, <1>7, <1>8 DEF S, Prepended

\* FlattenSeq appends the sequences.
LEMMA FlattenIs ==
  ASSUME NEW n \in Nat, NEW seqs, NEW flat
  PROVE  seqs \in [1 .. n -> Seq(Nat)] /\ Appended(flat, seqs, n) =>
         FlattenSeq(seqs) = flat[n]
<1> SUFFICES ASSUME seqs \in [1 .. n -> Seq(Nat)], flat \in [0 .. n -> Seq(Nat)],
                    flat[0] = <<>>, \A i \in 1 .. n : flat[i] = flat[i - 1] \o seqs[i]
             PROVE  FlattenSeq(seqs) = flat[n]
  BY DEF Appended
<1>1. seqs \in Seq(Seq(Nat)) /\ Len(seqs) = n
  BY SeqOfLength
<1>2. CASE n = 0
  <2>1. seqs = <<>>
    BY <1>1, <1>2
  <2> QED
    BY <2>1, <1>1, <1>2 DEF FlattenSeq
<1>3. CASE n # 0
  <2> DEFINE Is(f) == f = [i \in 1 .. n |-> IF i = 1 THEN seqs[i] ELSE f[i - 1] \o seqs[i]]
             s == CHOOSE f : Is(f)
             g == [i \in 1 .. n |-> flat[i]]
  <2>1. FlattenSeq(seqs) = s[n]
    BY <1>1, <1>3 DEF FlattenSeq
  <2>2. Is(g)
    <3>1. ASSUME NEW i \in 1 .. n
          PROVE  g[i] = IF i = 1 THEN seqs[i] ELSE g[i - 1] \o seqs[i]
      <4>1. flat[i] = flat[i - 1] \o seqs[i] /\ seqs[i] \in Seq(Nat)
        OBVIOUS
      <4>2. CASE i = 1
        <5>1. flat[i - 1] = <<>>
          BY <4>2
        <5>2. <<>> \o seqs[i] = seqs[i]
          BY <4>1, ConcatEmptySeq
        <5> QED
          BY <5>1, <5>2, <4>1, <4>2
      <4>3. CASE i # 1
        <5>1. i - 1 \in 1 .. n
          BY <4>3
        <5> QED
          BY <5>1, <4>1, <4>3
      <4> QED
        BY <4>2, <4>3
    <3> QED
      BY <3>1
  <2>3. Is(s)
    <3> HIDE DEF Is
    <3> QED
      BY <2>2
  <2> HIDE DEF s
  <2>4. \A i \in 1 .. n : s[i] = IF i = 1 THEN seqs[i] ELSE s[i - 1] \o seqs[i]
    BY <2>3
  <2>5. \A i \in 1 .. n : g[i] = IF i = 1 THEN seqs[i] ELSE g[i - 1] \o seqs[i]
    <3> HIDE DEF g
    <3> QED
      BY <2>2
  <2> HIDE DEF Is
  <2> DEFINE P == {i \in 1 .. n : s[i] = g[i]}
  <2>6. 1 \in P
    <3>1. 1 \in 1 .. n
      BY <1>3
    <3> HIDE DEF g
    <3> QED
      BY <3>1, <2>4, <2>5
  <2>7. ASSUME NEW i \in 1 .. n - 1, i \in P PROVE i + 1 \in P
    <3>1. i + 1 \in 1 .. n /\ i + 1 # 1 /\ (i + 1) - 1 = i
      OBVIOUS
    <3>2. s[i] = g[i]
      BY <2>7
    <3> HIDE DEF g
    <3>3. s[i + 1] = s[i] \o seqs[i + 1]
      BY <3>1, <2>4
    <3>4. g[i + 1] = g[i] \o seqs[i + 1]
      BY <3>1, <2>5
    <3> QED
      BY <3>1, <3>2, <3>3, <3>4
  <2> HIDE DEF P
  <2>8. \A i \in 1 .. n : i \in P
    <3>1. 1 \in Nat /\ \A i \in 1 .. n - 1 : i \in P => i + 1 \in P
      BY <2>7
    <3> QED
      BY <2>6, <3>1, StepByStep
  <2>9. n \in 1 .. n
    BY <1>3
  <2>10. s[n] = g[n]
    BY <2>8, <2>9 DEF P
  <2> QED
    BY <2>1, <2>9, <2>10
<1> QED
  BY <1>2, <1>3

\* What is appended and what is left make up the whole.
LEMMA PartsMakeTheWhole ==
  ASSUME NEW n \in Nat, NEW tail, NEW seqs, NEW flat, NEW rest
  PROVE  /\ tail \in Seq(Nat) /\ seqs \in [1 .. n -> Seq(Nat)]
         /\ Appended(flat, seqs, n) /\ Prepended(rest, seqs, tail, n)
         => MakeUp(flat, rest, flat[n] \o tail, n)
<1> SUFFICES ASSUME tail \in Seq(Nat), seqs \in [1 .. n -> Seq(Nat)],
                    flat \in [0 .. n -> Seq(Nat)], rest \in [0 .. n -> Seq(Nat)],
                    flat[0] = <<>>, \A i \in 1 .. n : flat[i] = flat[i - 1] \o seqs[i],
                    rest[n] = tail, \A i \in 1 .. n : rest[i - 1] = seqs[i] \o rest[i]
             PROVE  MakeUp(flat, rest, flat[n] \o tail, n)
  BY DEF Appended, Prepended
<1> DEFINE P == {i \in 0 .. n : flat[i] \o rest[i] = rest[0]}
<1>1. 0 \in P
  <2>1. 0 \in 0 .. n /\ rest[0] \in Seq(Nat)
    OBVIOUS
  <2>2. <<>> \o rest[0] = rest[0]
    BY <2>1, ConcatEmptySeq
  <2> QED
    BY <2>1, <2>2
<1>2. ASSUME NEW i \in 0 .. n - 1, i \in P PROVE i + 1 \in P
  <2> DEFINE j == i + 1
  <2>1. j \in 1 .. n /\ j \in 0 .. n /\ j - 1 = i /\ i \in 0 .. n
    OBVIOUS
  <2> HIDE DEF j
  <2>2. flat[j] = flat[i] \o seqs[j] /\ rest[i] = seqs[j] \o rest[j]
    BY <2>1
  <2>3. flat[i] \in Seq(Nat) /\ seqs[j] \in Seq(Nat) /\ rest[j] \in Seq(Nat)
    BY <2>1
  <2>4. (flat[i] \o seqs[j]) \o rest[j] = flat[i] \o (seqs[j] \o rest[j])
    <3> DEFINE S == Nat
               a == flat[i]
               b == seqs[j]
               c == rest[j]
    <3>1. a \in Seq(S) /\ b \in Seq(S) /\ c \in Seq(S)
      BY <2>3
    <3> HIDE DEF S, a, b, c
    <3>2. (a \o b) \o c = a \o (b \o c)
      BY ONLY <3>1, ConcatAssociative, SMTT(60)
    <3> QED
      BY <3>2 DEF a, b, c
  <2>5. flat[i] \o rest[i] = rest[0]
    BY <1>2
  <2>6. flat[j] \o rest[j] = rest[0]
    BY ONLY <2>2, <2>4, <2>5
  <2>7. j \in P
    BY <2>1, <2>6
  <2> QED
    BY <2>7 DEF j
<1>3. \A i \in 0 .. n : i \in P
  <2> HIDE DEF P
  <2>1. 0 \in Nat /\ \A i \in 0 .. n - 1 : i \in P => i + 1 \in P
    BY <1>2
  <2> QED
    BY <1>1, <2>1, StepByStep
<1>4. \A i \in 0 .. n : flat[i] \o rest[i] = rest[0]
  BY <1>3
<1>5. n \in 0 .. n
  OBVIOUS
<1> QED
  BY <1>4, <1>5 DEF MakeUp

\* What is left to read before each symbol.
Input(text, width, tail, rest) ==
    /\ rest \in [0 .. Len(text) -> Seq(Nat)] /\ rest[Len(text)] = tail
    /\ tail \in {<<>>} \cup {<<b>> : b \in Invalid} \cup Cut
    /\ \A i \in 1 .. Len(text) :
          width[i] \in Widths(text[i]) /\ rest[i - 1] = Bytes(text[i], width[i]) \o rest[i]

\* What is to be written up to each symbol, and what after it.
Output(text, done, left) ==
    /\ done \in [0 .. Len(text) -> Seq(Nat)] /\ left \in [0 .. Len(text) -> Seq(Nat)]
    /\ done[0] = <<>> /\ done[Len(text)] = Right(text)
    /\ \A i \in 1 .. Len(text) : done[i] = done[i - 1] \o encode_utf8(text[i])
    /\ \A i \in 0 .. Len(text) : done[i] \o left[i] = Right(text)
    /\ \A i \in 1 .. Len(text) : left[i - 1] = encode_utf8(text[i]) \o left[i]

Unicode(text) == \A i \in DOMAIN text : text[i] <= 1114111

\* The file that Start makes is what is left to read before the first symbol.
LEMMA InputExists ==
  ASSUME NEW text \in Seq(Nat), NEW width, NEW tail \in Seq(Nat),
         tail \in {<<>>} \cup {<<b>> : b \in Invalid} \cup Cut
  PROVE  /\ width \in [1 .. Len(text) -> 1 .. 6]
         /\ \A i \in 1 .. Len(text) : width[i] \in Widths(text[i])
         => /\ FlattenSeq([i \in 1 .. Len(text) |-> Bytes(text[i], width[i])]) \o tail \in Seq(Nat)
            /\ \E rest : /\ Input(text, width, tail, rest)
                         /\ FlattenSeq([i \in 1 .. Len(text) |-> Bytes(text[i], width[i])]) \o tail
                            = rest[0]
<1> DEFINE n == Len(text)
           seqs == [i \in 1 .. n |-> Bytes(text[i], width[i])]
<1> SUFFICES ASSUME width \in [1 .. n -> 1 .. 6], \A i \in 1 .. n : width[i] \in Widths(text[i])
             PROVE  /\ FlattenSeq(seqs) \o tail \in Seq(Nat)
                    /\ \E rest : Input(text, width, tail, rest) /\ FlattenSeq(seqs) \o tail = rest[0]
  OBVIOUS
<1>1. n \in Nat /\ \A i \in 1 .. n : text[i] \in Nat /\ width[i] \in 1 .. 6
  <2>1. n \in Nat /\ \A i \in 1 .. n : text[i] \in Nat
    OBVIOUS
  <2> HIDE DEF n
  <2>2. \A i \in 1 .. n : width[i] \in 1 .. 6
    OBVIOUS
  <2> QED
    BY <2>1, <2>2
<1>2. \A i \in 1 .. n : Bytes(text[i], width[i]) \in Seq(Nat)
  <2> TAKE i \in 1 .. n
  <2> DEFINE s == text[i]
             k == width[i]
  <2>1. s \in Nat /\ k \in 1 .. 6
    BY <1>1
  <2> HIDE DEF s, k
  <2>2. Bytes(s, k) \in Seq(Nat)
    BY <2>1, BytesAre
  <2> QED
    BY <2>2 DEF s, k
<1>3. \A i \in 1 .. n : seqs[i] = Bytes(text[i], width[i])
  OBVIOUS
<1>4. seqs \in [1 .. n -> Seq(Nat)]
  BY <1>2
<1> HIDE DEF seqs
<1>5. PICK rest : Prepended(rest, seqs, tail, n)
  <2> HIDE DEF n
  <2>1. tail \in Seq(Nat) /\ n \in Nat
    BY <1>1
  <2> QED
    BY ONLY <2>1, PartsPrepended, <1>4
<1>6. PICK flat : Appended(flat, seqs, n)
  <2> HIDE DEF n
  <2> QED
    BY <1>1, <1>4, PartsAppended
<1>7. FlattenSeq(seqs) = flat[n] /\ rest[0] = flat[n] \o tail
  <2> HIDE DEF n
  <2>1. FlattenSeq(seqs) = flat[n]
    BY <1>1, <1>4, <1>6, FlattenIs
  <2>2. MakeUp(flat, rest, flat[n] \o tail, n)
    <3>1. tail \in Seq(Nat) /\ n \in Nat
      BY <1>1
    <3> QED
      BY ONLY <3>1, <1>5, <1>6, <1>4, PartsMakeTheWhole
  <2> QED
    BY <2>1, <2>2 DEF MakeUp
<1>8. rest[0] \in Seq(Nat)
  <2> HIDE DEF n
  <2>1. 0 \in 0 .. n
    BY <1>1
  <2> QED
    BY <2>1, <1>5 DEF Prepended
<1>9. Input(text, width, tail, rest)
  <2>1. \A i \in 1 .. n :
           width[i] \in Widths(text[i]) /\ rest[i - 1] = Bytes(text[i], width[i]) \o rest[i]
    BY <1>3, <1>5 DEF Prepended
  <2> QED
    BY <2>1, <1>5 DEF Input, Prepended
<1> QED
  BY <1>7, <1>8, <1>9

\* The right output of a text of Unicode, symbol by symbol.
LEMMA OutputExists ==
  ASSUME NEW text \in Seq(Nat)
  PROVE  Unicode(text) => \E done, left : Output(text, done, left)
<1> DEFINE n == Len(text)
           seqs == [i \in 1 .. n |-> Bytes(text[i], Shortest(text[i]))]
<1> SUFFICES ASSUME Unicode(text) PROVE \E done, left : Output(text, done, left)
  OBVIOUS
<1>1. n \in Nat /\ DOMAIN text = 1 .. n /\ \A i \in 1 .. n : text[i] \in Nat
  OBVIOUS
<1>2. \A i \in 1 .. n : seqs[i] \in Seq(Nat) /\ seqs[i] = encode_utf8(text[i])
  <2> TAKE i \in 1 .. n
  <2> DEFINE s == text[i]
  <2>1. s \in Nat /\ seqs[i] = Bytes(s, Shortest(s))
    BY <1>1
  <2>2. s <= 1114111
    BY <1>1, SMT DEF Unicode
  <2> HIDE DEF s, seqs
  <2>3. encode_utf8(s) = Bytes(s, Shortest(s))
    BY <2>1, <2>2, EncodeIs, SMT
  <2>4. encode_utf8(s) \in Seq(Nat)
    BY <2>1, EncodeTyped, SMT
  <2> QED
    BY <2>1, <2>3, <2>4, SMT DEF s
<1>3. seqs \in [1 .. n -> Seq(Nat)]
  <2>1. \A i \in 1 .. n : Bytes(text[i], Shortest(text[i])) \in Seq(Nat)
    BY <1>2
  <2> QED
    BY <2>1
<1>4. Right(text) = FlattenSeq(seqs)
  BY <1>1 DEF Right
<1> HIDE DEF seqs
<1> DEFINE tail == <<>>
<1>5. tail \in Seq(Nat)
  OBVIOUS
<1> HIDE DEF tail
<1>6. PICK left : Prepended(left, seqs, tail, n)
  <2> HIDE DEF n
  <2>1. tail \in Seq(Nat) /\ n \in Nat
    BY <1>1, <1>5
  <2> QED
    BY ONLY <2>1, PartsPrepended, <1>3
<1>7. PICK done : Appended(done, seqs, n)
  <2> HIDE DEF n
  <2> QED
    BY <1>1, <1>3, PartsAppended
<1>8. FlattenSeq(seqs) = done[n] /\ \A i \in 0 .. n : done[i] \o left[i] = done[n] \o tail
  <2> HIDE DEF n
  <2>1. FlattenSeq(seqs) = done[n]
    BY <1>1, <1>3, <1>7, FlattenIs
  <2>2. MakeUp(done, left, done[n] \o tail, n)
    <3>1. tail \in Seq(Nat) /\ n \in Nat
      BY <1>1, <1>5
    <3> QED
      BY ONLY <3>1, <1>6, <1>7, <1>3, PartsMakeTheWhole
  <2> QED
    BY <2>1, <2>2 DEF MakeUp
<1>9. done[n] \in Seq(Nat)
  BY <1>1, <1>7 DEF Appended
<1>10. done[n] \o tail = done[n]
  BY <1>9, ConcatEmptySeq DEF tail
<1>11. /\ \A i \in 1 .. n : done[i] = done[i - 1] \o encode_utf8(text[i])
       /\ \A i \in 1 .. n : left[i - 1] = encode_utf8(text[i]) \o left[i]
  BY <1>2, <1>6, <1>7 DEF Appended, Prepended
<1>12. Output(text, done, left)
  BY <1>4, <1>6, <1>7, <1>8, <1>10, <1>11 DEF Output, Appended, Prepended
<1> QED
  BY <1>12

\* What ReadSymbol takes from the file, and the buffer then.
Chunk(file) == Min({Taken(file[1]), Len(file)})
Filled(file, old) == [i \in 1 .. 6 |-> IF i <= Chunk(file) THEN file[i] ELSE old[i]]

\* The lesser of two lengths.
LEMMA MinOfTwo ==
  ASSUME NEW a \in Nat, NEW b \in Nat
  PROVE  Min({a, b}) = IF a <= b THEN a ELSE b
<1> DEFINE X == {a, b}
<1>1. X \in SUBSET Nat /\ X # {} /\ a \in X /\ b \in X /\ \A x \in X : x = a \/ x = b
  OBVIOUS
<1> HIDE DEF X
<1>2. Min(X) \in X /\ \A y \in X : Min(X) <= y
  BY <1>1, MinIsLeast
<1>3. Min(X) = a \/ Min(X) = b
  BY <1>1, <1>2
<1>4. Min(X) <= a /\ Min(X) <= b
  BY <1>1, <1>2
<1>5. Min(X) = IF a <= b THEN a ELSE b
  BY <1>3, <1>4
<1> QED
  BY <1>5 DEF X

\* A first byte announces one to six bytes, or is refused.
LEMMA FirstByte ==
  ASSUME NEW b \in Nat
  PROVE  /\ Announced(b) = -1 \/ Announced(b) \in 1 .. 6
         /\ Taken(b) \in 1 .. 6
<1>1. Announced(b) = -1 \/ Announced(b) \in 1 .. 6
  BY DEF Announced
<1>2. Taken(b) \in 1 .. 6
  <2> DEFINE low == b % 128
  <2>1. low \in 0 .. 127
    OBVIOUS
  <2> HIDE DEF low
  <2>2. (CASE low < 64 -> 1 [] low \in 64 .. 95 -> 2 [] low \in 96 .. 111 -> 3
           [] low \in 112 .. 119 -> 4 [] low \in 120 .. 123 -> 5 [] low > 123 -> 6) \in 1 .. 6
    BY <2>1
  <2> QED
    BY <2>2 DEF Taken, low
<1> QED
  BY <1>1, <1>2

\* A byte that starts no sequence is refused.
LEMMA InvalidByte ==
  ASSUME NEW b \in Invalid
  PROVE  b \in Nat /\ Announced(b) = -1
<1>1. b \in 128 .. 191 \/ b = 254 \/ b = 255
  BY Utf8Assumption
<1> QED
  BY <1>1 DEF Announced

\* Reading stays within the file and the buffer.
LEMMA ReadTyped ==
  ASSUME NEW file \in Seq(Nat), file # <<>>, NEW old
  PROVE  old \in [1 .. 6 -> Nat] =>
         /\ Chunk(file) \in 1 .. Len(file) /\ Chunk(file) <= Taken(file[1])
         /\ Chunk(file) < Taken(file[1]) => Chunk(file) = Len(file)
         /\ Filled(file, old) \in [1 .. 6 -> Nat] /\ Filled(file, old)[1] = file[1]
         /\ SubSeq(file, Chunk(file) + 1, Len(file)) \in Seq(Nat)
         /\ Announced(Filled(file, old)[1]) # -1 => decode_utf8(Filled(file, old)) \in Nat
<1>0. SUFFICES ASSUME old \in [1 .. 6 -> Nat]
      PROVE  /\ Chunk(file) \in 1 .. Len(file) /\ Chunk(file) <= Taken(file[1])
             /\ Chunk(file) < Taken(file[1]) => Chunk(file) = Len(file)
             /\ Filled(file, old) \in [1 .. 6 -> Nat] /\ Filled(file, old)[1] = file[1]
             /\ SubSeq(file, Chunk(file) + 1, Len(file)) \in Seq(Nat)
             /\ Announced(Filled(file, old)[1]) # -1 => decode_utf8(Filled(file, old)) \in Nat
  OBVIOUS
<1> DEFINE n == Len(file)
           b == file[1]
           k == Chunk(file)
           buffer == Filled(file, old)
<1>1. n \in Nat \ {0} /\ b \in Nat /\ \A i \in 1 .. n : file[i] \in Nat
  OBVIOUS
<1>2. Taken(b) \in 1 .. 6
  BY <1>1, FirstByte
<1>3. k = IF Taken(b) <= n THEN Taken(b) ELSE n
  <2> DEFINE t == Taken(b)
  <2>1. t \in Nat /\ n \in Nat
    BY <1>1, <1>2
  <2> HIDE DEF t, n
  <2>2. Min({t, n}) = IF t <= n THEN t ELSE n
    BY <2>1, MinOfTwo
  <2> QED
    BY <2>2 DEF t, n, Chunk
<1>4. k \in 1 .. n /\ k <= Taken(b) /\ (k < Taken(b) => k = n)
  <2> DEFINE t == Taken(b)
  <2>1. t \in 1 .. 6 /\ k = IF t <= n THEN t ELSE n
    BY <1>2, <1>3
  <2> HIDE DEF t, n, k
  <2>2. k \in 1 .. n /\ k <= t /\ (k < t => k = n)
    BY <2>1, <1>1
  <2> QED
    BY <2>2 DEF t
<1>5. \A i \in 1 .. 6 : buffer[i] = IF i <= k THEN file[i] ELSE old[i]
  BY DEF Filled
<1>6. buffer \in [1 .. 6 -> Nat]
  <2>1. ASSUME NEW i \in 1 .. 6 PROVE (IF i <= k THEN file[i] ELSE old[i]) \in Nat
    <3>1. old[i] \in Nat
      BY <1>0
    <3>2. i <= k => i \in 1 .. n
      <4> HIDE DEF k, n
      <4> QED
        BY <1>4, <1>1
    <3> QED
      BY <3>1, <3>2, <1>1
  <2> QED
    BY <2>1 DEF Filled
<1>7. buffer[1] = b
  <2>1. 1 \in 1 .. 6 /\ 1 <= k
    <3> HIDE DEF k, n
    <3> QED
      BY <1>4, <1>1
  <2> QED
    BY <2>1, <1>5
<1>8. SubSeq(file, k + 1, n) \in Seq(Nat)
  <2> HIDE DEF k
  <2>1. k + 1 \in 1 .. n + 1
    BY <1>4, <1>1
  <2> QED
    BY <2>1, <1>1, SubSeqProperties
<1>9. ASSUME Announced(buffer[1]) # -1 PROVE decode_utf8(buffer) \in Nat
  <2> DEFINE m == Announced(buffer[1])
             last == m - 1
  <2>1. m \in 1 .. 6
    BY <1>1, <1>7, <1>9, FirstByte
  <2> HIDE DEF buffer
  <2>2. Announced(buffer[1]) = m
    OBVIOUS
  <2> HIDE DEF m
  <2>3. \E s \in [0 .. m - 1 -> Nat] :
            /\ s[0] = First(m, buffer[1]) /\ decode_utf8(buffer) = s[m - 1]
            /\ \A i \in 1 .. m - 1 : s[i] = s[i - 1] * 64 + (buffer[i + 1] % 64)
    BY <2>1, <2>2, <1>6, DecodeIs
  <2>4. PICK s \in [0 .. m - 1 -> Nat] : decode_utf8(buffer) = s[m - 1]
    BY <2>3
  <2>5. m - 1 \in 0 .. m - 1
    BY <2>1
  <2> QED
    BY <2>4, <2>5
<1> QED
  BY <1>4, <1>6, <1>7, <1>8, <1>9

\* A symbol at the front of the file is read whole.
LEMMA ReadWhole ==
  ASSUME NEW s \in Nat, NEW n \in 1 .. 6, Holds(s, n), NEW old, NEW after \in Seq(Nat),
         NEW file, file = Bytes(s, n) \o after
  PROVE  (n > 1 \/ s < 64) /\ old \in [1 .. 6 -> Nat] =>
         /\ file \in Seq(Nat) /\ file # <<>> /\ Announced(file[1]) = n
         /\ SubSeq(file, Chunk(file) + 1, Len(file)) = after
         /\ decode_utf8(Filled(file, old)) = s
<1>0. SUFFICES ASSUME n > 1 \/ s < 64, old \in [1 .. 6 -> Nat]
      PROVE  /\ file \in Seq(Nat) /\ file # <<>> /\ Announced(file[1]) = n
             /\ SubSeq(file, Chunk(file) + 1, Len(file)) = after
             /\ decode_utf8(Filled(file, old)) = s
  OBVIOUS
<1> DEFINE bytes == Bytes(s, n)
           buffer == Filled(file, old)
           k == Chunk(file)
<1>1. bytes \in Seq(Nat) /\ Len(bytes) = n
  BY BytesAre
<1>2. file \in Seq(Nat) /\ Len(file) = n + Len(after) /\ \A i \in 1 .. n : file[i] = bytes[i]
  <2> HIDE DEF bytes
  <2>1. file = bytes \o after
    BY DEF bytes
  <2> QED
    BY <1>1, <2>1, ConcatProperties
<1>3. Len(after) \in Nat
  OBVIOUS
<1> HIDE DEF bytes, buffer, k
<1>4. file # <<>> /\ 1 \in 1 .. n
  BY <1>2, <1>3
<1>5. /\ k \in 1 .. Len(file) /\ k <= Taken(file[1]) /\ (k < Taken(file[1]) => k = Len(file))
      /\ buffer \in [1 .. 6 -> Nat] /\ buffer[1] = file[1]
  BY <1>0, <1>2, <1>4, ReadTyped DEF buffer, k
\* The length of the sequence does not depend on the buffer.
<1>6. Announced(file[1]) = n /\ Taken(file[1]) = n
  <2> DEFINE other == [i \in 1 .. 6 |-> IF i <= n THEN file[i] ELSE 0]
  <2>1. other \in [1 .. 6 -> Nat] /\ \A i \in 1 .. n : other[i] = bytes[i]
    <3>1. \A i \in 1 .. n : i \in 1 .. 6 /\ i <= n
      OBVIOUS
    <3>2. \A i \in 1 .. 6 : i <= n => i \in 1 .. n
      OBVIOUS
    <3>3. \A i \in 1 .. n : bytes[i] \in Nat
      BY <1>1
    <3>4. \A i \in 1 .. 6 : (IF i <= n THEN file[i] ELSE 0) \in Nat
      BY <3>2, <3>3, <1>2
    <3> QED
      BY <3>1, <3>4, <1>2
  <2>2. other[1] = file[1]
    BY <1>4
  <2> HIDE DEF other
  <2>3. Announced(other[1]) = n /\ Taken(other[1]) = n
    BY <1>0, <2>1, DecodesBytes DEF bytes
  <2> QED
    BY <2>2, <2>3
<1>7. k = n
  <2> DEFINE t == Taken(file[1])
             l == Len(file)
             m == Len(after)
  <2>1. t = n /\ l = n + m /\ k \in 1 .. l /\ k <= t /\ (k < t => k = l) /\ m \in Nat
    BY <1>2, <1>3, <1>5, <1>6
  <2> HIDE DEF t, l, m
  <2> QED
    BY <2>1
<1>8. \A i \in 1 .. n : buffer[i] = bytes[i]
  <2>1. \A i \in 1 .. n : i \in 1 .. 6 /\ i <= k
    BY <1>7
  <2>2. \A i \in 1 .. 6 : i <= k => buffer[i] = file[i]
    BY DEF Filled, buffer, k
  <2> QED
    BY <2>1, <2>2, <1>2
<1>9. decode_utf8(buffer) = s
  BY <1>0, <1>5, <1>8, DecodesBytes DEF bytes
<1>10. SubSeq(file, n + 1, Len(file)) = after
  <2>1. file = bytes \o after
    BY DEF bytes
  <2>2. SubSeq(bytes \o after, Len(bytes) + 1, Len(bytes \o after)) = after
    BY <1>1, SubSeqOfConcat2
  <2> QED
    BY <2>1, <2>2, <1>1
<1> QED
  BY <1>2, <1>4, <1>6, <1>7, <1>9, <1>10 DEF k, buffer

\* The symbols read are those of the text from w + 1 on, and the rest of
\* them is in the file; beyond the text a cut sequence gives a symbol.
Reading(file, symbols, text, tail, rest, w) ==
    /\ w \in Nat
    /\ \A i \in 1 .. Len(symbols) : w + i <= Len(text) => symbols[i] = text[w + i]
    /\ w + Len(symbols) <= Len(text) => file = rest[w + Len(symbols)]
    /\ w + Len(symbols) > Len(text) => tail \in Cut

\* v symbols have been written, or as much as there was space for.
Written(out, room, text, tail, done, v) ==
    /\ v \in Nat /\ Len(out) <= room
    /\ \/ v <= Len(text) /\ out = done[v]
       \/ /\ v > Len(text) /\ tail \in Cut
          /\ \E u \in Seq(Nat) : out = Right(text) \o u
       \/ /\ Len(out) = room
          /\ \E u \in Seq(Nat) : out \o u = Right(text)

\* A sequence is a prefix of itself with more behind.
LEMMA PrefixIs ==
  ASSUME NEW s \in Seq(Nat), NEW u \in Seq(Nat)
  PROVE  IsPrefix(s, s \o u)
<1>1. s \o u \in Seq(Nat) /\ Len(s \o u) = Len(s) + Len(u) /\ Len(s) \in Nat /\ Len(u) \in Nat
  BY ConcatProperties
<1>2. SubSeq(s, 1, Len(s)) = SubSeq(s \o u, 1, Len(s))
  <2>1. CASE Len(s) = 0
    <3>1. s = <<>>
      BY <2>1
    <3> QED
      BY <1>1, <3>1, <2>1
  <2>2. CASE Len(s) # 0
    <3>1. 1 \in 1 .. Len(s) /\ Len(s) \in 1 .. Len(s)
      BY <2>2, <1>1
    <3> QED
      BY <3>1, SubSeqOfConcat1
  <2> QED
    BY <2>1, <2>2
<1> QED
  BY <1>1, <1>2 DEF IsPrefix

\* What the property says of a file written so far.
LEMMA WrittenIsRight ==
  ASSUME NEW text \in Seq(Nat), NEW tail, NEW done, NEW left, NEW out \in Seq(Nat), NEW room \in Nat, NEW v
  PROVE  Output(text, done, left) /\ Written(out, room, text, tail, done, v) =>
         /\ IsPrefix(out, Right(text)) \/ (tail \in Cut /\ IsPrefix(Right(text), out))
         /\ v >= Len(text) /\ Len(out) < room => IsPrefix(Right(text), out)
<1> DEFINE n == Len(text)
           right == Right(text)
<1> SUFFICES ASSUME Output(text, done, left), Written(out, room, text, tail, done, v)
             PROVE  /\ IsPrefix(out, right) \/ (tail \in Cut /\ IsPrefix(right, out))
                    /\ v >= n /\ Len(out) < room => IsPrefix(right, out)
  OBVIOUS
<1>1. n \in Nat
  OBVIOUS
<1>2. /\ done \in [0 .. n -> Seq(Nat)] /\ left \in [0 .. n -> Seq(Nat)] /\ done[n] = right
      /\ \A i \in 0 .. n : done[i] \o left[i] = right
  BY DEF Output
<1>3. /\ v \in Nat
      /\ \/ v <= n /\ out = done[v]
         \/ v > n /\ tail \in Cut /\ \E u \in Seq(Nat) : out = right \o u
         \/ Len(out) = room /\ \E u \in Seq(Nat) : out \o u = right
  BY DEF Written
<1> HIDE DEF n, right
<1>4. right \in Seq(Nat)
  <2>1. n \in 0 .. n
    BY <1>1
  <2> QED
    BY <2>1, <1>2
<1>5. IsPrefix(right, right)
  <2>1. <<>> \in Seq(Nat) /\ right \o <<>> = right
    BY <1>4, ConcatEmptySeq
  <2> QED
    BY <2>1, <1>4, PrefixIs
<1>6. CASE v <= n /\ out = done[v]
  <2>1. v \in 0 .. n
    BY <1>1, <1>3, <1>6
  <2>2. done[v] \in Seq(Nat) /\ left[v] \in Seq(Nat) /\ done[v] \o left[v] = right
    BY <2>1, <1>2
  <2>3. IsPrefix(out, right)
    BY <2>2, <1>6, PrefixIs
  <2>4. v >= n => out = right
    <3>1. v >= n => v = n
      BY <1>6, <1>3, <1>1
    <3> QED
      BY <3>1, <1>2, <1>6
  <2> QED
    BY <2>3, <2>4, <1>5
<1>7. CASE v > n /\ tail \in Cut /\ \E u \in Seq(Nat) : out = right \o u
  BY <1>4, <1>7, PrefixIs
<1>8. CASE Len(out) = room /\ \E u \in Seq(Nat) : out \o u = right
  <2>1. PICK u \in Seq(Nat) : out \o u = right
    BY <1>8
  <2>2. IsPrefix(out, out \o u)
    BY PrefixIs
  <2>3. ~ (Len(out) < room)
    BY <1>8
  <2> QED
    BY <2>1, <2>2, <2>3
<1> QED
  BY <1>3, <1>6, <1>7, <1>8

\* When nothing is left to read all symbols of the text have been written.
LEMMA EndOfFile ==
  ASSUME NEW text \in Seq(Nat), NEW width, NEW tail, NEW rest, NEW w
  PROVE  Separate(text, width) /\ Input(text, width, tail, rest) /\ Reading(<<>>, <<>>, text, tail, rest, w) =>
         w >= Len(text)
<1> DEFINE n == Len(text)
           j == w + 1
           s == text[j]
<1> SUFFICES ASSUME Separate(text, width), Input(text, width, tail, rest),
                    Reading(<<>>, <<>>, text, tail, rest, w), w < n
             PROVE  FALSE
  <2>1. (w \in Nat /\ n \in Nat) \/ ~ Reading(<<>>, <<>>, text, tail, rest, w)
    BY DEF Reading
  <2> QED
    BY <2>1
<1>1. w \in Nat /\ rest[w] = <<>>
  <2>1. Len(<<>>) = 0 /\ w \in Nat /\ n \in Nat
    BY DEF Reading
  <2>2. w + 0 = w /\ w <= n
    BY <2>1
  <2> QED
    BY <2>1, <2>2 DEF Reading
<1>2. j \in 1 .. n /\ j - 1 = w /\ j \in 0 .. n
  BY <1>1
<1>3. s \in Nat
  BY <1>2
<1> DEFINE k == width[j]
<1>4. k \in Widths(s) /\ rest[j - 1] = Bytes(s, k) \o rest[j]
  BY <1>2 DEF Input
<1>5. rest[j] \in Seq(Nat)
  BY <1>2 DEF Input
<1>6. s <= 1114111
  BY <1>2, SMT DEF Separate
<1> HIDE DEF s, k, j, n
<1>7. k \in 1 .. 6
  BY <1>3, <1>4, <1>6, WidthHolds, SMT
<1>8. Bytes(s, k) \in Seq(Nat) /\ Len(Bytes(s, k)) = k
  BY ONLY <1>3, <1>7, BytesAre
<1>9. Len(rest[j - 1]) = k + Len(rest[j]) /\ Len(rest[j]) \in Nat
  <2> DEFINE a == Bytes(s, k)
             b == rest[j]
             S == Nat
  <2>1. a \in Seq(S) /\ b \in Seq(S) /\ Len(a) = k /\ rest[j - 1] = a \o b
    BY ONLY <1>4, <1>5, <1>8
  <2> HIDE DEF a, b, S
  <2>2. \A x, y \in Seq(S) : Len(x \o y) = Len(x) + Len(y) /\ Len(y) \in Nat
    BY ONLY ConcatProperties, LenProperties
  <2>3. Len(a \o b) = Len(a) + Len(b) /\ Len(b) \in Nat
    BY ONLY <2>1, <2>2, Zenon
  <2> QED
    BY ONLY <2>1, <2>3 DEF b
<1>10. Len(rest[j - 1]) = 0
  BY <1>1, <1>2, SMT
<1> QED
  BY <1>7, <1>9, <1>10, SMT

\* A symbol is read: it is the next one of the text, or it comes of a cut
\* sequence after the text.
LEMMA ReadKeeps ==
  ASSUME NEW text \in Seq(Nat), NEW width, NEW tail, NEW rest, NEW w, NEW symbols \in Seq(Nat),
         NEW file \in Seq(Nat), file # <<>>, NEW old
  PROVE  /\ old \in [1 .. 6 -> Nat] /\ Separate(text, width) /\ Input(text, width, tail, rest)
         /\ Reading(file, symbols, text, tail, rest, w)
         /\ Announced(Filled(file, old)[1]) # -1
         => Reading(SubSeq(file, Chunk(file) + 1, Len(file)),
                    Append(symbols, decode_utf8(Filled(file, old))), text, tail, rest, w)
<1> DEFINE n == Len(text)
           l == Len(symbols)
           r == w + l
           file2 == SubSeq(file, Chunk(file) + 1, Len(file))
           new == decode_utf8(Filled(file, old))
           symbols2 == Append(symbols, new)
<1>0. SUFFICES ASSUME old \in [1 .. 6 -> Nat], Separate(text, width), Input(text, width, tail, rest),
                      Reading(file, symbols, text, tail, rest, w),
                      Announced(Filled(file, old)[1]) # -1
      PROVE  Reading(file2, symbols2, text, tail, rest, w)
  OBVIOUS
<1>a. Separate(text, width) /\ Input(text, width, tail, rest) /\ old \in [1 .. 6 -> Nat]
  BY <1>0
<1>1. n \in Nat /\ l \in Nat /\ w \in Nat /\ r \in Nat
  <2>1. w \in Nat
    BY ONLY <1>0 DEF Reading
  <2>2. n \in Nat /\ l \in Nat
    OBVIOUS
  <2> HIDE DEF n, l
  <2>3. w + l \in Nat
    BY ONLY <2>1, <2>2
  <2> QED
    BY <2>1, <2>2, <2>3
<1>2. new \in Nat /\ Filled(file, old)[1] = file[1]
  BY <1>0, ReadTyped
<1>3. /\ Len(symbols2) = l + 1 /\ symbols2[l + 1] = new
      /\ \A i \in 1 .. l : symbols2[i] = symbols[i]
  BY <1>2, AppendProperties
<1>4. /\ \A i \in 1 .. l : w + i <= n => symbols[i] = text[w + i]
      /\ r <= n => file = rest[r]
      /\ r > n => tail \in Cut
  BY <1>0 DEF Reading
<1>5. r < n => new = text[r + 1] /\ file2 = rest[r + 1]
  <2> SUFFICES ASSUME r < n PROVE new = text[r + 1] /\ file2 = rest[r + 1]
    OBVIOUS
  <2> DEFINE j == r + 1
             s == text[j]
             after == rest[j]
  <2>1. j \in 1 .. n /\ j - 1 = r
    BY <1>1
  <2>2. s \in Nat
    BY <2>1
  <2> DEFINE k == width[j]
  <2>3. k \in Widths(s) /\ rest[j - 1] = Bytes(s, k) \o rest[j]
    BY <2>1, <1>0 DEF Input
  <2>4. after \in Seq(Nat)
    BY <2>1, <1>0 DEF Input
  <2>5. s <= 1114111 /\ (k > 1 \/ s < 64)
    <3>1. \A i \in DOMAIN text : text[i] <= 1114111 /\ (width[i] > 1 \/ text[i] < 64)
      BY <1>a, SMT DEF Separate
    <3>2. j \in DOMAIN text
      BY <2>1
    <3> QED
      BY <3>1, <3>2, SMT
  <2>6. file = Bytes(s, k) \o after
    <3>1. r <= n
      BY <1>1
    <3>2. file = rest[j - 1]
      BY <3>1, <2>1, <1>4
    <3> QED
      BY <3>2, <2>3
  <2> HIDE DEF s, k, after
  <2>7. k \in 1 .. 6 /\ Holds(s, k)
    BY ONLY <2>2, <2>3, <2>5, WidthHolds, SMT
  <2>8. k > 1 \/ s < 64
    BY ONLY <2>5
  <2>9. /\ SubSeq(file, Chunk(file) + 1, Len(file)) = after
        /\ decode_utf8(Filled(file, old)) = s
    <3>1. (k > 1 \/ s < 64) /\ old \in [1 .. 6 -> Nat]
      BY ONLY <1>a, <2>8
    <3> QED
      BY ONLY <2>2, <2>4, <2>6, <2>7, <3>1, ReadWhole
  <2> QED
    BY <2>9, SMT DEF s, after
<1>6. r = n => tail \in Cut
  <2> SUFFICES ASSUME r = n, tail \notin Cut PROVE FALSE
    OBVIOUS
  <2>1. file = tail
    <3>1. file = rest[r]
      BY <1>1, <1>4
    <3>2. rest[n] = tail
      BY <1>a DEF Input
    <3> QED
      BY <3>1, <3>2
  <2>2. tail \in {<<>>} \cup {<<b>> : b \in Invalid} \cup Cut
    BY <1>0 DEF Input
  <2>3. PICK b \in Invalid : file = <<b>>
    BY <2>1, <2>2
  <2>4. Announced(b) = -1 /\ file[1] = b
    BY <2>3, InvalidByte
  <2> QED
    BY <2>4, <1>0, <1>2
<1> HIDE DEF n, l, r, file2, new, symbols2
<1>7. ASSUME NEW i \in 1 .. l + 1, w + i <= n PROVE symbols2[i] = text[w + i]
  <2>1. CASE i \in 1 .. l
    BY <2>1, <1>3, <1>4, <1>7
  <2>2. CASE i = l + 1
    <3>1. w + i = r + 1 /\ r < n
      BY <2>2, <1>1, <1>7 DEF r
    <3> QED
      BY <3>1, <2>2, <1>3, <1>5
  <2>3. i \in 1 .. l \/ i = l + 1
    BY <1>1
  <2> QED
    BY <2>1, <2>2, <2>3
<1>8. w + (l + 1) = r + 1
  BY <1>1 DEF r
<1>9. r + 1 <= n => file2 = rest[r + 1]
  <2>1. r + 1 <= n => r < n
    BY <1>1
  <2> QED
    BY <2>1, <1>5
<1>10. r + 1 > n => tail \in Cut
  <2>1. r + 1 > n => r = n \/ r > n
    BY <1>1
  <2> QED
    BY <2>1, <1>4, <1>6
<1>11. Reading(file2, symbols2, text, tail, rest, w)
  <2>1. \A i \in 1 .. Len(symbols2) : w + i <= Len(text) => symbols2[i] = text[w + i]
    BY <1>3, <1>7 DEF n
  <2>2. w + Len(symbols2) = r + 1
    BY <1>3, <1>8
  <2>3. /\ w + Len(symbols2) <= Len(text) => file2 = rest[w + Len(symbols2)]
        /\ w + Len(symbols2) > Len(text) => tail \in Cut
    BY <2>2, <1>9, <1>10 DEF n
  <2> QED
    BY <1>1, <2>1, <2>3 DEF Reading
<1> QED
  BY <1>11

\* Lengths and brackets of sequences put together.
LEMMA Joining ==
  /\ \A a, b \in Seq(Nat) : a \o b \in Seq(Nat) /\ Len(a \o b) = Len(a) + Len(b)
  /\ \A a, b, c \in Seq(Nat) : (a \o b) \o c = a \o (b \o c)
<1>1. \A a, b \in Seq(Nat) : a \o b \in Seq(Nat) /\ Len(a \o b) = Len(a) + Len(b)
  BY ConcatProperties
<1> DEFINE S == Nat
<1> HIDE DEF S
<1>2. ASSUME NEW a \in Seq(S), NEW b \in Seq(S), NEW c \in Seq(S)
      PROVE  (a \o b) \o c = a \o (b \o c)
  BY ConcatAssociative, SMTT(60)
<1> QED
  BY <1>1, <1>2 DEF S

\* A sequence cut in two.
LEMMA CutInTwo ==
  ASSUME NEW s \in Seq(Nat), NEW k \in 0 .. Len(s)
  PROVE  /\ SubSeq(s, 1, k) \in Seq(Nat) /\ Len(SubSeq(s, 1, k)) = k
         /\ SubSeq(s, k + 1, Len(s)) \in Seq(Nat)
         /\ SubSeq(s, 1, k) \o SubSeq(s, k + 1, Len(s)) = s
         /\ k = 0 => SubSeq(s, 1, k) = <<>>
         /\ k = Len(s) => SubSeq(s, 1, k) = s
<1>1. Len(s) \in Nat /\ k \in Nat
  OBVIOUS
<1>2. SubSeq(s, 1, k) \in Seq(Nat) /\ Len(SubSeq(s, 1, k)) = k
  BY <1>1
<1>3. SubSeq(s, k + 1, Len(s)) \in Seq(Nat)
  BY <1>1
<1>4. SubSeq(s, 1, Len(s)) = s
  BY <1>1
<1>5. SubSeq(s, 1, k) \o SubSeq(s, k + 1, Len(s)) = s
  <2>1. 1 \in 1 .. Len(s) + 1 /\ k \in 1 - 1 .. Len(s) /\ Len(s) \in k .. Len(s)
    BY <1>1
  <2>2. SubSeq(s, 1, k) \o SubSeq(s, k + 1, Len(s)) = SubSeq(s, 1, Len(s))
    BY <2>1, ConcatAdjacentSubSeq
  <2> QED
    BY <2>2, <1>4
<1>6. k = 0 => SubSeq(s, 1, k) = <<>>
  BY <1>2
<1>7. k = Len(s) => SubSeq(s, 1, k) = s
  BY <1>4
<1> QED
  BY <1>2, <1>3, <1>5, <1>6, <1>7

\* What is written of a symbol, and that it fits in the space there is.
Fit(room, out, bytes) == Min({Len(bytes), room - Len(out)})
Fits(fit, room, out, bytes) ==
    /\ fit \in 0 .. Len(bytes) /\ (fit < Len(bytes) => Len(out) + fit = room)
    /\ (fit = 0 => Len(out) = room)
    /\ out \o SubSeq(bytes, 1, fit) \in Seq(Nat)
    /\ Len(out \o SubSeq(bytes, 1, fit)) = Len(out) + fit
    /\ Len(out \o SubSeq(bytes, 1, fit)) <= room

\* write stores what there is space for.
LEMMA WriteFits ==
  ASSUME NEW room \in Nat, NEW out \in Seq(Nat), NEW bytes \in Seq(Nat)
  PROVE  Len(out) <= room /\ Len(bytes) # 0 => Fits(Fit(room, out, bytes), room, out, bytes)
<1> DEFINE fit == Fit(room, out, bytes)
           front == SubSeq(bytes, 1, fit)
           out2 == out \o front
           L == Len(bytes)
           O == Len(out)
<1>0. fit = Min({Len(bytes), room - Len(out)})
  BY DEF Fit
<1> HIDE DEF fit
<1> SUFFICES ASSUME Len(out) <= room, L # 0
             PROVE  /\ fit \in 0 .. L /\ (fit < L => O + fit = room) /\ (fit = 0 => O = room)
                    /\ out2 \in Seq(Nat) /\ Len(out2) = O + fit /\ Len(out2) <= room
  BY DEF Fits, fit
<1>1. bytes \in Seq(Nat) /\ Len(bytes) \in Nat \ {0}
  OBVIOUS
<1>2. Len(out) \in Nat /\ Len(out) <= room
  OBVIOUS
<1>4. fit = (IF L <= room - O THEN L ELSE room - O) /\ L \in Nat \ {0} /\ O \in Nat
  <2>1. room - O \in Nat /\ L \in Nat
    BY <1>1, <1>2
  <2> HIDE DEF L, O
  <2> DEFINE d == room - O
  <2>2. d \in Nat
    BY <2>1
  <2> HIDE DEF d
  <2>3. Min({L, d}) = IF L <= d THEN L ELSE d
    BY <2>1, <2>2, MinOfTwo
  <2>4. fit = Min({L, d})
    BY <1>0 DEF L, O, d
  <2> QED
    BY <2>3, <2>4, <1>1, <1>2 DEF d, L, O
<1>5. fit \in 0 .. L /\ fit <= room - O /\ (fit < L => O + fit = room)
  <2> HIDE DEF L, O
  <2> QED
    BY <1>2, <1>4 DEF O
<1>6. front \in Seq(Nat) /\ Len(front) = fit
  <2> HIDE DEF L
  <2>1. bytes \in Seq(Nat) /\ fit \in 0 .. Len(bytes)
    BY <1>1, <1>5 DEF L
  <2> QED
    BY <2>1, CutInTwo DEF L
<1>7. out2 \in Seq(Nat) /\ Len(out2) = O + fit /\ Len(out2) <= room
  <2>1. out2 \in Seq(Nat) /\ Len(out2) = O + Len(front)
    BY <1>6, Joining
  <2>2. Len(out2) = O + fit
    BY <2>1, <1>6
  <2> HIDE DEF out2, O, L
  <2>3. O + fit <= room
    BY <1>4, <1>5
  <2> QED
    BY <2>1, <2>2, <2>3
<1>8. fit = 0 => O = room
  <2> HIDE DEF L, O
  <2> QED
    BY <1>2, <1>4 DEF O
<1> QED
  BY <1>5, <1>7, <1>8

\* A symbol is written, as far as there is space.
LEMMA WriteKeeps ==
  ASSUME NEW text \in Seq(Nat), NEW tail, NEW done, NEW left, NEW v, NEW room \in Nat,
         NEW out \in Seq(Nat), NEW symbol \in Nat, NEW bytes, bytes = encode_utf8(symbol),
         NEW fit, fit = Min({Len(bytes), room - Len(out)})
  PROVE  /\ Output(text, done, left) /\ Written(out, room, text, tail, done, v)
         /\ v < Len(text) => symbol = text[v + 1]
         /\ v >= Len(text) => tail \in Cut
         => /\ fit = 0 => Written(out \o SubSeq(bytes, 1, fit), room, text, tail, done, v)
            /\ fit # 0 => Written(out \o SubSeq(bytes, 1, fit), room, text, tail, done, v + 1)
<1> DEFINE n == Len(text)
           right == Right(text)
           front == SubSeq(bytes, 1, fit)
           back == SubSeq(bytes, fit + 1, Len(bytes))
           out2 == out \o front
<1>0. SUFFICES ASSUME Output(text, done, left), Written(out, room, text, tail, done, v),
                      v < Len(text) => symbol = text[v + 1], v >= Len(text) => tail \in Cut
      PROVE  /\ fit = 0 => Written(out2, room, text, tail, done, v)
             /\ fit # 0 => Written(out2, room, text, tail, done, v + 1)
  OBVIOUS
<1>1. bytes \in Seq(Nat) /\ Len(bytes) \in Nat \ {0}
  <2>1. encode_utf8(symbol) \in Seq(Nat) /\ Len(encode_utf8(symbol)) >= 1
    BY EncodeTyped
  <2> QED
    BY <2>1
<1>2. /\ v \in Nat /\ n \in Nat /\ Len(out) \in Nat /\ Len(out) <= room
      /\ \/ v <= n /\ out = done[v]
         \/ v > n /\ tail \in Cut /\ \E u \in Seq(Nat) : out = right \o u
         \/ Len(out) = room /\ \E u \in Seq(Nat) : out \o u = right
  <2>1. n \in Nat /\ Len(out) \in Nat
    OBVIOUS
  <2>2. Written(out, room, text, tail, done, v)
    BY <1>0
  <2> QED
    BY <2>1, <2>2, Zenon DEF Written
<1>3. /\ done \in [0 .. n -> Seq(Nat)] /\ left \in [0 .. n -> Seq(Nat)] /\ done[n] = right
      /\ \A i \in 0 .. n : done[i] \o left[i] = right
      /\ \A i \in 1 .. n : done[i] = done[i - 1] \o encode_utf8(text[i])
  BY <1>0 DEF Output
<1> DEFINE L == Len(bytes)
           O == Len(out)
<1>5. fit \in 0 .. L /\ (fit < L => O + fit = room) /\ (fit = 0 => O = room)
      /\ out2 \in Seq(Nat) /\ Len(out2) = O + fit /\ Len(out2) <= room
  <2>1. Len(out) <= room /\ bytes \in Seq(Nat) /\ Len(bytes) # 0
    BY <1>1, <1>2
  <2>2. /\ fit \in 0 .. Len(bytes) /\ (fit < Len(bytes) => Len(out) + fit = room)
        /\ (fit = 0 => Len(out) = room)
        /\ out \o SubSeq(bytes, 1, fit) \in Seq(Nat)
        /\ Len(out \o SubSeq(bytes, 1, fit)) = Len(out) + fit
        /\ Len(out \o SubSeq(bytes, 1, fit)) <= room
    <3>1. fit = Fit(room, out, bytes)
      BY DEF Fit
    <3>2. Fits(Fit(room, out, bytes), room, out, bytes)
      BY ONLY <2>1, room \in Nat, out \in Seq(Nat), WriteFits
    <3> QED
      BY ONLY <3>1, <3>2 DEF Fits
  <2> QED
    BY <2>2
<1>6. /\ front \in Seq(Nat) /\ Len(front) = fit /\ back \in Seq(Nat)
      /\ front \o back = bytes /\ (fit = 0 => front = <<>>) /\ (fit = L => front = bytes)
  <2> HIDE DEF L
  <2>1. bytes \in Seq(Nat) /\ fit \in 0 .. Len(bytes)
    BY <1>1, <1>5 DEF L
  <2> QED
    BY <2>1, CutInTwo DEF L
<1>8. fit = 0 => out2 = out
  BY <1>6, ConcatEmptySeq
<1>9. CASE fit = 0
  <2>1. out2 = out
    BY <1>8, <1>9
  <2>2. Written(out2, room, text, tail, done, v)
    BY <2>1, <1>0
  <2> QED
    BY <2>2, <1>9
<1>10. CASE fit # 0
  <2>1. v + 1 \in Nat
    BY <1>2
  <2> SUFFICES \/ v + 1 <= n /\ out2 = done[v + 1]
               \/ v + 1 > n /\ tail \in Cut /\ \E u \in Seq(Nat) : out2 = right \o u
               \/ Len(out2) = room /\ \E u \in Seq(Nat) : out2 \o u = right
    BY <2>1, <1>5, <1>10 DEF Written
  <2>2. CASE v < n /\ out = done[v]
    <3> DEFINE j == v + 1
               after == left[j]
    <3>1. j \in 1 .. n /\ j \in 0 .. n /\ j - 1 = v
      BY <2>2, <1>2
    <3>2. symbol = text[j]
      BY <2>2, <1>0
    <3>3. done[j] = out \o bytes /\ done[j] \o after = right /\ after \in Seq(Nat)
      <4>1. done[j] = done[j - 1] \o encode_utf8(text[j])
        BY <3>1, <1>3
      <4> QED
        BY <4>1, <3>1, <3>2, <2>2, <1>3
    <3>4. CASE fit = L
      <4>1. out2 = done[j]
        BY <3>3, <3>4, <1>6
      <4>2. v + 1 <= n
        BY <3>1
      <4> QED
        BY <4>1, <4>2, Zenon
    <3>5. CASE fit # L
      <4>1. Len(out2) = room
        <5> HIDE DEF L, O, out2
        <5>1. fit < L
          BY <3>5, <1>1, <1>5 DEF L
        <5> QED
          BY <5>1, <1>5
      <4>2. out2 \o (back \o after) = right /\ back \o after \in Seq(Nat)
        <5> HIDE DEF front, back, after, right
        <5>1. out \o bytes = out2 \o back
          <6>1. (out \o front) \o back = out \o (front \o back)
            BY <1>6, Joining
          <6> QED
            BY <6>1, <1>6
        <5>2. (out2 \o back) \o after = out2 \o (back \o after)
          <6> HIDE DEF out2
          <6> QED
            BY <1>5, <1>6, <3>3, Joining
        <5>3. back \o after \in Seq(Nat)
          BY <1>6, <3>3, Joining
        <5> QED
          BY <5>1, <5>2, <5>3, <3>3
      <4> QED
        BY <4>1, <4>2
    <3> QED
      BY <3>4, <3>5
  <2>3. CASE v = n /\ out = done[v]
    <3>1. out = right /\ tail \in Cut /\ v + 1 > n
      BY <2>3, <1>0, <1>2, <1>3
    <3> QED
      BY <3>1, <1>6
  <2>4. CASE v > n /\ tail \in Cut /\ \E u \in Seq(Nat) : out = right \o u
    <3>1. PICK u \in Seq(Nat) : out = right \o u
      BY <2>4
    <3>2. right \in Seq(Nat)
      <4>1. n \in 0 .. n
        BY <1>2
      <4> QED
        BY <4>1, <1>3
    <3> HIDE DEF right, front
    <3>3. (right \o u) \o front = right \o (u \o front)
      <4>1. right \in Seq(Nat) /\ u \in Seq(Nat) /\ front \in Seq(Nat)
      BY <3>2, <1>6
    <4> QED
      BY ONLY <4>1, Joining
    <3>4. u \o front \in Seq(Nat)
      BY <1>6, Joining
    <3>5. v + 1 > n
      BY <2>4, <1>2
    <3> QED
      BY <3>1, <3>3, <3>4, <3>5, <2>4
  <2>5. CASE Len(out) = room /\ \E u \in Seq(Nat) : out \o u = right
    <3>1. fit = 0
      <4>1. O = room
        BY <2>5
      <4>2. O + fit <= room /\ O \in Nat /\ fit \in Nat
        BY <1>2, <1>5
      <4> HIDE DEF O, L
      <4> QED
        BY <4>1, <4>2
    <3> QED
      BY <3>1, <1>10
  <2>6. v <= n => v < n \/ v = n
    BY <1>2
  <2> QED
    <3> HIDE DEF n, right, out2
    <3> QED
      BY <2>2, <2>3, <2>4, <2>5, <2>6, <1>2, Zenon
<1> QED
  BY <1>9, <1>10

Utf8Vars == <<infile, outfile, utf>>
Utf8Spec == Utf8Init /\ [][Utf8Next]_Utf8Vars

Utf8State == [pc : {"start", "read", "write", "done", "failed"}, text : Seq(Nat),
              width : Seq(Nat), tail : Seq(Nat), room : Nat, buffer : [1 .. 6 -> Nat],
              symbols : Seq(Nat), next : Nat \ {0}]
Utf8Typed ==
    /\ infile \in Seq(Nat) /\ outfile \in Seq(Nat) /\ utf \in Utf8State
    /\ Len(outfile) <= utf.room
    /\ utf.pc = "start" => outfile = <<>> /\ utf.text = <<>> /\ utf.symbols = <<>>

\* Where main is between the file it reads and the one it writes.
Copying(rest, done) ==
    \/ /\ utf.pc = "read"
       /\ \E w : /\ Reading(infile, utf.symbols, utf.text, utf.tail, rest, w)
                 /\ Written(outfile, utf.room, utf.text, utf.tail, done, w)
    \/ /\ utf.pc = "write" /\ utf.next <= Len(utf.symbols) + 1
       /\ \E w : /\ Reading(infile, utf.symbols, utf.text, utf.tail, rest, w)
                 /\ Written(outfile, utf.room, utf.text, utf.tail, done, w + (utf.next - 1))
    \/ /\ utf.pc = "done"
       /\ \E v : Written(outfile, utf.room, utf.text, utf.tail, done, v) /\ v >= Len(utf.text)
    \/ /\ utf.pc = "failed"
       /\ \E v : Written(outfile, utf.room, utf.text, utf.tail, done, v)
Progress ==
    utf.pc # "start" /\ Separate(utf.text, utf.width) =>
        \E rest, done, left : /\ Input(utf.text, utf.width, utf.tail, rest)
                              /\ Output(utf.text, done, left) /\ Copying(rest, done)
Utf8Inv == Utf8Typed /\ Progress

\* The invariant of main holds at first, and every step keeps it.
LEMMA Utf8Starts == Utf8Init => Utf8Inv
<1> SUFFICES ASSUME Utf8Init PROVE Utf8Inv
  OBVIOUS
<1>1. <<0, 0, 0, 0, 0, 0>> \in [1 .. 6 -> Nat] /\ <<>> \in Seq(Nat)
  OBVIOUS
<1>2. utf \in Utf8State
  BY <1>1 DEF Utf8Init, Utf8State
<1>3. utf.pc = "start" /\ utf.text = <<>> /\ utf.symbols = <<>> /\ infile = <<>> /\ outfile = <<>>
  BY DEF Utf8Init
<1>4. Len(outfile) <= utf.room
  <2>1. Len(<<>>) = 0 /\ utf.room \in Nat
    BY <1>2 DEF Utf8State
  <2> QED
    BY <2>1, <1>3
<1> QED
  BY <1>1, <1>2, <1>3, <1>4 DEF Utf8Inv, Utf8Typed, Progress

\* The fields of the state.
LEMMA Utf8Fields ==
  Utf8Typed => /\ infile \in Seq(Nat) /\ outfile \in Seq(Nat)
               /\ utf.text \in Seq(Nat) /\ utf.tail \in Seq(Nat) /\ utf.room \in Nat
               /\ utf.buffer \in [1 .. 6 -> Nat] /\ utf.symbols \in Seq(Nat)
               /\ utf.next \in Nat \ {0} /\ Len(outfile) <= utf.room
  BY DEF Utf8Typed, Utf8State

LEMMA StartKeeps == Utf8Inv /\ Start => Utf8Inv'
<1> SUFFICES ASSUME Utf8Inv, Start PROVE Utf8Inv'
  OBVIOUS
<1>1. Utf8Typed /\ utf.pc = "start"
  BY DEF Utf8Inv, Start
<1>2. /\ outfile = <<>> /\ utf.symbols = <<>> /\ outfile' = outfile /\ utf \in Utf8State
  BY <1>1 DEF Utf8Typed, Start
<1>a. PICK n \in 0 .. MaxText : \E text \in [1 .. n -> Symbols] :
      \E width \in [1 .. n -> 1 .. 6], room \in Rooms,
         tail \in {<<>>} \cup {<<b>> : b \in Invalid} \cup Cut :
          /\ \A i \in 1 .. n : width[i] \in Widths(text[i])
          /\ infile' = FlattenSeq([i \in 1 .. n |-> Bytes(text[i], width[i])]) \o tail
          /\ utf' = [utf EXCEPT !.pc = "read", !.text = text, !.width = width,
                                !.tail = tail, !.room = room]
  BY DEF Start
<1>3. PICK text \in [1 .. n -> Symbols] :
      \E width \in [1 .. n -> 1 .. 6], room \in Rooms,
         tail \in {<<>>} \cup {<<b>> : b \in Invalid} \cup Cut :
          /\ \A i \in 1 .. n : width[i] \in Widths(text[i])
          /\ infile' = FlattenSeq([i \in 1 .. n |-> Bytes(text[i], width[i])]) \o tail
          /\ utf' = [utf EXCEPT !.pc = "read", !.text = text, !.width = width,
                                !.tail = tail, !.room = room]
  BY <1>a
<1>4. PICK width \in [1 .. n -> 1 .. 6], room \in Rooms,
         tail \in {<<>>} \cup {<<b>> : b \in Invalid} \cup Cut :
          /\ \A i \in 1 .. n : width[i] \in Widths(text[i])
          /\ infile' = FlattenSeq([i \in 1 .. n |-> Bytes(text[i], width[i])]) \o tail
          /\ utf' = [utf EXCEPT !.pc = "read", !.text = text, !.width = width,
                                !.tail = tail, !.room = room]
  BY <1>3
<1>5. text \in Seq(Nat) /\ Len(text) = n /\ n \in Nat
  <2>1. MaxText \in Nat /\ Symbols \subseteq Nat
    BY Utf8Assumption
  <2>2. n \in Nat
    BY ONLY <2>1, n \in 0 .. MaxText
  <2>3. text \in [1 .. n -> Nat]
    BY ONLY <2>1, text \in [1 .. n -> Symbols]
  <2> QED
    BY ONLY <2>2, <2>3, SeqOfLength
<1>b. width \in Seq(Nat)
  <2>1. width \in [1 .. n -> Nat]
    <3>1. (1 .. 6) \subseteq Nat
      OBVIOUS
    <3> QED
      BY ONLY <3>1, width \in [1 .. n -> 1 .. 6]
  <2> QED
    BY ONLY <1>5, <2>1, SeqOfLength
<1>6. tail \in Seq(Nat) /\ room \in Nat
  <2>1. \A b \in Invalid : <<b>> \in Seq(Nat)
    BY InvalidByte
  <2>2. Cut \subseteq Seq(Nat)
    <3>1. Cut \subseteq Seq(0 .. 255)
      BY Utf8Assumption
    <3>2. ASSUME NEW s \in Seq(0 .. 255) PROVE s \in Seq(Nat)
      <4> DEFINE l == Len(s)
      <4>1. l \in Nat /\ s \in [1 .. l -> 0 .. 255]
        BY LenProperties
      <4>2. s \in [1 .. l -> Nat]
        <5> DEFINE S == 0 .. 255
        <5>1. S \subseteq Nat
          OBVIOUS
        <5> HIDE DEF S, l
        <5>2. s \in [1 .. l -> S]
          BY <4>1 DEF S
        <5> QED
          BY ONLY <5>1, <5>2
      <4> HIDE DEF l
      <4> QED
        BY <4>1, <4>2, SeqOfLength
    <3> QED
      BY <3>1, <3>2
  <2>3. tail \in Seq(Nat)
    <3>1. <<>> \in Seq(Nat)
      OBVIOUS
    <3> QED
      BY <2>1, <2>2, <3>1
  <2>4. Rooms \subseteq Nat
    BY Utf8Assumption
  <2> QED
    BY <2>3, <2>4
<1>7. /\ infile' \in Seq(Nat)
      /\ \E rest : Input(text, width, tail, rest) /\ infile' = rest[0]
  <2>1. width \in [1 .. Len(text) -> 1 .. 6]
    BY <1>5
  <2>2. \A i \in 1 .. Len(text) : width[i] \in Widths(text[i])
    BY <1>4, <1>5
  <2>3. infile' = FlattenSeq([i \in 1 .. Len(text) |-> Bytes(text[i], width[i])]) \o tail
    BY <1>4, <1>5
  <2>4. /\ FlattenSeq([i \in 1 .. Len(text) |-> Bytes(text[i], width[i])]) \o tail \in Seq(Nat)
        /\ \E rest : /\ Input(text, width, tail, rest)
                     /\ FlattenSeq([i \in 1 .. Len(text) |-> Bytes(text[i], width[i])]) \o tail
                        = rest[0]
    BY <1>5, <1>6, <2>1, <2>2, InputExists
  <2> QED
    BY <2>3, <2>4
<1>8. /\ utf' \in Utf8State /\ utf'.pc = "read" /\ utf'.text = text /\ utf'.tail = tail
      /\ utf'.width = width /\ utf'.room = room /\ utf'.symbols = <<>>
  BY <1>2, <1>4, <1>5, <1>b, <1>6 DEF Utf8State
<1>9. Utf8Typed'
  <2>1. Len(<<>>) = 0 /\ 0 <= room
    BY <1>6
  <2>2. Len(outfile') <= utf'.room
    BY <2>1, <1>2, <1>8
  <2> QED
    BY <2>2, <1>2, <1>7, <1>8 DEF Utf8Typed
<1>10. ASSUME Separate(text, width)
       PROVE  \E rest, done, left : /\ Input(text, width, tail, rest)
                                    /\ Output(text, done, left) /\ Copying(rest, done)'
  <2>1. PICK rest : Input(text, width, tail, rest) /\ infile' = rest[0]
    BY <1>7
  <2>2. PICK done, left : Output(text, done, left)
    <3>1. Unicode(text)
      BY <1>10, SMT DEF Unicode, Separate
    <3> QED
      BY <1>5, <3>1, OutputExists
  <2>3. Reading(infile', utf'.symbols, utf'.text, utf'.tail, rest, 0)
    <3>1. Len(<<>>) = 0 /\ Len(text) \in Nat /\ 0 + 0 = 0
      BY <1>5
    <3> QED
      BY <3>1, <1>8, <2>1 DEF Reading
  <2>4. Written(outfile', utf'.room, utf'.text, utf'.tail, done, 0)
    <3>1. done[0] = <<>> /\ outfile' = <<>>
      BY <1>2, <2>2 DEF Output
    <3>2. Len(<<>>) = 0 /\ 0 <= Len(text) /\ 0 <= room /\ 0 \in Nat
      BY <1>5, <1>6
    <3> QED
      BY <3>1, <3>2, <1>8 DEF Written
  <2>5. Copying(rest, done)'
    BY <1>8, <2>3, <2>4 DEF Copying
  <2> QED
    BY <2>1, <2>2, <2>5
<1>11. Progress'
  BY <1>8, <1>10 DEF Progress
<1> QED
  BY <1>9, <1>11 DEF Utf8Inv

\* The witnesses of the invariant.
LEMMA ProgressGives ==
  Utf8Inv /\ utf.pc # "start" /\ Separate(utf.text, utf.width) =>
      \E rest, done, left : /\ Input(utf.text, utf.width, utf.tail, rest)
                            /\ Output(utf.text, done, left) /\ Copying(rest, done)
  BY DEF Utf8Inv, Progress

LEMMA ReadSymbolKeeps == Utf8Inv /\ ReadSymbol => Utf8Inv'
<1> SUFFICES ASSUME Utf8Inv, ReadSymbol PROVE Utf8Inv'
  OBVIOUS
<1> DEFINE file == infile
           buffer == Filled(infile, utf.buffer)
           new == decode_utf8(buffer)
           ok == Announced(buffer[1]) # -1
<1>1. /\ utf.pc = "read" /\ file # <<>> /\ outfile' = outfile
      /\ infile' = SubSeq(file, Chunk(file) + 1, Len(file))
      /\ utf' = IF ok THEN [utf EXCEPT !.buffer = buffer, !.symbols = Append(@, new)]
                ELSE [utf EXCEPT !.pc = "failed", !.buffer = buffer]
  BY DEF ReadSymbol, Chunk, Filled
<1>2. /\ infile \in Seq(Nat) /\ outfile \in Seq(Nat) /\ utf.buffer \in [1 .. 6 -> Nat]
      /\ utf.symbols \in Seq(Nat) /\ utf.text \in Seq(Nat) /\ utf \in Utf8State
      /\ Len(outfile) <= utf.room
  BY Utf8Fields DEF Utf8Inv, Utf8Typed
<1>3. /\ buffer \in [1 .. 6 -> Nat] /\ (ok => new \in Nat)
      /\ SubSeq(file, Chunk(file) + 1, Len(file)) \in Seq(Nat)
  BY <1>1, <1>2, ReadTyped
<1> HIDE DEF file, buffer, new, ok
<1>4. CASE ok
  <2>1. Append(utf.symbols, new) \in Seq(Nat)
    BY <1>2, <1>3, <1>4, AppendProperties
  <2>2. /\ utf' \in Utf8State /\ utf'.pc = "read" /\ utf'.text = utf.text /\ utf'.tail = utf.tail
        /\ utf'.width = utf.width
        /\ utf'.room = utf.room /\ utf'.symbols = Append(utf.symbols, new)
    BY <1>1, <1>2, <1>3, <1>4, <2>1 DEF Utf8State
  <2>3. Utf8Typed'
    BY <1>1, <1>2, <1>3, <2>2 DEF Utf8Typed
  <2>4. ASSUME NEW rest, NEW done, NEW left, Separate(utf.text, utf.width), Input(utf.text, utf.width, utf.tail, rest),
               Output(utf.text, done, left), Copying(rest, done)
        PROVE  Copying(rest, done)'
    <3>1. PICK w : /\ Reading(infile, utf.symbols, utf.text, utf.tail, rest, w)
                   /\ Written(outfile, utf.room, utf.text, utf.tail, done, w)
      BY <1>1, <2>4 DEF Copying
    <3>2. Reading(SubSeq(file, Chunk(file) + 1, Len(file)), Append(utf.symbols, new),
                  utf.text, utf.tail, rest, w)
      BY <1>1, <1>2, <1>4, <2>4, <3>1, ReadKeeps DEF file, buffer, new, ok
    <3> QED
      BY <1>1, <2>2, <3>1, <3>2 DEF Copying
  <2>5. Progress'
    <3>1. ASSUME Separate(utf.text, utf.width)
          PROVE  \E rest, done, left : /\ Input(utf.text, utf.width, utf.tail, rest)
                                       /\ Output(utf.text, done, left) /\ Copying(rest, done)'
      BY <1>1, <2>4, <3>1, ProgressGives
    <3> QED
      BY <2>2, <3>1 DEF Progress
  <2> QED
    BY <2>3, <2>5 DEF Utf8Inv
<1>5. CASE ~ ok
  <2>2. /\ utf' \in Utf8State /\ utf'.pc = "failed" /\ utf'.text = utf.text /\ utf'.tail = utf.tail
        /\ utf'.width = utf.width
        /\ utf'.room = utf.room
    BY <1>1, <1>2, <1>3, <1>5 DEF Utf8State
  <2>3. Utf8Typed'
    BY <1>1, <1>2, <1>3, <2>2 DEF Utf8Typed
  <2>4. ASSUME NEW rest, NEW done, Copying(rest, done)
        PROVE  Copying(rest, done)'
    <3>1. PICK w : Written(outfile, utf.room, utf.text, utf.tail, done, w)
      BY <1>1, <2>4 DEF Copying
    <3> QED
      BY <1>1, <2>2, <3>1 DEF Copying
  <2>5. Progress'
    <3>1. ASSUME Separate(utf.text, utf.width)
          PROVE  \E rest, done, left : /\ Input(utf.text, utf.width, utf.tail, rest)
                                       /\ Output(utf.text, done, left) /\ Copying(rest, done)'
      BY <1>1, <2>4, <3>1, ProgressGives
    <3> QED
      BY <2>2, <3>1 DEF Progress
  <2> QED
    BY <2>3, <2>5 DEF Utf8Inv
<1> QED
  BY <1>4, <1>5

LEMMA ReadReturnsKeeps == Utf8Inv /\ ReadReturns => Utf8Inv'
<1> SUFFICES ASSUME Utf8Inv, ReadReturns PROVE Utf8Inv'
  OBVIOUS
<1>1. /\ utf.pc = "read" /\ infile' = infile /\ outfile' = outfile
      /\ infile = <<>> \/ Len(utf.symbols) = BUF
      /\ utf' = [utf EXCEPT !.pc = IF utf.symbols = <<>> THEN "done" ELSE "write", !.next = 1]
  BY DEF ReadReturns
<1>2. /\ infile \in Seq(Nat) /\ outfile \in Seq(Nat) /\ utf \in Utf8State
      /\ utf.symbols \in Seq(Nat) /\ utf.text \in Seq(Nat) /\ Len(outfile) <= utf.room
  BY Utf8Fields DEF Utf8Inv, Utf8Typed
<1>3. /\ utf' \in Utf8State /\ utf'.text = utf.text /\ utf'.tail = utf.tail
      /\ utf'.width = utf.width
      /\ utf'.room = utf.room /\ utf'.symbols = utf.symbols /\ utf'.next = 1
      /\ utf'.pc = IF utf.symbols = <<>> THEN "done" ELSE "write"
  <2>1. 1 \in Nat \ {0}
    OBVIOUS
  <2> QED
    BY <1>1, <1>2, <2>1 DEF Utf8State
<1>4. Utf8Typed'
  BY <1>1, <1>2, <1>3 DEF Utf8Typed
<1>5. ASSUME NEW rest, NEW done, NEW left, Separate(utf.text, utf.width), Input(utf.text, utf.width, utf.tail, rest),
             Output(utf.text, done, left), Copying(rest, done)
      PROVE  Copying(rest, done)'
  <2>1. PICK w : /\ Reading(infile, utf.symbols, utf.text, utf.tail, rest, w)
                 /\ Written(outfile, utf.room, utf.text, utf.tail, done, w)
    BY <1>1, <1>5 DEF Copying
  <2>2. CASE utf.symbols = <<>>
    <3>1. infile = <<>>
      <4>1. Len(<<>>) = 0 /\ BUF # 0
        BY Utf8Assumption
      <4> QED
        BY <1>1, <2>2, <4>1
    <3>2. w >= Len(utf.text)
      BY <1>2, <1>5, <2>1, <2>2, <3>1, EndOfFile
    <3> QED
      BY <1>1, <1>3, <2>1, <2>2, <3>2 DEF Copying
  <2>3. CASE utf.symbols # <<>>
    <3>1. w \in Nat /\ Len(utf.symbols) \in Nat
      BY <1>2, <2>1 DEF Reading
    <3>2. w + (1 - 1) = w /\ 1 <= Len(utf.symbols) + 1
      BY <3>1
    <3> QED
      BY <1>1, <1>3, <2>1, <2>3, <3>2 DEF Copying
  <2> QED
    BY <2>2, <2>3
<1>6. Progress'
  <2>1. ASSUME Separate(utf.text, utf.width)
        PROVE  \E rest, done, left : /\ Input(utf.text, utf.width, utf.tail, rest)
                                     /\ Output(utf.text, done, left) /\ Copying(rest, done)'
    BY <1>1, <1>5, <2>1, ProgressGives
  <2> QED
    BY <1>3, <2>1 DEF Progress
<1> QED
  BY <1>4, <1>6 DEF Utf8Inv

LEMMA WriteSymbolKeeps == Utf8Inv /\ WriteSymbol => Utf8Inv'
<1> SUFFICES ASSUME Utf8Inv, WriteSymbol PROVE Utf8Inv'
  OBVIOUS
<1> DEFINE symbol == utf.symbols[utf.next]
           bytes == encode_utf8(symbol)
           fit == Fit(utf.room, outfile, bytes)
           out == outfile \o SubSeq(bytes, 1, fit)
<1>1. /\ utf.pc = "write" /\ utf.next <= Len(utf.symbols) /\ infile' = infile /\ outfile' = out
      /\ utf' = IF fit = 0 THEN [utf EXCEPT !.pc = "failed"] ELSE [utf EXCEPT !.next = @ + 1]
  BY DEF WriteSymbol, Fit
<1>2. /\ infile \in Seq(Nat) /\ outfile \in Seq(Nat) /\ utf \in Utf8State
      /\ utf.symbols \in Seq(Nat) /\ utf.text \in Seq(Nat) /\ utf.next \in Nat \ {0}
      /\ utf.room \in Nat /\ Len(outfile) <= utf.room
  BY Utf8Fields DEF Utf8Inv, Utf8Typed
<1>3. symbol \in Nat
  <2>1. utf.next \in 1 .. Len(utf.symbols)
    BY <1>1, <1>2
  <2> QED
    BY <2>1, <1>2
<1>4. bytes \in Seq(Nat) /\ Len(bytes) # 0
  <2> HIDE DEF symbol
  <2>1. encode_utf8(symbol) \in Seq(Nat) /\ Len(encode_utf8(symbol)) >= 1
    BY <1>3, EncodeTyped
  <2> QED
    BY <2>1
<1>5. Fits(fit, utf.room, outfile, bytes)
  <2> DEFINE room == utf.room
  <2>1. room \in Nat /\ Len(outfile) <= room /\ outfile \in Seq(Nat)
    BY <1>2
  <2> HIDE DEF bytes, room
  <2>2. Fits(Fit(room, outfile, bytes), room, outfile, bytes)
    BY ONLY <1>4, <2>1, WriteFits
  <2> QED
    BY <2>2 DEF room
<1>6. out \in Seq(Nat) /\ Len(out) <= utf.room
  BY <1>5 DEF Fits
<1> DEFINE next == utf.next
<1>7. /\ utf' \in Utf8State /\ utf'.text = utf.text /\ utf'.tail = utf.tail
      /\ utf'.width = utf.width
      /\ utf'.room = utf.room /\ utf'.symbols = utf.symbols
      /\ (fit = 0 => utf'.pc = "failed")
      /\ (fit # 0 => utf'.pc = "write" /\ utf'.next = next + 1)
  <2> HIDE DEF fit
  <2>1. next + 1 \in Nat \ {0}
    BY <1>2
  <2>2. CASE fit = 0
    BY <1>1, <1>2, <2>2 DEF Utf8State
  <2>3. CASE fit # 0
    BY <1>1, <1>2, <2>1, <2>3 DEF Utf8State
  <2> QED
    BY <2>2, <2>3
<1>8. Utf8Typed'
  <2> HIDE DEF out, fit
  <2>1. utf'.pc # "start"
    BY <1>7
  <2> QED
    BY <1>1, <1>2, <1>6, <1>7, <2>1 DEF Utf8Typed
<1>9. ASSUME NEW rest, NEW done, NEW left, Separate(utf.text, utf.width), Input(utf.text, utf.width, utf.tail, rest),
             Output(utf.text, done, left), Copying(rest, done)
      PROVE  Copying(rest, done)'
  <2>1. PICK w : /\ Reading(infile, utf.symbols, utf.text, utf.tail, rest, w)
                 /\ Written(outfile, utf.room, utf.text, utf.tail, done, w + (next - 1))
    BY <1>1, <1>9 DEF Copying
  <2> DEFINE n == Len(utf.text)
             l == Len(utf.symbols)
             v == w + (next - 1)
  <2>2. w \in Nat /\ n \in Nat /\ l \in Nat /\ next \in 1 .. l
    <3>1. w \in Nat
      BY <2>1 DEF Reading
    <3>2. n \in Nat /\ l \in Nat /\ next \in Nat \ {0} /\ next <= l
      BY <1>1, <1>2
    <3> HIDE DEF n, l, next
    <3> QED
      BY <3>1, <3>2
  <2>3. /\ \A i \in 1 .. l : w + i <= n => utf.symbols[i] = utf.text[w + i]
        /\ w + l > n => utf.tail \in Cut
    BY <2>1 DEF Reading
  <2>4. v < n => symbol = utf.text[v + 1]
    <3>1. v + 1 = w + next
      BY <2>2
    <3>2. v < n => w + next <= n
      BY <2>2
    <3> QED
      BY <3>1, <3>2, <2>2, <2>3
  <2>5. v >= n => utf.tail \in Cut
    <3>1. v >= n => w + l > n
      BY <2>2
    <3> QED
      BY <3>1, <2>3
  <2>6. /\ fit = 0 => Written(out, utf.room, utf.text, utf.tail, done, v)
        /\ fit # 0 => Written(out, utf.room, utf.text, utf.tail, done, v + 1)
    <3> DEFINE text == utf.text
               room == utf.room
               tail == utf.tail
    <3>1. /\ text \in Seq(Nat) /\ room \in Nat /\ outfile \in Seq(Nat) /\ symbol \in Nat
          /\ bytes = encode_utf8(symbol) /\ fit = Min({Len(bytes), room - Len(outfile)})
          /\ out = outfile \o SubSeq(bytes, 1, fit)
      BY <1>2, <1>3 DEF Fit
    <3>2. /\ Output(text, done, left) /\ Written(outfile, room, text, tail, done, v)
          /\ v < Len(text) => symbol = text[v + 1]
          /\ v >= Len(text) => tail \in Cut
      BY <1>9, <2>1, <2>4, <2>5
    <3> HIDE DEF text, room, tail, symbol, bytes, fit, out, v
    <3>3. /\ fit = 0 => Written(outfile \o SubSeq(bytes, 1, fit), room, text, tail, done, v)
          /\ fit # 0 => Written(outfile \o SubSeq(bytes, 1, fit), room, text, tail, done, v + 1)
      BY ONLY <3>1, <3>2, WriteKeeps
    <3> QED
      BY <3>1, <3>3 DEF text, room, tail
  <2>7. v + 1 = w + ((next + 1) - 1) /\ next + 1 <= l + 1
    BY <2>2
  <2> HIDE DEF fit, out, v, l, next, symbol, bytes
  <2>8. CASE fit = 0
    BY <1>1, <1>7, <2>6, <2>8 DEF Copying
  <2>9. CASE fit # 0
    <3>1. Written(out, utf.room, utf.text, utf.tail, done, w + ((next + 1) - 1))
      BY <2>6, <2>7, <2>9
    <3> QED
      BY <1>1, <1>7, <2>1, <2>7, <2>9, <3>1 DEF Copying, l
  <2> QED
    BY <2>8, <2>9
<1>10. Progress'
  <2>1. ASSUME Separate(utf.text, utf.width)
        PROVE  \E rest, done, left : /\ Input(utf.text, utf.width, utf.tail, rest)
                                     /\ Output(utf.text, done, left) /\ Copying(rest, done)'
    BY <1>1, <1>9, <2>1, ProgressGives
  <2> QED
    BY <1>7, <2>1 DEF Progress
<1> QED
  BY <1>8, <1>10 DEF Utf8Inv

LEMMA WriteReturnsKeeps == Utf8Inv /\ WriteReturns => Utf8Inv'
<1> SUFFICES ASSUME Utf8Inv, WriteReturns PROVE Utf8Inv'
  OBVIOUS
<1>1. /\ utf.pc = "write" /\ infile' = infile /\ outfile' = outfile
      /\ utf.next > Len(utf.symbols)
      /\ utf' = [utf EXCEPT !.pc = "read", !.symbols = <<>>]
  BY DEF WriteReturns
<1>2. /\ infile \in Seq(Nat) /\ outfile \in Seq(Nat) /\ utf \in Utf8State
      /\ utf.symbols \in Seq(Nat) /\ utf.text \in Seq(Nat) /\ Len(outfile) <= utf.room
      /\ utf.next \in Nat \ {0}
  BY Utf8Fields DEF Utf8Inv, Utf8Typed
<1>3. /\ utf' \in Utf8State /\ utf'.text = utf.text /\ utf'.tail = utf.tail
      /\ utf'.width = utf.width
      /\ utf'.room = utf.room /\ utf'.symbols = <<>> /\ utf'.pc = "read"
  <2>1. <<>> \in Seq(Nat)
    OBVIOUS
  <2> QED
    BY <1>1, <1>2, <2>1 DEF Utf8State
<1>4. Utf8Typed'
  BY <1>1, <1>2, <1>3 DEF Utf8Typed
<1>5. ASSUME NEW rest, NEW done, Copying(rest, done)
      PROVE  Copying(rest, done)'
  <2> DEFINE l == Len(utf.symbols)
             next == utf.next
  <2>1. next <= l + 1 /\ next > l
    BY <1>1, <1>5 DEF Copying
  <2>2. PICK w : /\ Reading(infile, utf.symbols, utf.text, utf.tail, rest, w)
                 /\ Written(outfile, utf.room, utf.text, utf.tail, done, w + (next - 1))
    BY <1>1, <1>5 DEF Copying
  <2>3. w \in Nat /\ l \in Nat /\ next \in Nat
    BY <1>2, <2>2 DEF Reading
  <2>4. w + (next - 1) = w + l /\ w + l \in Nat
    <3> HIDE DEF l, next
    <3> QED
      BY <2>1, <2>3
  <2>5. Reading(infile, <<>>, utf.text, utf.tail, rest, w + l)
    <3>1. Len(<<>>) = 0 /\ (w + l) + 0 = w + l
      BY <2>4
    <3> QED
      BY <2>2, <2>4, <3>1 DEF Reading
  <2>6. Written(outfile, utf.room, utf.text, utf.tail, done, w + l)
    BY <2>2, <2>4
  <2> HIDE DEF l
  <2> QED
    BY <1>1, <1>3, <2>5, <2>6 DEF Copying
<1>6. Progress'
  <2>1. ASSUME Separate(utf.text, utf.width)
        PROVE  \E rest, done, left : /\ Input(utf.text, utf.width, utf.tail, rest)
                                     /\ Output(utf.text, done, left) /\ Copying(rest, done)'
    BY <1>1, <1>5, <2>1, ProgressGives
  <2> QED
    BY <1>3, <2>1 DEF Progress
<1> QED
  BY <1>4, <1>6 DEF Utf8Inv

LEMMA Utf8StutterKeeps == Utf8Inv /\ UNCHANGED Utf8Vars => Utf8Inv'
<1> SUFFICES ASSUME Utf8Inv, UNCHANGED Utf8Vars PROVE Utf8Inv'
  OBVIOUS
<1>1. infile' = infile /\ outfile' = outfile /\ utf' = utf
  BY DEF Utf8Vars
<1>2. Utf8Typed'
  BY <1>1 DEF Utf8Inv, Utf8Typed
<1>3. \A rest, done : Copying(rest, done)' <=> Copying(rest, done)
  BY <1>1 DEF Copying
<1>4. Progress'
  BY <1>1, <1>3 DEF Utf8Inv, Progress
<1> QED
  BY <1>2, <1>4 DEF Utf8Inv

LEMMA Utf8Steps == Utf8Inv /\ [Utf8Next]_Utf8Vars => Utf8Inv'
<1> SUFFICES ASSUME Utf8Inv, [Utf8Next]_Utf8Vars PROVE Utf8Inv'
  OBVIOUS
<1>1. CASE Start
  BY <1>1, StartKeeps
<1>2. CASE ReadSymbol
  BY <1>2, ReadSymbolKeeps
<1>3. CASE ReadReturns
  BY <1>3, ReadReturnsKeeps
<1>4. CASE WriteSymbol
  BY <1>4, WriteSymbolKeeps
<1>5. CASE WriteReturns
  BY <1>5, WriteReturnsKeeps
<1>6. CASE UNCHANGED Utf8Vars
  BY <1>6, Utf8StutterKeeps
<1> QED
  BY <1>1, <1>2, <1>3, <1>4, <1>5, <1>6 DEF Utf8Next

\* The invariant says that the output is right.
LEMMA Utf8Right == Utf8Inv => Transcoded
<1> SUFFICES ASSUME Utf8Inv, Separate(utf.text, utf.width)
             PROVE  /\ \/ IsPrefix(outfile, Right(utf.text))
                       \/ utf.tail \in Cut /\ IsPrefix(Right(utf.text), outfile)
                    /\ utf.pc = "done" /\ Len(outfile) < utf.room =>
                          IsPrefix(Right(utf.text), outfile)
  BY SMT DEF Transcoded
<1>1. Unicode(utf.text)
  BY SMT DEF Separate, Unicode
<1>2. outfile \in Seq(Nat) /\ utf.text \in Seq(Nat) /\ utf.room \in Nat
  BY Utf8Fields, SMT DEF Utf8Inv
<1>3. CASE utf.pc = "start"
  <2>1. outfile = <<>> /\ utf.text = <<>>
    BY <1>3, SMT DEF Utf8Inv, Utf8Typed
  <2>2. PICK done, left : Output(utf.text, done, left)
    BY ONLY <1>1, <1>2, OutputExists
  <2>3. Right(utf.text) = <<>>
    <3>1. Len(<<>>) = 0
      BY SMT
    <3> QED
      BY ONLY <3>1, <2>1, <2>2 DEF Output
  <2>4. IsPrefix(<<>>, <<>>)
    <3>1. <<>> \o <<>> = <<>> /\ <<>> \in Seq(Nat)
      BY SMT
    <3> QED
      BY ONLY <3>1, PrefixIs
  <2> QED
    BY ONLY <1>3, <2>1, <2>3, <2>4, SMT
<1>4. CASE utf.pc # "start"
  <2>1. PICK rest, done, left : Output(utf.text, done, left) /\ Copying(rest, done)
    BY <1>4, ProgressGives, SMT
  <2>2. \E v : /\ Written(outfile, utf.room, utf.text, utf.tail, done, v)
               /\ utf.pc = "done" => v >= Len(utf.text)
    BY ONLY <2>1 DEF Copying
  <2>3. PICK v : /\ Written(outfile, utf.room, utf.text, utf.tail, done, v)
                 /\ utf.pc = "done" => v >= Len(utf.text)
    BY ONLY <2>2
  <2>4. /\ IsPrefix(outfile, Right(utf.text))
             \/ (utf.tail \in Cut /\ IsPrefix(Right(utf.text), outfile))
        /\ v >= Len(utf.text) /\ Len(outfile) < utf.room => IsPrefix(Right(utf.text), outfile)
    <3> DEFINE text == utf.text
               room == utf.room
               tail == utf.tail
    <3>1. outfile \in Seq(Nat) /\ text \in Seq(Nat) /\ room \in Nat
      BY ONLY <1>2
    <3>2. Output(text, done, left) /\ Written(outfile, room, text, tail, done, v)
      BY ONLY <2>1, <2>3
    <3> HIDE DEF text, room, tail
    <3>3. /\ IsPrefix(outfile, Right(text)) \/ (tail \in Cut /\ IsPrefix(Right(text), outfile))
          /\ v >= Len(text) /\ Len(outfile) < room => IsPrefix(Right(text), outfile)
      BY ONLY <3>1, <3>2, WrittenIsRight
    <3> QED
      BY ONLY <3>3 DEF text, room, tail
  <2> QED
    BY ONLY <2>3, <2>4
<1> QED
  BY ONLY <1>3, <1>4

\* At every step of utf8-file the input read so far, the symbols in memory and
\* the output written belong to the same place of the text, whatever forms the
\* symbols had, but for single bytes that utf8_read takes for more, and however
\* much space there was.
THEOREM Utf8Invariant == Utf8Spec => []Utf8Inv
<1> QED
  BY Utf8Starts, Utf8Steps, PTL DEF Utf8Spec

\* utf8-file writes every symbol of Unicode in its shortest form, as far as
\* there is space, for every text and every form of its symbols other than the
\* single bytes from 64 to 127.
THEOREM TextIsTranscoded == Utf8Spec => []Transcoded
<1> QED
  BY Utf8Invariant, Utf8Right, PTL
=============================================================================
