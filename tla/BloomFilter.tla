----------------------------- MODULE BloomFilter ----------------------------
(***************************************************************************)
(* 01-data-representation/tasks/bloom-filter/bloom_filter.c: a Bloom       *)
(* filter over an array of words of bits.  A key is the sequence of the    *)
(* numbers calc_hash makes of its characters (str[i] - ' ' + 1, negative   *)
(* for characters before the space and, with a signed char, after 127).    *)
(***************************************************************************)
EXTENDS Integers, Sequences

CONSTANTS Keys,        \* the keys, as sequences of integers
          SetSizes,    \* values of set_size
          HashCounts,  \* values of hash_fn_count
          WORD,        \* bits in a word of the array (64)
          WRAP         \* unsigned arithmetic is modulo this (2^64)

ASSUME BloomAssumption == /\ Keys \subseteq Seq(Int)
                          /\ SetSizes \subseteq Nat \ {0}
                          /\ HashCounts \subseteq Nat
                          /\ WORD \in Nat \ {0} /\ WRAP \in Nat \ {0}

VARIABLES bloom,     \* the filter; its set is the set of bits that are 1
          inserted   \* history: the keys inserted

calc_hash(str, modulus, seed) ==
    LET hash[i \in 0 .. Len(str)] ==
            IF i = 0 THEN 0
            ELSE ((hash[i - 1] * seed + (str[i] % WRAP)) % WRAP) % modulus
    IN  hash[Len(str)]

BloomInit ==
        /\ bloom = [set |-> {}, words |-> 0, set_size |-> 0, hash_fn_count |-> 0]
        /\ inserted = {}

bloom_init ==
    /\ bloom.set_size = 0
    /\ \E size \in SetSizes, n \in HashCounts :
          bloom' = [set |-> {}, words |-> ((size + WORD - 1) % WRAP) \div WORD,
                    set_size |-> size, hash_fn_count |-> n]
    /\ UNCHANGED inserted

Hash(key, seed) == calc_hash(key, bloom.set_size, seed)

\* The bits of a key, one for each seed.
Bits(key) == {Hash(key, i) : i \in 0 .. bloom.hash_fn_count - 1}

\* What lies behind the array is somebody else's and does not last.
Allocated(bits) == {b \in bits : b \div WORD < bloom.words}

\* Mutant: = for |=, which clears the other bits of the word.
InsertAssigns(key) ==
    /\ bloom.set_size # 0
    /\ bloom' = [bloom EXCEPT !.set =
                   {b \in @ : \A h \in Bits(key) : b \div WORD # h \div WORD} \cup Allocated(Bits(key))]
    /\ inserted' = inserted \cup {key}

bloom_insert(key) ==
    /\ bloom.set_size # 0
    /\ bloom' = [bloom EXCEPT !.set = @ \cup Allocated(Bits(key))]
    /\ inserted' = inserted \cup {key}

bloom_check(key) == Bits(key) \subseteq bloom.set

bloom_destroy ==
    /\ bloom.set_size # 0
    /\ bloom' = [set |-> {}, words |-> 0, set_size |-> 0, hash_fn_count |-> 0]
    /\ inserted' = {}

BloomNext ==
    bloom_init \/ (\E key \in Keys : bloom_insert(key)) \/ bloom_destroy

----------------------------------------------------------------------------
(* Properties *)

\* A key that was inserted is always found (README.md:6), whatever was
\* inserted after it and also if it has negative characters, whose products
\* wrap: its bits are in the array, and nobody clears them.
NoFalseNegatives == \A key \in inserted : bloom_check(key)
=============================================================================
