--------------------------- MODULE LockFreeStack ---------------------------
(***************************************************************************)
(* lfstack_init, lfstack_push, lfstack_pop and lfstack_destroy of          *)
(* 07-synchronization-basics/tasks/lockfree-stack/lockfree-stack.h.        *)
(*                                                                         *)
(* A Treiber stack: a singly linked list of heap nodes whose head `top' is *)
(* replaced by compare-and-swap.  Each access to shared memory is a step   *)
(* of its own, so every interleaving of the threads is a behaviour.  The   *)
(* allocator hands a freed address out again at once, which is what an ABA *)
(* needs.  Any number of pushes runs concurrently, but at most one pop     *)
(* (the MPSC mode the README of the task asks for).                        *)
(*                                                                         *)
(* `chain' is a history variable: the addresses of the nodes in the stack, *)
(* top first, as the successful compare-and-swaps built it.  No action     *)
(* reads it except to extend it and to know that the stack is empty when   *)
(* its owner destroys it.                                                  *)
(***************************************************************************)
EXTENDS Integers, Sequences

CONSTANTS Thread,   \* the threads that use the stack
          Addr,     \* the addresses the allocator can hand out
          Value,    \* the values pushed
          Zero,     \* the integer 0, a value like the others
          NULL,     \* the null pointer
          Handle    \* the address of the lfstack_t itself

ASSUME StackAssumption == /\ Zero \in Value
                          /\ NULL \notin Addr
                          /\ Handle # NULL

VARIABLES life,     \* "raw" before lfstack_init, then "ready", "destroyed"
          top,      \* stack->top
          next,     \* node->next of each address
          val,      \* node->value of each address
          alloc,    \* the addresses that are allocated
          pc,       \* where each thread is
          new,      \* local new_node of lfstack_push
          old,      \* local old_top of lfstack_push, top of lfstack_pop
          nxt,      \* the value of the argument top->next, before the CAS
          reg,      \* parameter value of a push, result *value of a pop
          code,     \* return code of the last lfstack_destroy
          chain     \* history: the nodes of the stack, top first

heap   == <<next, val, alloc>>
locals == <<new, old, nxt, reg>>
vars   == <<life, top, next, val, alloc, pc, new, old, nxt, reg, code, chain>>

PushPc == {"push_alloc", "push_value", "push_load", "push_link", "push_cas"}
PopPc  == {"pop_load", "pop_next", "pop_cas", "pop_value", "pop_free"}
DonePc == {"push_done", "push_failed", "pop_done"}

Pointer == Addr \cup {NULL}

\* The object exists but was not initialised: its top is whatever is there.
Init == /\ life = "raw"
        /\ top \in Pointer
        /\ next = [a \in Addr |-> NULL]
        /\ val = [a \in Addr |-> Zero]
        /\ alloc = {}
        /\ pc = [t \in Thread |-> "idle"]
        /\ new = [t \in Thread |-> NULL]
        /\ old = [t \in Thread |-> NULL]
        /\ nxt = [t \in Thread |-> NULL]
        /\ reg = [t \in Thread |-> Zero]
        /\ code = "EXIT_SUCCESS"
        /\ chain = <<>>

----------------------------------------------------------------------------
(* The life of the object. *)

Quiescent == \A t \in Thread : pc[t] = "idle"

LfstackInit ==
    /\ life # "ready"
    /\ life' = "ready"
    /\ top' = NULL
    /\ UNCHANGED <<heap, pc, locals, code, chain>>

DestroyCode(stack) == IF stack = NULL THEN "EXIT_SUCCESS" ELSE "EXIT_FAILURE"

\* The owner destroys the stack once it is empty and no thread is using it.
LfstackDestroy ==
    /\ life = "ready"
    /\ Quiescent /\ chain = <<>>
    /\ life' = "destroyed"
    /\ code' = DestroyCode(Handle)
    /\ UNCHANGED <<top, heap, pc, locals, chain>>

----------------------------------------------------------------------------
(* lfstack_push *)

PushCall(t) ==
    /\ life = "ready"
    /\ pc[t] = "idle"
    /\ pc' = [pc EXCEPT ![t] = "push_alloc"]
    /\ \E v \in Value : reg' = [reg EXCEPT ![t] = v]
    /\ UNCHANGED <<life, top, heap, new, old, nxt, code, chain>>

\* calloc gives a zeroed node at an address nobody holds ...
PushAlloc(t) ==
    /\ pc[t] = "push_alloc"
    /\ \E a \in Addr \ alloc :
          /\ alloc' = alloc \cup {a}
          /\ next' = [next EXCEPT ![a] = NULL]
          /\ val' = [val EXCEPT ![a] = Zero]
          /\ new' = [new EXCEPT ![t] = a]
    /\ pc' = [pc EXCEPT ![t] = "push_value"]
    /\ UNCHANGED <<life, top, old, nxt, reg, code, chain>>

\* ... or fails, which it may do at any time.
PushAllocFails(t) ==
    /\ pc[t] = "push_alloc"
    /\ pc' = [pc EXCEPT ![t] = "push_failed"]
    /\ UNCHANGED <<life, top, heap, locals, code, chain>>

PushValue(t) ==
    /\ pc[t] = "push_value"
    /\ val' = [val EXCEPT ![new[t]] = reg[t]]
    /\ pc' = [pc EXCEPT ![t] = "push_load"]
    /\ UNCHANGED <<life, top, next, alloc, locals, code, chain>>

\* old_top = stack->top, at the head of every round of the loop.
PushLoad(t) ==
    /\ pc[t] = "push_load"
    /\ old' = [old EXCEPT ![t] = top]
    /\ pc' = [pc EXCEPT ![t] = "push_link"]
    /\ UNCHANGED <<life, top, heap, new, nxt, reg, code, chain>>

\* Mutant: the link is written into the old top instead of the new node.
PushLinkBackwards(t) ==
    /\ pc[t] = "push_link"
    /\ next' = [a \in Addr |-> IF a = old[t] THEN new[t] ELSE next[a]]
    /\ pc' = [pc EXCEPT ![t] = "push_cas"]
    /\ UNCHANGED <<life, top, val, alloc, locals, code, chain>>

PushLink(t) ==
    /\ pc[t] = "push_link"
    /\ next' = [next EXCEPT ![new[t]] = old[t]]
    /\ pc' = [pc EXCEPT ![t] = "push_cas"]
    /\ UNCHANGED <<life, top, val, alloc, locals, code, chain>>

\* Mutants of the loop: a failed compare-and-swap is tried again with the
\* refreshed old_top but the old link, or with the stale old_top.
PushCasKeepsLink(t) ==
    /\ pc[t] = "push_cas"
    /\ IF top = old[t]
       THEN /\ top' = new[t]
            /\ chain' = <<new[t]>> \o chain
            /\ pc' = [pc EXCEPT ![t] = "push_done"]
            /\ UNCHANGED old
       ELSE /\ old' = [old EXCEPT ![t] = top]
            /\ UNCHANGED <<top, chain, pc>>
    /\ UNCHANGED <<life, heap, new, nxt, reg, code>>

PushCasKeepsOld(t) ==
    /\ pc[t] = "push_cas"
    /\ IF top = old[t]
       THEN /\ top' = new[t]
            /\ chain' = <<new[t]>> \o chain
            /\ pc' = [pc EXCEPT ![t] = "push_done"]
       ELSE UNCHANGED <<top, chain, pc>>
    /\ UNCHANGED <<life, heap, locals, code>>

PushCas(t) ==
    /\ pc[t] = "push_cas"
    /\ IF top = old[t]
       THEN /\ top' = new[t]
            /\ chain' = <<new[t]>> \o chain
            /\ pc' = [pc EXCEPT ![t] = "push_done"]
            /\ UNCHANGED old
       ELSE /\ old' = [old EXCEPT ![t] = top]
            /\ pc' = [pc EXCEPT ![t] = "push_load"]
            /\ UNCHANGED <<top, chain>>
    /\ UNCHANGED <<life, heap, new, nxt, reg, code>>

----------------------------------------------------------------------------
(* lfstack_pop *)

Popping(t) == pc[t] \in PopPc \cup {"pop_done"}

\* A caller pops only when no other pop is running (MPSC).
PopCall(t) ==
    /\ life = "ready"
    /\ pc[t] = "idle"
    /\ \A u \in Thread : ~ Popping(u)
    /\ pc' = [pc EXCEPT ![t] = "pop_load"]
    /\ \E v \in Value : reg' = [reg EXCEPT ![t] = v]   \* what *value holds
    /\ UNCHANGED <<life, top, heap, new, old, nxt, code, chain>>

\* The local top becomes p: a null p ends the loop and the pop reports 0.
PopSees(t, p) ==
    /\ old' = [old EXCEPT ![t] = p]
    /\ IF p = NULL
       THEN /\ pc' = [pc EXCEPT ![t] = "pop_done"]
            /\ reg' = [reg EXCEPT ![t] = Zero]
       ELSE /\ pc' = [pc EXCEPT ![t] = "pop_next"]
            /\ UNCHANGED reg

PopLoad(t) ==
    /\ pc[t] = "pop_load"
    /\ PopSees(t, top)
    /\ UNCHANGED <<life, top, heap, new, nxt, code, chain>>

\* The argument top->next is evaluated before the compare-and-swap.
PopNext(t) ==
    /\ pc[t] = "pop_next"
    /\ nxt' = [nxt EXCEPT ![t] = next[old[t]]]
    /\ pc' = [pc EXCEPT ![t] = "pop_cas"]
    /\ UNCHANGED <<life, top, heap, new, old, reg, code, chain>>

\* Mutants of the loop: the node is freed before its value is read; top is
\* stored without a comparison; a failed round keeps the old successor, or
\* the stale top.
PopCasFrees(t) ==
    /\ pc[t] = "pop_cas"
    /\ IF top = old[t]
       THEN /\ top' = nxt[t]
            /\ chain' = Tail(chain)
            /\ alloc' = alloc \ {old[t]}
            /\ pc' = [pc EXCEPT ![t] = "pop_value"]
            /\ UNCHANGED <<old, reg>>
       ELSE /\ PopSees(t, top)
            /\ UNCHANGED <<top, chain, alloc>>
    /\ UNCHANGED <<life, next, val, new, nxt, code>>

PopStores(t) ==
    /\ pc[t] = "pop_cas"
    /\ top' = nxt[t]
    /\ chain' = Tail(chain)
    /\ pc' = [pc EXCEPT ![t] = "pop_value"]
    /\ UNCHANGED <<life, heap, locals, code>>

PopCasKeepsNext(t) ==
    /\ pc[t] = "pop_cas"
    /\ IF top = old[t]
       THEN /\ top' = nxt[t]
            /\ chain' = Tail(chain)
            /\ pc' = [pc EXCEPT ![t] = "pop_value"]
            /\ UNCHANGED old
       ELSE /\ old' = [old EXCEPT ![t] = top]
            /\ UNCHANGED <<top, chain, pc>>
    /\ UNCHANGED <<life, heap, new, nxt, reg, code>>

PopCasKeepsTop(t) ==
    /\ pc[t] = "pop_cas"
    /\ IF top = old[t]
       THEN /\ top' = nxt[t]
            /\ chain' = Tail(chain)
            /\ pc' = [pc EXCEPT ![t] = "pop_value"]
       ELSE /\ pc' = [pc EXCEPT ![t] = "pop_next"]
            /\ UNCHANGED <<top, chain>>
    /\ UNCHANGED <<life, heap, locals, code>>

PopCas(t) ==
    /\ pc[t] = "pop_cas"
    /\ IF top = old[t]
       THEN /\ top' = nxt[t]
            /\ chain' = Tail(chain)
            /\ pc' = [pc EXCEPT ![t] = "pop_value"]
            /\ UNCHANGED <<old, reg>>
       ELSE /\ PopSees(t, top)
            /\ UNCHANGED <<top, chain>>
    /\ UNCHANGED <<life, heap, new, nxt, code>>

PopValue(t) ==
    /\ pc[t] = "pop_value"
    /\ reg' = [reg EXCEPT ![t] = val[old[t]]]
    /\ pc' = [pc EXCEPT ![t] = "pop_free"]
    /\ UNCHANGED <<life, top, heap, new, old, nxt, code, chain>>

\* Mutant: the node is never freed.
PopFreeForgotten(t) ==
    /\ pc[t] = "pop_free"
    /\ pc' = [pc EXCEPT ![t] = "pop_done"]
    /\ UNCHANGED <<life, top, heap, locals, code, chain>>

\* The contents of a freed node are indeterminate.  They are cleared here,
\* and NoUseAfterFree says that no step reads them.
PopFree(t) ==
    /\ pc[t] = "pop_free"
    /\ alloc' = alloc \ {old[t]}
    /\ next' = [next EXCEPT ![old[t]] = NULL]
    /\ val' = [val EXCEPT ![old[t]] = Zero]
    /\ pc' = [pc EXCEPT ![t] = "pop_done"]
    /\ UNCHANGED <<life, top, locals, code, chain>>

----------------------------------------------------------------------------
\* The call returns; the locals of the call are gone.
Return(t) ==
    /\ pc[t] \in DonePc
    /\ pc' = [pc EXCEPT ![t] = "idle"]
    /\ new' = [new EXCEPT ![t] = NULL]
    /\ old' = [old EXCEPT ![t] = NULL]
    /\ nxt' = [nxt EXCEPT ![t] = NULL]
    /\ reg' = [reg EXCEPT ![t] = Zero]
    /\ UNCHANGED <<life, top, heap, code, chain>>

\* The steps a running call takes by itself.
Work(t) == \/ PushAlloc(t) \/ PushAllocFails(t) \/ PushValue(t)
           \/ PushLoad(t) \/ PushLink(t) \/ PushCas(t)
           \/ PopLoad(t) \/ PopNext(t) \/ PopCas(t) \/ PopValue(t)
           \/ PopFree(t) \/ Return(t)

Next == \/ LfstackInit \/ LfstackDestroy
        \/ \E t \in Thread : PushCall(t) \/ PopCall(t) \/ Work(t)

Spec == Init /\ [][Next]_vars

----------------------------------------------------------------------------
(* Properties *)

Nodes == {chain[i] : i \in 1 .. Len(chain)}

\* The node a thread holds privately: a pushed node before its publication,
\* a popped node until it is freed.
Owns(t, a) ==
    \/ pc[t] \in {"push_value", "push_load", "push_link", "push_cas"} /\ new[t] = a
    \/ pc[t] \in {"pop_value", "pop_free"} /\ old[t] = a

\* Every variable stays in its type (the fields of lockfree-stack.h:8-15 and
\* the locals of its functions).
TypeOK ==
    /\ life \in {"raw", "ready", "destroyed"}
    /\ top \in Pointer
    /\ next \in [Addr -> Pointer]
    /\ val \in [Addr -> Value]
    /\ alloc \in SUBSET Addr
    /\ pc \in [Thread -> {"idle"} \cup PushPc \cup PopPc \cup DonePc]
    /\ new \in [Thread -> Pointer]
    /\ old \in [Thread -> Pointer]
    /\ nxt \in [Thread -> Pointer]
    /\ reg \in [Thread -> Value]
    /\ code \in {"EXIT_SUCCESS", "EXIT_FAILURE"}
    /\ chain \in Seq(Addr)

\* The list that starts at `top' is exactly the nodes pushed and not yet
\* popped, in their order, without a cycle and ending in NULL: no interleaving
\* of the two compare-and-swap loops loses, duplicates or reorders a node.
ListIntact ==
    life = "ready" =>
        /\ top = IF chain = <<>> THEN NULL ELSE chain[1]
        /\ \A i \in 1 .. Len(chain) :
              next[chain[i]] = IF i = Len(chain) THEN NULL ELSE chain[i + 1]
        /\ \A i, j \in 1 .. Len(chain) : chain[i] = chain[j] => i = j

\* A thread about to dereference a node (the argument top->next at :57, the
\* value at :65, the stores at :40 and :45, free at :66) finds it allocated:
\* with one popper no node is freed under a reader, whatever addresses the
\* allocator reuses.
NoUseAfterFree ==
    \A t \in Thread :
        /\ pc[t] \in {"pop_next", "pop_value", "pop_free"} => old[t] \in alloc
        /\ pc[t] \in {"push_value", "push_load", "push_link", "push_cas"} =>
              new[t] \in alloc

\* Every allocated node is either in the stack or in the hands of exactly one
\* thread, and nothing else is allocated: no leak, no double free, and no node
\* that is both private and published.
OneOwner ==
    /\ \A a \in Addr : a \in alloc <=> a \in Nodes \/ \E t \in Thread : Owns(t, a)
    /\ \A t \in Thread, a \in Nodes : ~ Owns(t, a)
    /\ \A t, u \in Thread, a \in Addr : Owns(t, a) /\ Owns(u, a) => t = u

\* What a thread remembers of the stack is still true when it acts on it: the
\* popper's top is in the stack and nxt is its successor, although other
\* threads pushed meanwhile, and a pusher's node points to the old_top its
\* compare-and-swap expects, even if that address was freed and reused (ABA).
FreshViews ==
    \A t \in Thread :
        /\ pc[t] \in {"pop_next", "pop_cas"} => old[t] \in Nodes
        /\ pc[t] = "pop_cas" => nxt[t] = next[old[t]]
        /\ pc[t] = "push_cas" => next[new[t]] = old[t]

\* A node that is in the stack is never written to: the popper reads next and
\* value of a published node without a lock and relies on it.
PublishedNodesFrozen ==
    [][\A a \in Nodes : a \in Nodes' => next'[a] = next[a] /\ val'[a] = val[a]]_vars

\* Every pop returns, even against pushes that keep changing top: each of them
\* consumes memory that only this pop can give back.
PopReturns == \A t \in Thread : pc[t] = "pop_load" ~> pc[t] = "idle"

\* Lock-freedom: while a thread is inside the loop of a push or of a pop, some
\* operation completes, that one or another.
Completing == \E t \in Thread : pc[t] \in {"push_done", "pop_done", "pop_value"}
SomeoneCompletes ==
    (\E t \in Thread : pc[t] \in {"push_load", "push_link", "push_cas",
                                   "pop_next", "pop_cas"}) ~> Completing

----------------------------------------------------------------------------
(* The stack implements AbstractStack: each operation takes effect at its  *)
(* successful compare-and-swap, an empty pop when it reads a null top.     *)

Items == [i \in 1 .. Len(chain) |-> val[chain[i]]]

OpOf(t) ==
    LET Kind(k, v) == [kind |-> k, val |-> v]
    IN CASE pc[t] = "idle" -> Kind("idle", Zero)
         [] pc[t] \in PushPc -> Kind("push", reg[t])
         [] pc[t] = "push_done" -> Kind("pushed", Zero)
         [] pc[t] = "push_failed" -> Kind("failed", Zero)
         [] pc[t] \in {"pop_load", "pop_next", "pop_cas"} -> Kind("pop", Zero)
         [] pc[t] = "pop_value" -> Kind("popped", val[old[t]])
         [] OTHER -> Kind("popped", reg[t])

Ops == [t \in Thread |-> OpOf(t)]

Abs == INSTANCE AbstractStack WITH items <- Items, op <- Ops

\* Pushes and pops are linearizable to an atomic stack: each of them takes
\* effect in one step between its call and its return (README.md:16-26).
Linearizable == Abs!ASpec
=============================================================================
