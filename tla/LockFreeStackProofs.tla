------------------------ MODULE LockFreeStackProofs ------------------------
(***************************************************************************)
(* The safety properties of LockFreeStack, for any sets of threads,        *)
(* addresses and values.  The argument is one inductive invariant, IInv:   *)
(* the list is intact BECAUSE what a thread remembers of it is still true  *)
(* (FreshViews), and that is so because every node has one owner (OneOwner *)
(* gives that a private node is not in the list) and because only one      *)
(* thread removes nodes (OnePopper).                                       *)
(***************************************************************************)
EXTENDS LockFreeStack, SequenceTheorems, TLAPS

----------------------------------------------------------------------------
(* The inductive invariant *)

\* Calls are made only on an initialised stack.
LifeCycle == life # "ready" => Quiescent /\ chain = <<>>

\* The MPSC discipline of the callers.
OnePopper == \A t, u \in Thread : Popping(t) /\ Popping(u) => t = u

IInv == /\ TypeOK
        /\ LifeCycle
        /\ OnePopper
        /\ ListIntact
        /\ NoUseAfterFree
        /\ OneOwner
        /\ FreshViews

----------------------------------------------------------------------------
(* The two ways the list changes *)

\* The sequence a push leaves: the new node before the old ones.
LEMMA PushedChain ==
    ASSUME NEW s \in Seq(Addr), NEW a \in Addr
    PROVE  /\ <<a>> \o s \in Seq(Addr)
           /\ Len(<<a>> \o s) = Len(s) + 1
           /\ (<<a>> \o s)[1] = a
           /\ \A i \in 1 .. Len(s) : (<<a>> \o s)[i + 1] = s[i]
           /\ <<a>> \o s # <<>>
<1>1. <<a>> \in Seq(Addr) /\ Len(<<a>>) = 1 /\ <<a>>[1] = a
  OBVIOUS
<1>2. Len(s) \in Nat
  BY LenProperties
<1>3. /\ <<a>> \o s \in Seq(Addr)
      /\ Len(<<a>> \o s) = 1 + Len(s)
      /\ \A i \in 1 .. 1 + Len(s) :
            (<<a>> \o s)[i] = IF i <= 1 THEN <<a>>[i] ELSE s[i - 1]
  BY <1>1, ConcatProperties
<1>4. \A i \in 1 .. Len(s) : (<<a>> \o s)[i + 1] = s[i]
  <2> SUFFICES ASSUME NEW i \in 1 .. Len(s)
               PROVE  (<<a>> \o s)[i + 1] = s[i]
    OBVIOUS
  <2>1. i + 1 \in 1 .. 1 + Len(s) /\ ~ (i + 1 <= 1) /\ (i + 1) - 1 = i
    BY <1>2
  <2> QED BY <2>1, <1>3
<1>5. <<a>> \o s # <<>>
  BY <1>2, <1>3, EmptySeq
<1> QED BY <1>1, <1>2, <1>3, <1>4, <1>5

\* The sequence a pop leaves: everything but the first element.
LEMMA PoppedSeq ==
    ASSUME NEW S, NEW s \in Seq(S), s # <<>>
    PROVE  /\ Tail(s) \in Seq(S)
           /\ Len(s) \in Nat \ {0}
           /\ Len(Tail(s)) = Len(s) - 1
           /\ \A i \in 1 .. Len(s) - 1 : Tail(s)[i] = s[i + 1]
           /\ Tail(s) = <<>> <=> Len(s) = 1
<1>1. Len(s) \in Nat \ {0}
  BY EmptySeq
<1>2. /\ Tail(s) \in Seq(S)
      /\ Len(Tail(s)) = Len(s) - 1
      /\ \A i \in 1 .. Len(s) - 1 : Tail(s)[i] = s[i + 1]
  BY HeadTailProperties
<1>3. Tail(s) = <<>> <=> Len(Tail(s)) = 0
  BY <1>2, EmptySeq
<1> QED BY <1>1, <1>2, <1>3

\* The nodes of the stack are addresses.
LEMMA NodesAreAddresses == TypeOK => Nodes \subseteq Addr
  BY ElementOfSeq DEF TypeOK, Nodes

\* A step that leaves the list, the allocated set and everybody's private
\* nodes alone preserves OneOwner.
LEMMA OwnersStay ==
    ASSUME TypeOK, OneOwner, UNCHANGED <<alloc, chain>>,
           \A t \in Thread, a \in Addr : Owns(t, a)' <=> Owns(t, a)
    PROVE  OneOwner'
<1>1. Nodes' = Nodes
  BY DEF Nodes
<1>2. Nodes \subseteq Addr
  BY NodesAreAddresses
<1> QED BY <1>1, <1>2 DEF OneOwner

\* A step that leaves top, the list and the links of its nodes alone
\* preserves ListIntact.
LEMMA ListStays ==
    ASSUME ListIntact, UNCHANGED <<life, top, chain>>,
           \A a \in Nodes : next'[a] = next[a]
    PROVE  ListIntact'
  BY DEF ListIntact, Nodes

----------------------------------------------------------------------------
(* What the invariant says of a state *)

\* The nodes of the list are allocated.
LEMMA NodesAllocated == IInv => Nodes \subseteq alloc
  BY NodesAreAddresses DEF IInv, OneOwner

\* A top that is not null is the first node of the list.
LEMMA TopInList ==
    ASSUME IInv, life = "ready", top # NULL
    PROVE  chain # <<>> /\ top = chain[1] /\ top \in Nodes
<1>1. chain # <<>> /\ top = chain[1]
  BY DEF IInv, ListIntact
<1>2. Len(chain) \in Nat \ {0}
  BY <1>1, EmptySeq DEF IInv, TypeOK
<1> QED BY <1>1, <1>2 DEF Nodes

----------------------------------------------------------------------------
(* Every step of a call preserves the invariant *)

\* A push is called.
LEMMA PushCallInv ==
    ASSUME IInv, NEW t \in Thread, PushCall(t)
    PROVE  IInv'
<1> USE DEF PushCall, heap, locals
<1>1. TypeOK'
  BY DEF IInv, TypeOK, PushPc, PopPc, DonePc
<1>2. LifeCycle'
  BY DEF IInv, LifeCycle, Quiescent
<1>3. OnePopper'
  BY DEF IInv, TypeOK, OnePopper, Popping, PopPc
<1>4. ListIntact'
  BY DEF IInv, ListIntact
<1>5. NoUseAfterFree'
  BY DEF IInv, TypeOK, NoUseAfterFree
<1>6. OneOwner'
  <2>1. \A u \in Thread, a \in Addr : Owns(u, a)' <=> Owns(u, a)
    BY DEF IInv, TypeOK, Owns
  <2> QED BY <2>1, OwnersStay DEF IInv
<1>7. FreshViews'
  BY DEF IInv, TypeOK, FreshViews, Nodes
<1> QED BY <1>1, <1>2, <1>3, <1>4, <1>5, <1>6, <1>7 DEF IInv

\* calloc finds no memory, and the push ends.
LEMMA PushAllocFailsInv ==
    ASSUME IInv, NEW t \in Thread, PushAllocFails(t)
    PROVE  IInv'
<1> USE DEF PushAllocFails, heap, locals
<1>1. TypeOK'
  BY DEF IInv, TypeOK, PushPc, PopPc, DonePc
<1>2. LifeCycle'
  BY DEF IInv, LifeCycle, Quiescent
<1>3. OnePopper'
  BY DEF IInv, TypeOK, OnePopper, Popping, PopPc
<1>4. ListIntact'
  BY DEF IInv, ListIntact
<1>5. NoUseAfterFree'
  BY DEF IInv, TypeOK, NoUseAfterFree
<1>6. OneOwner'
  <2>1. \A u \in Thread, a \in Addr : Owns(u, a)' <=> Owns(u, a)
    BY DEF IInv, TypeOK, Owns
  <2> QED BY <2>1, OwnersStay DEF IInv
<1>7. FreshViews'
  BY DEF IInv, TypeOK, FreshViews, Nodes
<1> QED BY <1>1, <1>2, <1>3, <1>4, <1>5, <1>6, <1>7 DEF IInv

\* The value is stored in the new node, which nobody else sees.
LEMMA PushValueInv ==
    ASSUME IInv, NEW t \in Thread, PushValue(t)
    PROVE  IInv'
<1> USE DEF PushValue, heap, locals
<1>1. TypeOK'
  BY DEF IInv, TypeOK, PushPc, PopPc, DonePc
<1>2. LifeCycle'
  BY DEF IInv, LifeCycle, Quiescent
<1>3. OnePopper'
  BY DEF IInv, TypeOK, OnePopper, Popping, PopPc
<1>4. ListIntact'
  BY DEF IInv, ListIntact
<1>5. NoUseAfterFree'
  BY DEF IInv, TypeOK, NoUseAfterFree
<1>6. OneOwner'
  <2>1. \A u \in Thread, a \in Addr : Owns(u, a)' <=> Owns(u, a)
    BY DEF IInv, TypeOK, Owns
  <2> QED BY <2>1, OwnersStay DEF IInv
<1>7. FreshViews'
  BY DEF IInv, TypeOK, FreshViews, Nodes
<1> QED BY <1>1, <1>2, <1>3, <1>4, <1>5, <1>6, <1>7 DEF IInv

\* A pop is called while no other runs.
LEMMA PopCallInv ==
    ASSUME IInv, NEW t \in Thread, PopCall(t)
    PROVE  IInv'
<1> USE DEF PopCall, heap, locals
<1>1. TypeOK'
  BY DEF IInv, TypeOK, PushPc, PopPc, DonePc
<1>2. LifeCycle'
  BY DEF IInv, LifeCycle, Quiescent
<1>3. OnePopper'
  BY DEF IInv, TypeOK, OnePopper, Popping, PopPc
<1>4. ListIntact'
  BY DEF IInv, ListIntact
<1>5. NoUseAfterFree'
  BY DEF IInv, TypeOK, NoUseAfterFree
<1>6. OneOwner'
  <2>1. \A u \in Thread, a \in Addr : Owns(u, a)' <=> Owns(u, a)
    BY DEF IInv, TypeOK, Owns
  <2> QED BY <2>1, OwnersStay DEF IInv
<1>7. FreshViews'
  BY DEF IInv, TypeOK, FreshViews, Nodes
<1> QED BY <1>1, <1>2, <1>3, <1>4, <1>5, <1>6, <1>7 DEF IInv

\* calloc returns an address that is in nobody's hands, perhaps one that was
\* freed.
LEMMA PushAllocInv ==
    ASSUME IInv, NEW t \in Thread, PushAlloc(t)
    PROVE  IInv'
<1> USE DEF PushAlloc, heap, locals
<1> PICK a \in Addr \ alloc :
          /\ alloc' = alloc \cup {a}
          /\ next' = [next EXCEPT ![a] = NULL]
          /\ val' = [val EXCEPT ![a] = Zero]
          /\ new' = [new EXCEPT ![t] = a]
  OBVIOUS
<1>a. a \notin Nodes
  BY NodesAllocated
<1>1. TypeOK'
  BY StackAssumption DEF IInv, TypeOK, Pointer, PushPc
<1>2. LifeCycle'
  BY DEF IInv, LifeCycle, Quiescent
<1>3. OnePopper'
  BY DEF IInv, TypeOK, OnePopper, Popping, PopPc
<1>4. ListIntact'
  <2>1. \A b \in Nodes : next'[b] = next[b]
    BY <1>a, NodesAreAddresses DEF IInv, TypeOK
  <2> QED BY <2>1, ListStays DEF IInv
<1>5. NoUseAfterFree'
  BY DEF IInv, TypeOK, NoUseAfterFree
<1>6. OneOwner'
  <2>1. Nodes' = Nodes /\ Nodes \subseteq Addr
    BY NodesAreAddresses DEF IInv, Nodes
  <2>2. \A u \in Thread : ~ Owns(u, a)
    BY DEF IInv, OneOwner
  <2>3. \A u \in Thread, b \in Addr :
           Owns(u, b)' <=> Owns(u, b) \/ (u = t /\ b = a)
    BY DEF IInv, TypeOK, Owns
  <2> QED BY <1>a, <2>1, <2>2, <2>3 DEF IInv, OneOwner
<1>7. FreshViews'
  <2>1. Nodes' = Nodes /\ Nodes \subseteq Addr
    BY NodesAreAddresses DEF IInv, Nodes
  <2> QED BY <1>a, <2>1 DEF IInv, TypeOK, FreshViews, NoUseAfterFree
<1> QED BY <1>1, <1>2, <1>3, <1>4, <1>5, <1>6, <1>7 DEF IInv

\* A push reads the top; it may be stale at once.
LEMMA PushLoadInv ==
    ASSUME IInv, NEW t \in Thread, PushLoad(t)
    PROVE  IInv'
<1> USE DEF PushLoad, heap, locals
<1>1. TypeOK'
  BY DEF IInv, TypeOK, PushPc
<1>2. LifeCycle'
  BY DEF IInv, LifeCycle, Quiescent
<1>3. OnePopper'
  BY DEF IInv, TypeOK, OnePopper, Popping, PopPc
<1>4. ListIntact'
  BY DEF IInv, ListIntact
<1>5. NoUseAfterFree'
  BY DEF IInv, TypeOK, NoUseAfterFree
<1>6. OneOwner'
  <2>1. \A u \in Thread, a \in Addr : Owns(u, a)' <=> Owns(u, a)
    BY DEF IInv, TypeOK, Owns
  <2> QED BY <2>1, OwnersStay DEF IInv
<1>7. FreshViews'
  BY DEF IInv, TypeOK, FreshViews, Nodes
<1> QED BY <1>1, <1>2, <1>3, <1>4, <1>5, <1>6, <1>7 DEF IInv

\* The new node is linked to the top that was read.
LEMMA PushLinkInv ==
    ASSUME IInv, NEW t \in Thread, PushLink(t)
    PROVE  IInv'
<1> USE DEF PushLink, heap, locals
<1>a. new[t] \in Addr /\ Owns(t, new[t]) /\ new[t] \notin Nodes
  BY DEF IInv, TypeOK, NoUseAfterFree, OneOwner, Owns
<1>b. \A b \in Nodes : next'[b] = next[b]
  BY <1>a, NodesAreAddresses DEF IInv, TypeOK
<1>1. TypeOK'
  BY DEF IInv, TypeOK, PushPc, PopPc, DonePc
<1>2. LifeCycle'
  BY DEF IInv, LifeCycle, Quiescent
<1>3. OnePopper'
  BY DEF IInv, TypeOK, OnePopper, Popping, PopPc
<1>4. ListIntact'
  BY <1>b, ListStays DEF IInv
<1>5. NoUseAfterFree'
  BY DEF IInv, TypeOK, NoUseAfterFree
<1>6. OneOwner'
  <2>1. \A u \in Thread, a \in Addr : Owns(u, a)' <=> Owns(u, a)
    BY DEF IInv, TypeOK, Owns
  <2> QED BY <2>1, OwnersStay DEF IInv
<1>7. FreshViews'
  <2>1. Nodes' = Nodes
    BY DEF Nodes
  <2>2. \A u \in Thread : pc[u] = "push_cas" => new[u] # new[t]
    BY <1>a DEF IInv, OneOwner, Owns
  <2> QED BY <1>a, <1>b, <2>1, <2>2 DEF IInv, TypeOK, FreshViews
<1> QED BY <1>1, <1>2, <1>3, <1>4, <1>5, <1>6, <1>7 DEF IInv

\* A pop reads the top, which stays in the list until this pop takes it off.
LEMMA PopLoadInv ==
    ASSUME IInv, NEW t \in Thread, PopLoad(t)
    PROVE  IInv'
<1> USE DEF PopLoad, heap, locals, PopSees
<1>a. life = "ready" /\ Nodes' = Nodes
  BY DEF IInv, LifeCycle, Quiescent, Nodes
<1>b. top # NULL => top \in Nodes /\ top \in alloc
  BY <1>a, TopInList, NodesAllocated
<1>1. TypeOK'
  BY StackAssumption DEF IInv, TypeOK, Pointer, PopPc, DonePc
<1>2. LifeCycle'
  BY DEF IInv, LifeCycle, Quiescent
<1>3. OnePopper'
  BY DEF IInv, TypeOK, OnePopper, Popping, PopPc
<1>4. ListIntact'
  BY DEF IInv, ListIntact
<1>5. NoUseAfterFree'
  BY <1>b DEF IInv, TypeOK, NoUseAfterFree
<1>6. OneOwner'
  <2>1. \A u \in Thread, a \in Addr : Owns(u, a)' <=> Owns(u, a)
    BY DEF IInv, TypeOK, Owns
  <2> QED BY <2>1, OwnersStay DEF IInv
<1>7. FreshViews'
  BY <1>a, <1>b DEF IInv, TypeOK, FreshViews
<1> QED BY <1>1, <1>2, <1>3, <1>4, <1>5, <1>6, <1>7 DEF IInv

\* A pop reads the next node of a node that is in the list.
LEMMA PopNextInv ==
    ASSUME IInv, NEW t \in Thread, PopNext(t)
    PROVE  IInv'
<1> USE DEF PopNext, heap, locals
<1>1. TypeOK'
  BY StackAssumption DEF IInv, TypeOK, Pointer, NoUseAfterFree, PushPc, PopPc, DonePc
<1>2. LifeCycle'
  BY DEF IInv, LifeCycle, Quiescent
<1>3. OnePopper'
  BY DEF IInv, TypeOK, OnePopper, Popping, PopPc
<1>4. ListIntact'
  BY DEF IInv, ListIntact
<1>5. NoUseAfterFree'
  BY DEF IInv, TypeOK, NoUseAfterFree
<1>6. OneOwner'
  <2>1. \A u \in Thread, a \in Addr : Owns(u, a)' <=> Owns(u, a)
    BY DEF IInv, TypeOK, Owns
  <2> QED BY <2>1, OwnersStay DEF IInv
<1>7. FreshViews'
  BY DEF IInv, TypeOK, FreshViews, Nodes
<1> QED BY <1>1, <1>2, <1>3, <1>4, <1>5, <1>6, <1>7 DEF IInv

\* A pop reads the value of the node it took off.
LEMMA PopValueInv ==
    ASSUME IInv, NEW t \in Thread, PopValue(t)
    PROVE  IInv'
<1> USE DEF PopValue, heap, locals
<1>1. TypeOK'
  BY StackAssumption DEF IInv, TypeOK, Pointer, NoUseAfterFree, PushPc, PopPc, DonePc
<1>2. LifeCycle'
  BY DEF IInv, LifeCycle, Quiescent
<1>3. OnePopper'
  BY DEF IInv, TypeOK, OnePopper, Popping, PopPc
<1>4. ListIntact'
  BY DEF IInv, ListIntact
<1>5. NoUseAfterFree'
  BY DEF IInv, TypeOK, NoUseAfterFree
<1>6. OneOwner'
  <2>1. \A u \in Thread, a \in Addr : Owns(u, a)' <=> Owns(u, a)
    BY DEF IInv, TypeOK, Owns
  <2> QED BY <2>1, OwnersStay DEF IInv
<1>7. FreshViews'
  BY DEF IInv, TypeOK, FreshViews, Nodes
<1> QED BY <1>1, <1>2, <1>3, <1>4, <1>5, <1>6, <1>7 DEF IInv

\* A pop frees the node it took off, which nobody else remembers for use.
LEMMA PopFreeInv ==
    ASSUME IInv, NEW t \in Thread, PopFree(t)
    PROVE  IInv'
<1> USE DEF PopFree, heap, locals
<1>a. old[t] \in Addr /\ Owns(t, old[t]) /\ old[t] \notin Nodes
  BY DEF IInv, TypeOK, NoUseAfterFree, OneOwner, Owns
<1>b. \A b \in Nodes : next'[b] = next[b] /\ b # old[t]
  BY <1>a, NodesAreAddresses DEF IInv, TypeOK
<1>c. \A u \in Thread : u # t => ~ Owns(u, old[t])
  BY <1>a DEF IInv, OneOwner
<1>d. \A u \in Thread : u # t => pc[u] \notin PopPc
  BY DEF IInv, OnePopper, Popping, PopPc
<1>e. Nodes' = Nodes
  BY DEF Nodes
<1>1. TypeOK'
  BY StackAssumption DEF IInv, TypeOK, Pointer, NoUseAfterFree, PushPc, PopPc, DonePc
<1>2. LifeCycle'
  BY DEF IInv, LifeCycle, Quiescent
<1>3. OnePopper'
  BY DEF IInv, TypeOK, OnePopper, Popping, PopPc
<1>4. ListIntact'
  BY <1>b, ListStays DEF IInv
<1>5. NoUseAfterFree'
  BY <1>c, <1>d DEF IInv, TypeOK, NoUseAfterFree, Owns, PopPc
<1>6. OneOwner'
  <2>1. \A u \in Thread, b \in Addr :
           Owns(u, b)' <=> Owns(u, b) /\ ~ (u = t /\ b = old[t])
    BY <1>a DEF IInv, TypeOK, Owns
  <2> QED BY <1>a, <1>b, <1>c, <1>e, <2>1, NodesAreAddresses DEF IInv, OneOwner
<1>7. FreshViews'
  <2>1. \A u \in Thread : pc[u] = "push_cas" => new[u] # old[t]
    BY <1>a, <1>c DEF Owns
  <2> QED BY <1>b, <1>d, <1>e, <2>1 DEF IInv, TypeOK, FreshViews, PopPc
<1> QED BY <1>1, <1>2, <1>3, <1>4, <1>5, <1>6, <1>7 DEF IInv

\* A call returns.
LEMMA ReturnInv ==
    ASSUME IInv, NEW t \in Thread, Return(t)
    PROVE  IInv'
<1> USE DEF Return, heap, locals
<1>1. TypeOK'
  BY StackAssumption DEF IInv, TypeOK, Pointer, NoUseAfterFree, PushPc, PopPc, DonePc
<1>2. LifeCycle'
  BY DEF IInv, LifeCycle, Quiescent
<1>3. OnePopper'
  BY DEF IInv, TypeOK, OnePopper, Popping, PopPc
<1>4. ListIntact'
  BY DEF IInv, ListIntact
<1>5. NoUseAfterFree'
  BY DEF IInv, TypeOK, NoUseAfterFree, DonePc
<1>6. OneOwner'
  <2>1. \A u \in Thread, a \in Addr : Owns(u, a)' <=> Owns(u, a)
    BY DEF IInv, TypeOK, Owns, DonePc
  <2> QED BY <2>1, OwnersStay DEF IInv
<1>7. FreshViews'
  BY DEF IInv, TypeOK, FreshViews, Nodes, DonePc
<1> QED BY <1>1, <1>2, <1>3, <1>4, <1>5, <1>6, <1>7 DEF IInv

\* The push publishes its node, or learns the new top and tries again.
LEMMA PushCasInv ==
    ASSUME IInv, NEW t \in Thread, PushCas(t)
    PROVE  IInv'
<1> USE DEF PushCas, heap
<1>a. /\ new[t] \in Addr /\ new[t] \in alloc
      /\ Owns(t, new[t]) /\ new[t] \notin Nodes
      /\ next[new[t]] = old[t]
      /\ life = "ready"
  BY DEF IInv, TypeOK, NoUseAfterFree, OneOwner, Owns, FreshViews,
         LifeCycle, Quiescent
<1>1. CASE top # old[t]
  <2>1. TypeOK'
    BY <1>1 DEF IInv, TypeOK, PushPc
  <2>2. LifeCycle' /\ OnePopper' /\ ListIntact'
    BY <1>1 DEF IInv, TypeOK, LifeCycle, Quiescent, OnePopper, Popping,
                PopPc, ListIntact
  <2>3. NoUseAfterFree'
    BY <1>1 DEF IInv, TypeOK, NoUseAfterFree
  <2>4. \A u \in Thread, a \in Addr : Owns(u, a)' <=> Owns(u, a)
    BY <1>1 DEF IInv, TypeOK, Owns
  <2>5. OneOwner'
    BY <1>1, <2>4, OwnersStay DEF IInv
  <2>6. FreshViews'
    BY <1>1 DEF IInv, TypeOK, FreshViews, Nodes
  <2> QED BY <2>1, <2>2, <2>3, <2>5, <2>6 DEF IInv
<1>2. CASE top = old[t]
  <2>a. /\ chain \in Seq(Addr) /\ Len(chain) \in Nat
        /\ chain' = <<new[t]>> \o chain
        /\ top' = new[t] /\ pc' = [pc EXCEPT ![t] = "push_done"]
        /\ UNCHANGED <<life, heap, locals, code>>
    BY <1>2, LenProperties DEF IInv, TypeOK, locals
  <2>b. /\ chain' \in Seq(Addr) /\ Len(chain') = Len(chain) + 1
        /\ chain'[1] = new[t] /\ chain' # <<>>
        /\ \A i \in 1 .. Len(chain) : chain'[i + 1] = chain[i]
    BY <1>a, <2>a, PushedChain
  <2>c. \A i \in 2 .. Len(chain') : i - 1 \in 1 .. Len(chain) /\ chain'[i] = chain[i - 1]
    <3> SUFFICES ASSUME NEW i \in 2 .. Len(chain')
                 PROVE  i - 1 \in 1 .. Len(chain) /\ chain'[i] = chain[i - 1]
      OBVIOUS
    <3>1. i - 1 \in 1 .. Len(chain) /\ (i - 1) + 1 = i
      BY <2>a, <2>b
    <3> QED BY <2>b, <3>1
  <2>d. Nodes' = Nodes \cup {new[t]}
    <3>1. Nodes' \subseteq Nodes \cup {new[t]}
      <4> SUFFICES ASSUME NEW i \in 1 .. Len(chain')
                   PROVE  chain'[i] \in Nodes \cup {new[t]}
        BY DEF Nodes
      <4>1. i = 1 \/ i \in 2 .. Len(chain')
        BY <2>a, <2>b
      <4> QED BY <2>b, <2>c, <4>1 DEF Nodes
    <3>2. Nodes \subseteq Nodes'
      <4> SUFFICES ASSUME NEW i \in 1 .. Len(chain)
                   PROVE  chain[i] \in Nodes'
        BY DEF Nodes
      <4>1. i + 1 \in 1 .. Len(chain') /\ chain'[i + 1] = chain[i]
        BY <2>a, <2>b
      <4> QED BY <4>1 DEF Nodes
    <3>3. new[t] \in Nodes'
      BY <2>a, <2>b DEF Nodes
    <3> QED BY <3>1, <3>2, <3>3
  <2>1. TypeOK'
    BY <1>a, <2>a, <2>b DEF IInv, TypeOK, Pointer, DonePc, locals
  <2>2. LifeCycle' /\ OnePopper'
    BY <1>a, <2>a DEF IInv, TypeOK, LifeCycle, OnePopper, Popping, PopPc
  <2>3. ListIntact'
    <3> DEFINE Successor(s, i) == IF i = Len(s) THEN NULL ELSE s[i + 1]
    <3>1. next[chain'[1]] = Successor(chain', 1)
      <4>1. CASE chain = <<>>
        BY <1>a, <1>2, <2>a, <2>b, <4>1, EmptySeq DEF IInv, ListIntact
      <4>2. CASE chain # <<>>
        <5>1. Len(chain) \in Nat \ {0}
          BY <2>a, <4>2, EmptySeq
        <5>2. 1 \in 1 .. Len(chain) /\ Len(chain') # 1 /\ chain'[1 + 1] = chain[1]
          BY <2>b, <5>1
        <5> QED BY <1>a, <1>2, <2>b, <4>2, <5>2 DEF IInv, ListIntact
      <4> QED BY <4>1, <4>2
    <3>2. \A i \in 2 .. Len(chain') : next[chain'[i]] = Successor(chain', i)
      <4> SUFFICES ASSUME NEW i \in 2 .. Len(chain')
                   PROVE  next[chain'[i]] = Successor(chain', i)
        OBVIOUS
      <4>1. /\ i - 1 \in 1 .. Len(chain) /\ chain'[i] = chain[i - 1]
            /\ (i - 1) + 1 = i
            /\ i = Len(chain') <=> i - 1 = Len(chain)
        BY <2>a, <2>b, <2>c
      <4>2. next[chain[i - 1]] = IF i - 1 = Len(chain) THEN NULL ELSE chain[i]
        BY <1>a, <4>1 DEF IInv, ListIntact
      <4>3. i # Len(chain') => chain'[i + 1] = chain[i]
        <5> HAVE i # Len(chain')
        <5>1. i \in 1 .. Len(chain)
          BY <2>a, <2>b
        <5> QED BY <2>b, <5>1
      <4> QED BY <4>1, <4>2, <4>3
    <3>3. \A i \in 1 .. Len(chain') : i = 1 \/ i \in 2 .. Len(chain')
      BY <2>a, <2>b
    <3>4. \A i, j \in 1 .. Len(chain') : chain'[i] = chain'[j] => i = j
      <4> SUFFICES ASSUME NEW i \in 1 .. Len(chain'), NEW j \in 1 .. Len(chain'),
                          chain'[i] = chain'[j]
                   PROVE  i = j
        OBVIOUS
      <4>1. \A k \in 2 .. Len(chain') : chain'[k] # new[t]
        BY <1>a, <2>c DEF Nodes
      <4>2. CASE i = 1 \/ j = 1
        BY <2>b, <3>3, <4>1, <4>2
      <4>3. CASE i \in 2 .. Len(chain') /\ j \in 2 .. Len(chain')
        <5>1. i - 1 = j - 1
          BY <1>a, <2>c, <4>3 DEF IInv, ListIntact
        <5> QED BY <5>1, <4>3
      <4> QED BY <3>3, <4>2, <4>3
    <3>5. \A i \in 1 .. Len(chain') : next'[chain'[i]] = Successor(chain', i)
      BY <2>a, <3>1, <3>2, <3>3 DEF heap
    <3> QED BY <2>a, <2>b, <3>4, <3>5 DEF ListIntact
  <2>4. NoUseAfterFree'
    BY <2>a DEF IInv, TypeOK, NoUseAfterFree, locals
  <2>5. OneOwner'
    <3>1. \A u \in Thread, a \in Addr :
             Owns(u, a)' <=> Owns(u, a) /\ ~ (u = t /\ a = new[t])
      BY <2>a DEF IInv, TypeOK, Owns, locals
    <3>2. alloc' = alloc /\ Nodes \subseteq Addr
      BY <2>a, NodesAreAddresses DEF IInv, heap
    <3> QED BY <1>a, <2>d, <3>1, <3>2 DEF IInv, OneOwner
  <2>6. FreshViews'
    BY <2>a, <2>d DEF IInv, TypeOK, FreshViews, locals, heap
  <2> QED BY <2>1, <2>2, <2>3, <2>4, <2>5, <2>6 DEF IInv
<1> QED BY <1>1, <1>2

\* The pop unlinks the top node, or learns the new top and tries again.
LEMMA PopCasInv ==
    ASSUME IInv, NEW t \in Thread, PopCas(t)
    PROVE  IInv'
<1> USE DEF PopCas, heap
<1>a. /\ life = "ready"
      /\ old[t] \in Nodes /\ old[t] \in Addr /\ old[t] \in alloc
      /\ nxt[t] = next[old[t]]
  BY NodesAreAddresses, NodesAllocated
     DEF IInv, FreshViews, LifeCycle, Quiescent
<1>1. CASE top # old[t]
  <2> USE DEF PopSees
  <2>a. top # NULL => top \in Nodes /\ top \in alloc
    BY <1>a, TopInList, NodesAllocated
  <2>1. TypeOK'
    BY <1>1, StackAssumption DEF IInv, TypeOK, Pointer, PopPc, DonePc
  <2>2. LifeCycle' /\ OnePopper' /\ ListIntact'
    BY <1>1 DEF IInv, TypeOK, LifeCycle, Quiescent, OnePopper, Popping,
                PopPc, ListIntact
  <2>3. NoUseAfterFree'
    BY <1>1, <2>a DEF IInv, TypeOK, NoUseAfterFree
  <2>4. \A u \in Thread, a \in Addr : Owns(u, a)' <=> Owns(u, a)
    BY <1>1 DEF IInv, TypeOK, Owns
  <2>5. OneOwner'
    BY <1>1, <2>4, OwnersStay DEF IInv
  <2>6. FreshViews'
    BY <1>1, <2>a DEF IInv, TypeOK, FreshViews, Nodes
  <2> QED BY <2>1, <2>2, <2>3, <2>5, <2>6 DEF IInv
<1>2. CASE top = old[t]
  <2>a. /\ top' = nxt[t] /\ chain' = Tail(chain)
        /\ pc' = [pc EXCEPT ![t] = "pop_value"]
        /\ UNCHANGED <<life, heap, locals, code>>
    BY <1>2 DEF locals
  <2>b. chain # <<>> /\ chain[1] = old[t]
    <3>1. old[t] # NULL
      BY <1>a, StackAssumption
    <3> QED BY <1>a, <1>2, <3>1, TopInList
  <2>c. /\ chain' \in Seq(Addr) /\ Len(chain) \in Nat \ {0}
        /\ Len(chain') = Len(chain) - 1
        /\ \A i \in 1 .. Len(chain') : i + 1 \in 1 .. Len(chain)
                                       /\ chain'[i] = chain[i + 1]
        /\ chain' = <<>> <=> Len(chain) = 1
    <3>1. /\ chain' \in Seq(Addr) /\ Len(chain) \in Nat \ {0}
          /\ Len(chain') = Len(chain) - 1
          /\ \A i \in 1 .. Len(chain) - 1 : chain'[i] = chain[i + 1]
          /\ chain' = <<>> <=> Len(chain) = 1
      BY <2>a, <2>b, PoppedSeq DEF IInv, TypeOK
    <3> QED BY <3>1
  <2>d. Nodes' = Nodes \ {old[t]}
    <3>1. \A i \in 1 .. Len(chain') : chain'[i] \in Nodes \ {old[t]}
      <4> SUFFICES ASSUME NEW i \in 1 .. Len(chain')
                   PROVE  chain[i + 1] \in Nodes \ {old[t]}
        BY <2>c
      <4>1. i + 1 \in 1 .. Len(chain) /\ 1 \in 1 .. Len(chain) /\ i + 1 # 1
        BY <2>c
      <4> QED BY <1>a, <2>b, <4>1 DEF IInv, ListIntact, Nodes
    <3>2. \A i \in 1 .. Len(chain) : chain[i] # old[t] => chain[i] \in Nodes'
      <4> SUFFICES ASSUME NEW i \in 1 .. Len(chain), chain[i] # old[t]
                   PROVE  chain[i] \in Nodes'
        OBVIOUS
      <4>1. i - 1 \in 1 .. Len(chain') /\ (i - 1) + 1 = i
        BY <2>b, <2>c
      <4>2. chain'[i - 1] = chain[i]
        BY <2>c, <4>1
      <4> QED BY <4>1, <4>2 DEF Nodes
    <3> QED BY <3>1, <3>2 DEF Nodes
  <2>1. TypeOK'
    BY <1>a, <2>a, <2>c DEF IInv, TypeOK, Pointer, PopPc, locals
  <2>2. LifeCycle' /\ OnePopper'
    BY <1>a, <2>a DEF IInv, TypeOK, LifeCycle, OnePopper, Popping, PopPc
  <2>3. ListIntact'
    <3>1. top' = IF chain' = <<>> THEN NULL ELSE chain'[1]
      <4>1. 1 \in 1 .. Len(chain)
        BY <2>c
      <4>2. top' = IF 1 = Len(chain) THEN NULL ELSE chain[1 + 1]
        BY <1>a, <2>a, <2>b, <4>1 DEF IInv, ListIntact
      <4>3. Len(chain) # 1 => chain'[1] = chain[1 + 1]
        BY <2>c
      <4> QED BY <2>c, <4>2, <4>3
    <3>2. \A i \in 1 .. Len(chain') :
             next[chain'[i]] = IF i = Len(chain') THEN NULL ELSE chain'[i + 1]
      <4> SUFFICES ASSUME NEW i \in 1 .. Len(chain')
                   PROVE  next[chain'[i]] =
                             IF i = Len(chain') THEN NULL ELSE chain'[i + 1]
        OBVIOUS
      <4>1. next[chain[i + 1]] =
               IF i + 1 = Len(chain) THEN NULL ELSE chain[(i + 1) + 1]
        BY <1>a, <2>c DEF IInv, ListIntact
      <4>2. i = Len(chain') <=> i + 1 = Len(chain)
        BY <2>c
      <4>3. i # Len(chain') => chain'[i + 1] = chain[(i + 1) + 1]
        <5> HAVE i # Len(chain')
        <5>1. i + 1 \in 1 .. Len(chain')
          BY <2>c
        <5> QED BY <2>c, <5>1
      <4> QED BY <2>c, <4>1, <4>2, <4>3
    <3>3. \A i, j \in 1 .. Len(chain') : chain'[i] = chain'[j] => i = j
      <4> SUFFICES ASSUME NEW i \in 1 .. Len(chain'), NEW j \in 1 .. Len(chain'),
                          chain'[i] = chain'[j]
                   PROVE  i = j
        OBVIOUS
      <4>1. i + 1 = j + 1
        BY <1>a, <2>c DEF IInv, ListIntact
      <4> QED BY <4>1
    <3> QED BY <2>a, <3>1, <3>2, <3>3 DEF ListIntact, heap
  <2>4. NoUseAfterFree'
    BY <1>a, <2>a DEF IInv, TypeOK, NoUseAfterFree, locals
  <2>5. OneOwner'
    <3>1. \A u \in Thread, a \in Addr :
             Owns(u, a)' <=> Owns(u, a) \/ (u = t /\ a = old[t])
      BY <2>a DEF IInv, TypeOK, Owns, locals
    <3>2. alloc' = alloc /\ Nodes \subseteq Addr
      BY <2>a, NodesAreAddresses DEF IInv, heap
    <3>3. \A u \in Thread : ~ Owns(u, old[t])
      BY <1>a DEF IInv, OneOwner
    <3> QED BY <1>a, <2>d, <3>1, <3>2, <3>3 DEF IInv, OneOwner
  <2>6. FreshViews'
    <3>1. \A u \in Thread : u # t => pc[u] \notin PopPc
      BY DEF IInv, OnePopper, Popping, PopPc
    <3> QED BY <2>a, <3>1 DEF IInv, TypeOK, FreshViews, PopPc, locals, heap
  <2> QED BY <2>1, <2>2, <2>3, <2>4, <2>5, <2>6 DEF IInv
<1> QED BY <1>1, <1>2

----------------------------------------------------------------------------
(* The life of the object *)

\* Before lfstack_init nothing is allocated and nobody is inside a call.
LEMMA InitInv == Init => IInv
<1> SUFFICES ASSUME Init
             PROVE  IInv
  OBVIOUS
<1> USE DEF Init
<1>1. chain \in Seq(Addr) /\ Nodes = {}
  BY EmptySeq DEF Nodes
<1>2. TypeOK
  BY <1>1, StackAssumption DEF TypeOK, Pointer
<1>3. LifeCycle /\ OnePopper /\ ListIntact /\ NoUseAfterFree
  BY DEF LifeCycle, Quiescent, OnePopper, Popping, PopPc, ListIntact,
         NoUseAfterFree
<1>4. OneOwner /\ FreshViews
  BY <1>1 DEF OneOwner, Owns, FreshViews
<1> QED BY <1>2, <1>3, <1>4 DEF IInv

\* lfstack_init and lfstack_destroy, when nobody is inside a call.
LEMMA LifeInv ==
    ASSUME IInv, LfstackInit \/ LfstackDestroy
    PROVE  IInv'
<1> USE DEF LfstackInit, LfstackDestroy, heap, locals
<1>1. UNCHANGED <<next, val, alloc, pc, new, old, nxt, reg, chain>>
  OBVIOUS
<1>2. chain = <<>> /\ Quiescent
  BY DEF IInv, LifeCycle
<1>3. TypeOK'
  BY <1>1 DEF IInv, TypeOK, Pointer, DestroyCode
<1>4. LifeCycle' /\ OnePopper'
  BY <1>1, <1>2 DEF IInv, LifeCycle, Quiescent, OnePopper, Popping
<1>5. ListIntact'
  <2>1. chain' = <<>> /\ Len(chain') = 0 /\ (life' = "ready" => top' = NULL)
    BY <1>1, <1>2
  <2> QED BY <2>1 DEF ListIntact
<1>6. NoUseAfterFree'
  BY <1>1 DEF IInv, NoUseAfterFree
<1>7. OneOwner'
  BY <1>1, OwnersStay DEF IInv, Owns
<1>8. FreshViews'
  BY <1>1 DEF IInv, FreshViews, Nodes
<1> QED BY <1>3, <1>4, <1>5, <1>6, <1>7, <1>8 DEF IInv

\* The invariant is about these variables only.
LEMMA StutterInv ==
    ASSUME IInv, UNCHANGED vars
    PROVE  IInv'
  BY DEF IInv, vars, TypeOK, LifeCycle, Quiescent, OnePopper, Popping,
         ListIntact, NoUseAfterFree, OneOwner, Owns, FreshViews, Nodes

\* Every step keeps the invariant.
LEMMA StepInv == IInv /\ [Next]_vars => IInv'
<1> SUFFICES ASSUME IInv, [Next]_vars
             PROVE  IInv'
  OBVIOUS
<1>1. CASE LfstackInit \/ LfstackDestroy
  BY <1>1, LifeInv
<1>2. CASE \E t \in Thread : PushCall(t) \/ PopCall(t)
  BY <1>2, PushCallInv, PopCallInv
<1>3. CASE \E t \in Thread : Work(t)
  <2> PICK t \in Thread : Work(t)
    BY <1>3
  <2>1. CASE PushAlloc(t) \/ PushAllocFails(t) \/ PushValue(t)
    BY <2>1, PushAllocInv, PushAllocFailsInv, PushValueInv
  <2>2. CASE PushLoad(t) \/ PushLink(t) \/ PushCas(t)
    BY <2>2, PushLoadInv, PushLinkInv, PushCasInv
  <2>3. CASE PopLoad(t) \/ PopNext(t) \/ PopCas(t)
    BY <2>3, PopLoadInv, PopNextInv, PopCasInv
  <2>4. CASE PopValue(t) \/ PopFree(t) \/ Return(t)
    BY <2>4, PopValueInv, PopFreeInv, ReturnInv
  <2> QED BY <2>1, <2>2, <2>3, <2>4 DEF Work
<1>4. CASE UNCHANGED vars
  BY <1>4, StutterInv
<1> QED BY <1>1, <1>2, <1>3, <1>4 DEF Next

\* IInv holds in every reachable state.
THEOREM Invariance == Spec => []IInv
  BY InitInv, StepInv, PTL DEF Spec

----------------------------------------------------------------------------
(* The safety properties *)

\* Type correctness of the stack, for any number of threads and addresses.
THEOREM TypeCorrect == Spec => []TypeOK
<1>1. IInv => TypeOK
  BY DEF IInv
<1> QED BY <1>1, Invariance, PTL

\* The list from `top' is always the nodes pushed and not yet popped, in order,
\* acyclic, whatever the interleaving and the reuse of addresses.
THEOREM ListIsIntact == Spec => []ListIntact
<1>1. IInv => ListIntact
  BY DEF IInv
<1> QED BY <1>1, Invariance, PTL

\* No thread dereferences a freed node (lockfree-stack.h:40, :45, :57, :65).
THEOREM MemorySafety == Spec => []NoUseAfterFree
<1>1. IInv => NoUseAfterFree
  BY DEF IInv
<1> QED BY <1>1, Invariance, PTL

\* Every allocated node has one owner: no leak and no double free.
THEOREM NoLeak == Spec => []OneOwner
<1>1. IInv => OneOwner
  BY DEF IInv
<1> QED BY <1>1, Invariance, PTL

\* A stale view cannot be acted on: the ABA problem does not arise with one
\* popper.
THEOREM NoABA == Spec => []FreshViews
<1>1. IInv => FreshViews
  BY DEF IInv
<1> QED BY <1>1, Invariance, PTL

----------------------------------------------------------------------------
(* Published nodes are not written to *)

\* The writes to next and val: a step changes them at most at an address that
\* is not in the list.
LEMMA WritesArePrivate ==
    ASSUME IInv, Next, NEW a \in Nodes
    PROVE  next'[a] = next[a] /\ val'[a] = val[a]
<1>a. a \in Addr /\ a \in alloc /\ next \in [Addr -> Pointer] /\ val \in [Addr -> Value]
  BY NodesAreAddresses, NodesAllocated DEF IInv, TypeOK
<1>b. \A t \in Thread : ~ Owns(t, a)
  BY DEF IInv, OneOwner
<1>1. CASE LfstackInit \/ LfstackDestroy
  BY <1>1 DEF LfstackInit, LfstackDestroy, heap
<1>2. CASE \E t \in Thread : PushCall(t) \/ PopCall(t)
  BY <1>2 DEF PushCall, PopCall, heap
<1>3. CASE \E t \in Thread : Work(t)
  <2> PICK t \in Thread : Work(t)
    BY <1>3
  <2>1. CASE PushAlloc(t)
    BY <1>a, <2>1 DEF PushAlloc
  <2>2. CASE PushValue(t) \/ PushLink(t)
    BY <1>a, <1>b, <2>2 DEF PushValue, PushLink, Owns
  <2>3. CASE PopFree(t)
    BY <1>a, <1>b, <2>3 DEF PopFree, Owns
  <2>4. CASE PushAllocFails(t) \/ PushLoad(t) \/ PushCas(t) \/ PopLoad(t)
    BY <2>4 DEF PushAllocFails, PushLoad, PushCas, PopLoad, heap
  <2>5. CASE PopNext(t) \/ PopCas(t) \/ PopValue(t) \/ Return(t)
    BY <2>5 DEF PopNext, PopCas, PopValue, Return, heap
  <2> QED BY <2>1, <2>2, <2>3, <2>4, <2>5 DEF Work
<1> QED BY <1>1, <1>2, <1>3 DEF Next

\* A node that is in the stack keeps its value and its link until it is popped.
THEOREM NodesAreFrozen == Spec => PublishedNodesFrozen
<1>1. IInv /\ [Next]_vars =>
        [\A a \in Nodes : a \in Nodes' => next'[a] = next[a] /\ val'[a] = val[a]]_vars
  BY WritesArePrivate
<1> QED BY <1>1, Invariance, PTL DEF Spec, PublishedNodesFrozen

----------------------------------------------------------------------------
(* Linearizability: LockFreeStack implements AbstractStack *)

\* The node of a push that is past :40 carries the value pushed.
ValueStored ==
    \A t \in Thread : pc[t] \in {"push_load", "push_link", "push_cas"} =>
                          val[new[t]] = reg[t]

\* Nobody but the push that owns a node writes its value.
LEMMA ValueStoredStep ==
    ASSUME IInv, ValueStored, [Next]_vars
    PROVE  ValueStored'
<1> SUFFICES ASSUME NEW u \in Thread,
                    pc'[u] \in {"push_load", "push_link", "push_cas"}
             PROVE  val'[new'[u]] = reg'[u]
  BY DEF ValueStored
<1> USE DEF IInv, TypeOK
<1>1. CASE LfstackInit \/ LfstackDestroy \/ UNCHANGED vars
  BY <1>1 DEF LfstackInit, LfstackDestroy, vars, heap, locals, ValueStored
<1>2. CASE \E t \in Thread : PushCall(t) \/ PopCall(t)
  BY <1>2 DEF PushCall, PopCall, heap, ValueStored
<1>3. CASE \E t \in Thread : Work(t)
  <2> PICK t \in Thread : Work(t)
    BY <1>3
  <2>1. CASE PushAlloc(t)
    BY <2>1 DEF PushAlloc, ValueStored, NoUseAfterFree
  <2>2. CASE PushValue(t)
    <3>1. Owns(t, new[t]) /\ new[t] \in Addr
      BY <2>2 DEF PushValue, Owns, NoUseAfterFree
    <3>2. CASE u = t
      BY <2>2, <3>1, <3>2 DEF PushValue, locals
    <3>3. CASE u # t
      <4>1. pc[u] \in {"push_load", "push_link", "push_cas"}
        BY <2>2, <3>3 DEF PushValue
      <4>2. new[u] # new[t]
        BY <3>1, <3>3, <4>1 DEF OneOwner, Owns
      <4> QED BY <2>2, <3>3, <4>1, <4>2 DEF PushValue, locals, ValueStored
    <3> QED BY <3>2, <3>3
  <2>3. CASE PopFree(t)
    <3>1. Owns(t, old[t]) /\ old[t] \in Addr /\ u # t
      BY <2>3 DEF PopFree, Owns, NoUseAfterFree
    <3>2. pc[u] \in {"push_load", "push_link", "push_cas"}
      BY <2>3, <3>1 DEF PopFree
    <3>3. new[u] # old[t]
      BY <3>1, <3>2 DEF OneOwner, Owns
    <3> QED BY <2>3, <3>1, <3>2, <3>3 DEF PopFree, locals, ValueStored
  <2>4. CASE PushAllocFails(t) \/ PushLoad(t) \/ PushLink(t) \/ PushCas(t)
    BY <2>4 DEF PushAllocFails, PushLoad, PushLink, PushCas, heap, locals,
                ValueStored
  <2>5. CASE PopLoad(t) \/ PopNext(t) \/ PopCas(t) \/ PopValue(t) \/ Return(t)
    BY <2>5 DEF PopLoad, PopNext, PopCas, PopValue, Return, PopSees, heap,
                locals, DonePc, ValueStored
  <2> QED BY <2>1, <2>2, <2>3, <2>4, <2>5 DEF Work
<1> QED BY <1>1, <1>2, <1>3 DEF Next

\* The node of a push carries the value it was called with from the time it is
\* linked (lockfree-stack.h:40).
THEOREM ValuesAreStored == Spec => []ValueStored
<1>1. Init => ValueStored
  BY DEF Init, ValueStored
<1> QED BY <1>1, ValueStoredStep, Invariance, PTL DEF Spec

\* A step of one thread does not change what another is doing.
LEMMA OtherOps ==
    ASSUME IInv, NEW t \in Thread, PushCall(t) \/ PopCall(t) \/ Work(t),
           NEW u \in Thread, u # t
    PROVE  OpOf(u)' = OpOf(u)
<1> USE DEF IInv, TypeOK
<1>1. pc'[u] = pc[u] /\ reg'[u] = reg[u] /\ old'[u] = old[u]
  BY DEF Work, PushCall, PopCall, PushAlloc, PushAllocFails, PushValue, PushLoad,
         PushLink, PushCas, PopLoad, PopNext, PopCas, PopSees, PopValue,
         PopFree, Return, locals, heap
<1>2. pc[u] = "pop_value" => val'[old[u]] = val[old[u]]
  <2> SUFFICES ASSUME pc[u] = "pop_value"
               PROVE  val'[old[u]] = val[old[u]]
    OBVIOUS
  <2>1. old[u] \in alloc /\ Owns(u, old[u])
    BY DEF NoUseAfterFree, Owns
  <2>2. ~ Owns(t, old[u])
    BY <2>1 DEF OneOwner
  <2>3. CASE PushAlloc(t)
    BY <2>1, <2>3 DEF PushAlloc
  <2>4. CASE PushValue(t) \/ PopFree(t)
    BY <2>1, <2>2, <2>4 DEF PushValue, PopFree, Owns
  <2>5. CASE ~ PushAlloc(t) /\ ~ PushValue(t) /\ ~ PopFree(t)
    BY <2>5 DEF Work, PushCall, PopCall, PushAllocFails, PushLoad, PushLink,
                PushCas, PopLoad, PopNext, PopCas, PopValue, Return, heap
  <2> QED BY <2>3, <2>4, <2>5
<1> QED BY <1>1, <1>2 DEF OpOf

\* So a step of t rewrites one entry of the abstract op.
LEMMA OneOp ==
    ASSUME IInv, NEW t \in Thread, PushCall(t) \/ PopCall(t) \/ Work(t)
    PROVE  Ops' = [Ops EXCEPT ![t] = OpOf(t)']
  BY OtherOps DEF Ops

\* A step that leaves the list alone leaves its values alone.
LEMMA ItemsStay ==
    ASSUME IInv, [Next]_vars, chain' = chain
    PROVE  Items' = Items
<1>1. CASE Next
  BY <1>1, WritesArePrivate DEF Items, Nodes
<1>2. CASE UNCHANGED vars
  BY <1>2 DEF vars, Items
<1> QED BY <1>1, <1>2

\* The abstract contents are a sequence of values, stated for any list c and
\* any heap v so that it serves for the state before and after a step.
LEMMA ValuesOfChain ==
    ASSUME NEW c \in Seq(Addr), NEW v \in [Addr -> Value], NEW s,
           s = [i \in 1 .. Len(c) |-> v[c[i]]]
    PROVE  /\ s \in Seq(Value)
           /\ Len(s) = Len(c) /\ Len(c) \in Nat
           /\ \A i \in 1 .. Len(c) : s[i] = v[c[i]]
           /\ s = <<>> <=> c = <<>>
<1>1. Len(c) \in Nat
  BY LenProperties
<1>2. \A i \in 1 .. Len(c) : v[c[i]] \in Value
  BY ElementOfSeq
<1>3. s \in [1 .. Len(c) -> Value]
  BY <1>2
<1>4. s \in Seq(Value)
  BY <1>1, <1>3, SeqDef
<1>5. Len(s) = Len(c)
  BY <1>1, <1>3, <1>4, LenProperties
<1>6. s = <<>> <=> Len(s) = 0
  BY <1>4, EmptySeq
<1>7. c = <<>> <=> Len(c) = 0
  BY EmptySeq
<1> QED BY <1>1, <1>4, <1>5, <1>6, <1>7

\* The abstract stack holds the values of the nodes of the list.
LEMMA OldValues ==
    ASSUME IInv
    PROVE  /\ Items \in Seq(Value) /\ Len(Items) = Len(chain) /\ Len(chain) \in Nat
           /\ \A i \in 1 .. Len(chain) : Items[i] = val[chain[i]]
           /\ Items = <<>> <=> chain = <<>>
<1>1. chain \in Seq(Addr) /\ val \in [Addr -> Value]
  BY DEF IInv, TypeOK
<1>2. Items = [i \in 1 .. Len(chain) |-> val[chain[i]]]
  BY DEF Items
<1> QED BY ONLY <1>1, <1>2, ValuesOfChain

\* So it does after a step that changes no value.
LEMMA NewValues ==
    ASSUME IInv', val' = val
    PROVE  /\ Items' \in Seq(Value) /\ Len(Items') = Len(chain')
           /\ \A i \in 1 .. Len(chain') : Items'[i] = val[chain'[i]]
<1>1. chain' \in Seq(Addr) /\ val' \in [Addr -> Value]
  BY DEF IInv, TypeOK
<1>2. Items' = [i \in 1 .. Len(chain') |-> val'[chain'[i]]]
  BY DEF Items
<1>3. /\ Items' \in Seq(Value) /\ Len(Items') = Len(chain')
      /\ \A i \in 1 .. Len(chain') : Items'[i] = val'[chain'[i]]
  BY ONLY <1>1, <1>2, ValuesOfChain
<1> QED BY <1>3

\* Steps that are invisible to the callers.
LEMMA HiddenStep ==
    ASSUME IInv, ValueStored, NEW t \in Thread,
           \/ PushAlloc(t) \/ PushValue(t) \/ PushLoad(t) \/ PushLink(t)
           \/ PushCas(t) /\ top # old[t]
           \/ PopLoad(t) /\ top # NULL
           \/ PopNext(t)
           \/ PopCas(t) /\ top # old[t] /\ top # NULL
           \/ PopValue(t) \/ PopFree(t)
    PROVE  UNCHANGED <<Items, Ops>>
<1> USE DEF IInv, TypeOK
<1>1. Next /\ Work(t)
  BY DEF Next, Work
<1>2. chain' = chain
  BY DEF PushAlloc, PushValue, PushLoad, PushLink, PushCas, PopLoad, PopNext,
         PopCas, PopValue, PopFree
<1>3. OpOf(t)' = OpOf(t)
  <2>1. CASE pc[t] \in PushPc
    <3>1. pc'[t] \in PushPc /\ reg'[t] = reg[t]
      BY <2>1 DEF PushAlloc, PushValue, PushLoad, PushLink, PushCas, PopLoad,
             PopNext, PopCas, PopValue, PopFree, PushPc, locals
    <3> QED BY <2>1, <3>1 DEF OpOf, PushPc
  <2>2. CASE pc[t] \in {"pop_load", "pop_next", "pop_cas"}
    <3>1. pc'[t] \in {"pop_load", "pop_next", "pop_cas"}
      BY <2>2 DEF PushAlloc, PushValue, PushLoad, PushLink, PushCas, PopLoad,
             PopNext, PopCas, PopSees, PopValue, PopFree
    <3> QED BY <2>2, <3>1 DEF OpOf, PushPc
  <2>3. CASE PopValue(t)
    BY <2>3 DEF PopValue, OpOf, PushPc
  <2>4. CASE PopFree(t)
    BY <2>4 DEF PopFree, OpOf, PushPc, locals
  <2> QED BY <2>1, <2>2, <2>3, <2>4 DEF PushAlloc, PushValue, PushLoad, PushLink,
             PushCas, PopLoad, PopNext, PopCas, PushPc
<1>4. Ops' = Ops
  BY <1>1, <1>3, OneOp DEF Ops
<1> QED BY <1>1, <1>2, <1>4, ItemsStay

\* The compare-and-swap of a push puts its value before the others.
LEMMA PushCommits ==
    ASSUME IInv, IInv', ValueStored, NEW t \in Thread, PushCas(t), top = old[t]
    PROVE  Abs!CommitPush(t)
<1> USE DEF IInv, TypeOK
<1>1. /\ pc[t] = "push_cas" /\ pc' = [pc EXCEPT ![t] = "push_done"]
      /\ chain' = <<new[t]>> \o chain /\ UNCHANGED <<val, reg>>
      /\ new[t] \in Addr
  BY DEF PushCas, heap, NoUseAfterFree
<1>2. Ops' = [Ops EXCEPT ![t] = OpOf(t)']
  BY OneOp DEF Work
<1>3. OpOf(t)' = Abs!Op("pushed", Zero) /\ Ops[t] = Abs!Op("push", reg[t])
  BY <1>1 DEF OpOf, Ops, PushPc, Abs!Op
<1>4. Items' = <<reg[t]>> \o Items
  <2>1. /\ Len(chain') = Len(chain) + 1 /\ chain'[1] = new[t]
        /\ \A i \in 1 .. Len(chain) : chain'[i + 1] = chain[i]
    BY <1>1, PushedChain
  <2>2. /\ Items \in Seq(Value) /\ Len(Items) = Len(chain) /\ Len(chain) \in Nat
        /\ \A i \in 1 .. Len(chain) : Items[i] = val[chain[i]]
    BY OldValues
  <2>3. /\ Items' \in Seq(Value) /\ Len(Items') = Len(chain')
        /\ \A i \in 1 .. Len(chain') : Items'[i] = val[chain'[i]]
    BY <1>1, NewValues
  <2>4. <<reg[t]>> \in Seq(Value) /\ Len(<<reg[t]>>) = 1 /\ <<reg[t]>>[1] = reg[t]
    OBVIOUS
  <2>5. /\ <<reg[t]>> \o Items \in Seq(Value)
        /\ Len(<<reg[t]>> \o Items) = 1 + Len(Items)
        /\ \A i \in 1 .. 1 + Len(Items) : (<<reg[t]>> \o Items)[i] =
              IF i <= 1 THEN <<reg[t]>>[i] ELSE Items[i - 1]
    BY <2>2, <2>4, ConcatProperties
  <2>6. ASSUME NEW i \in 1 .. Len(Items')
        PROVE  Items'[i] = (<<reg[t]>> \o Items)[i]
    <3>1. CASE i = 1
      BY <1>1, <2>1, <2>2, <2>3, <2>4, <2>5, <3>1 DEF ValueStored
    <3>2. CASE i # 1
      <4>1. i - 1 \in 1 .. Len(chain) /\ ~ (i <= 1) /\ (i - 1) + 1 = i
        BY <2>1, <2>2, <2>3, <3>2
      <4>2. chain'[i] = chain[i - 1]
        BY <2>1, <4>1
      <4>3. Items'[i] = val[chain'[i]]
        BY <2>3
      <4>4. Items[i - 1] = val[chain[i - 1]]
        BY <2>2, <4>1
      <4>5. (<<reg[t]>> \o Items)[i] = Items[i - 1]
        BY <2>1, <2>2, <2>3, <2>5, <4>1
      <4> QED BY <4>2, <4>3, <4>4, <4>5
    <3> QED BY <3>1, <3>2
  <2> QED BY <2>1, <2>2, <2>3, <2>5, <2>6, SeqEqual
<1> QED BY <1>2, <1>3, <1>4 DEF Abs!CommitPush, Abs!Op

\* The compare-and-swap of a pop takes the first value.
LEMMA PopCommits ==
    ASSUME IInv, IInv', NEW t \in Thread, PopCas(t), top = old[t]
    PROVE  Abs!CommitPop(t)
<1> USE DEF IInv, TypeOK
<1>1. /\ pc[t] = "pop_cas" /\ pc' = [pc EXCEPT ![t] = "pop_value"]
      /\ chain' = Tail(chain) /\ UNCHANGED <<val, old>>
      /\ old[t] \in Nodes /\ life = "ready"
  BY DEF PopCas, heap, FreshViews, LifeCycle, Quiescent
<1>2. chain # <<>> /\ chain[1] = old[t]
  BY <1>1, TopInList, NodesAreAddresses, StackAssumption
<1>3. Ops' = [Ops EXCEPT ![t] = OpOf(t)']
  BY OneOp DEF Work
<1>4. OpOf(t)' = Abs!Op("popped", val[old[t]]) /\ Ops[t] = Abs!Op("pop", Zero)
  BY <1>1 DEF OpOf, Ops, PushPc, Abs!Op
<1>5. /\ Items \in Seq(Value) /\ Len(Items) = Len(chain)
      /\ \A i \in 1 .. Len(chain) : Items[i] = val[chain[i]]
      /\ Items # <<>>
  BY <1>2, OldValues
<1>6. /\ Len(chain) \in Nat \ {0} /\ Len(chain') = Len(chain) - 1
      /\ \A i \in 1 .. Len(chain) - 1 : chain'[i] = chain[i + 1]
  BY <1>1, <1>2, PoppedSeq
<1>7. Head(Items) = val[old[t]]
  BY <1>2, <1>5, <1>6
<1>8. Items' = Tail(Items)
  <2>1. /\ Tail(Items) \in Seq(Value) /\ Len(Tail(Items)) = Len(Items) - 1
        /\ \A i \in 1 .. Len(Items) - 1 : Tail(Items)[i] = Items[i + 1]
    BY <1>5, PoppedSeq
  <2>2. /\ Items' \in Seq(Value) /\ Len(Items') = Len(chain')
        /\ \A i \in 1 .. Len(chain') : Items'[i] = val[chain'[i]]
    BY <1>1, NewValues
  <2>3. ASSUME NEW i \in 1 .. Len(Items')
        PROVE  Items'[i] = Tail(Items)[i]
    <3>1. i \in 1 .. Len(chain) - 1 /\ i + 1 \in 1 .. Len(chain)
      BY <1>6, <2>2
    <3> QED BY <1>5, <1>6, <2>1, <2>2, <3>1
  <2> QED BY <1>5, <1>6, <2>1, <2>2, <2>3, SeqEqual
<1>9. Ops[t].kind = "pop"
  BY <1>4 DEF Abs!Op
<1>10. Ops' = [Ops EXCEPT ![t] = Abs!Op("popped", Head(Items))]
  BY <1>3, <1>4, <1>7
<1> QED BY <1>5, <1>8, <1>9, <1>10 DEF Abs!CommitPop

\* A pop that reads a null top finds the stack empty.
LEMMA EmptyPopCommits ==
    ASSUME IInv, IInv', NEW t \in Thread, top = NULL,
           PopLoad(t) \/ (PopCas(t) /\ top # old[t])
    PROVE  Abs!CommitPop(t)
<1> USE DEF IInv, TypeOK
<1>1. /\ pc[t] \in {"pop_load", "pop_cas"} /\ chain' = chain
      /\ pc'[t] = "pop_done" /\ reg'[t] = Zero /\ life = "ready"
  BY DEF PopLoad, PopCas, PopSees, LifeCycle, Quiescent
<1>2. chain = <<>>
  <2> SUFFICES ASSUME chain # <<>>
               PROVE  FALSE
    OBVIOUS
  <2>1. top = chain[1] /\ Len(chain) \in Nat \ {0}
    BY <1>1, EmptySeq DEF ListIntact
  <2>2. chain[1] \in Addr
    BY <2>1, ElementOfSeq
  <2> QED BY <2>1, <2>2, StackAssumption
<1>3. Items = <<>> /\ Items' = Items
  BY <1>1, <1>2, OldValues, ItemsStay DEF Next, Work
<1>4. Ops' = [Ops EXCEPT ![t] = OpOf(t)']
  BY OneOp DEF Work
<1>5. OpOf(t)' = Abs!Op("popped", Zero) /\ Ops[t] = Abs!Op("pop", Zero)
  BY <1>1 DEF OpOf, Ops, PushPc, Abs!Op
<1> QED BY <1>3, <1>4, <1>5 DEF Abs!CommitPop, Abs!Op

\* The remaining steps: the call, the failed allocation and the return.
LEMMA CallsRefine ==
    ASSUME IInv, NEW t \in Thread, PushCall(t) \/ PopCall(t)
    PROVE  Abs!Call(t)
<1> USE DEF IInv, TypeOK
<1>1. Items' = Items
  BY ItemsStay DEF Next, PushCall, PopCall
<1>2. Ops' = [Ops EXCEPT ![t] = OpOf(t)']
  BY OneOp
<1>3. Ops[t] = Abs!Idle
  BY DEF PushCall, PopCall, Ops, OpOf, PushPc, Abs!Idle
<1>4. CASE PushCall(t)
  <2>1. OpOf(t)' = Abs!Op("push", reg'[t])
    BY <1>4 DEF PushCall, OpOf, PushPc, Abs!Op
  <2>2. reg'[t] \in Value
    BY <1>4 DEF PushCall
  <2> QED BY <1>1, <1>2, <1>3, <2>1, <2>2 DEF Abs!Call
<1>5. CASE PopCall(t)
  <2>1. OpOf(t)' = Abs!Op("pop", Zero)
    BY <1>5 DEF PopCall, OpOf, PushPc, Abs!Op
  <2> QED BY <1>1, <1>2, <1>3, <2>1 DEF Abs!Call
<1> QED BY <1>4, <1>5

\* A push without memory fails in the abstract stack too.
LEMMA FailRefines ==
    ASSUME IInv, NEW t \in Thread, PushAllocFails(t)
    PROVE  Abs!FailPush(t)
<1> USE DEF IInv, TypeOK, PushAllocFails
<1>1. Items' = Items
  BY ItemsStay DEF Next, Work
<1>2. Ops' = [Ops EXCEPT ![t] = OpOf(t)']
  BY OneOp DEF Work
<1>3. OpOf(t)' = Abs!Op("failed", Zero) /\ Ops[t] = Abs!Op("push", reg[t])
  BY DEF OpOf, Ops, PushPc, Abs!Op
<1> QED BY <1>1, <1>2, <1>3 DEF Abs!FailPush, Abs!Op

\* A call that returns, returns there with the same result.
LEMMA ReturnRefines ==
    ASSUME IInv, NEW t \in Thread, Return(t)
    PROVE  Abs!Return(t)
<1> USE DEF IInv, TypeOK, Return
<1>1. Items' = Items
  BY ItemsStay DEF Next, Work
<1>2. Ops' = [Ops EXCEPT ![t] = OpOf(t)']
  BY OneOp DEF Work
<1>3. OpOf(t)' = Abs!Idle
  BY DEF OpOf, PushPc, Abs!Idle
<1>4. Ops[t].kind \in {"pushed", "failed", "popped"}
  BY DEF OpOf, Ops, PushPc, DonePc
<1> QED BY <1>1, <1>2, <1>3, <1>4 DEF Abs!Return

\* Every step of the code is a step of the abstract stack or invisible.
LEMMA StepRefines ==
    ASSUME IInv, IInv', ValueStored, [Next]_vars
    PROVE  [Abs!ANext]_(Abs!avars)
<1> USE DEF Abs!ANext, Abs!avars
<1>1. CASE LfstackInit \/ LfstackDestroy \/ UNCHANGED vars
  <2>1. UNCHANGED <<val, pc, old, reg, chain>>
    BY <1>1 DEF LfstackInit, LfstackDestroy, vars, heap, locals
  <2> QED BY <2>1 DEF Items, Ops, OpOf
<1>2. CASE \E t \in Thread : PushCall(t) \/ PopCall(t)
  BY <1>2, CallsRefine
<1>3. CASE \E t \in Thread : Work(t)
  <2> PICK t \in Thread : Work(t)
    BY <1>3
  <2>1. CASE PushCas(t) /\ top = old[t]
    BY <2>1, PushCommits
  <2>2. CASE PopCas(t) /\ top = old[t]
    BY <2>2, PopCommits
  <2>3. CASE top = NULL /\ (PopLoad(t) \/ (PopCas(t) /\ top # old[t]))
    BY <2>3, EmptyPopCommits
  <2>4. CASE PushAllocFails(t)
    BY <2>4, FailRefines
  <2>5. CASE Return(t)
    BY <2>5, ReturnRefines
  <2>6. CASE \/ PushAlloc(t) \/ PushValue(t) \/ PushLoad(t) \/ PushLink(t)
             \/ PushCas(t) /\ top # old[t]
             \/ PopLoad(t) /\ top # NULL
             \/ PopNext(t)
             \/ PopCas(t) /\ top # old[t] /\ top # NULL
             \/ PopValue(t) \/ PopFree(t)
    BY <2>6, HiddenStep
  <2> QED BY <2>1, <2>2, <2>3, <2>4, <2>5, <2>6 DEF Work
<1> QED BY <1>1, <1>2, <1>3 DEF Next

\* Both stacks are empty at first.
LEMMA InitRefines == Init => Abs!AInit
  BY DEF Init, Items, Ops, OpOf, PushPc, Abs!AInit, Abs!Idle

\* The lock-free stack is linearizable: it implements the atomic stack.
THEOREM Linearizability == Spec => Linearizable
  BY InitRefines, StepRefines, Invariance, ValuesAreStored, PTL
     DEF Spec, Linearizable, Abs!ASpec

=============================================================================
