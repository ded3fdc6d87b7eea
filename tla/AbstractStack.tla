--------------------------- MODULE AbstractStack ---------------------------
(***************************************************************************)
(* What the lock-free stack promises its callers: a sequence of values on  *)
(* which every push and every pop takes effect in ONE atomic step, between *)
(* the moment the thread calls the operation and the moment it returns     *)
(* (linearizability).  A push may also fail for lack of memory and then    *)
(* has no effect; a pop of the empty stack reports the value Zero.         *)
(***************************************************************************)
EXTENDS Integers, Sequences

CONSTANTS Thread,   \* the threads that share the stack
          Value,    \* the values they push
          Zero      \* the value a pop of an empty stack reports

VARIABLES items,    \* the contents, top first
          op        \* what each thread is doing: a kind and a value

avars == <<items, op>>

Op(kind, v) == [kind |-> kind, val |-> v]
Idle == [kind |-> "idle", val |-> Zero]

AInit == /\ items = <<>>
         /\ op = [t \in Thread |-> Idle]

\* The thread calls push(v) or pop.
Call(t) ==
    /\ op[t] = Idle
    /\ \/ \E v \in Value : op' = [op EXCEPT ![t] = Op("push", v)]
       \/ op' = [op EXCEPT ![t] = Op("pop", Zero)]
    /\ UNCHANGED items

\* The push takes effect: the value is the new top.
CommitPush(t) ==
    /\ op[t].kind = "push"
    /\ items' = <<op[t].val>> \o items
    /\ op' = [op EXCEPT ![t] = Op("pushed", Zero)]

\* There was no memory for the node: the push has no effect.
FailPush(t) ==
    /\ op[t].kind = "push"
    /\ op' = [op EXCEPT ![t] = Op("failed", Zero)]
    /\ UNCHANGED items

\* The pop takes effect: it removes and reports the top, or reports Zero.
CommitPop(t) ==
    /\ op[t].kind = "pop"
    /\ IF items = <<>>
       THEN /\ op' = [op EXCEPT ![t] = Op("popped", Zero)]
            /\ UNCHANGED items
       ELSE /\ op' = [op EXCEPT ![t] = Op("popped", Head(items))]
            /\ items' = Tail(items)

Return(t) ==
    /\ op[t].kind \in {"pushed", "failed", "popped"}
    /\ op' = [op EXCEPT ![t] = Idle]
    /\ UNCHANGED items

ANext == \E t \in Thread : Call(t) \/ CommitPush(t) \/ FailPush(t)
                              \/ CommitPop(t) \/ Return(t)

ASpec == AInit /\ [][ANext]_avars
=============================================================================
