----------------------------- MODULE FutexWait ------------------------------
(***************************************************************************)
(* atomic_wait, atomic_notify_one and atomic_notify_all of                 *)
(* 07-synchronization-basics/tasks/integral/wait.h, over a word that other *)
(* threads change before they notify.                                      *)
(*                                                                         *)
(* The futex compares the word and puts the thread to sleep in one step.   *)
(* A thread also wakes up for no reason (a signal).  The callers keep to   *)
(* what the two names say: notify_one is used where one thread waits.      *)
(***************************************************************************)
EXTENDS Naturals

CONSTANTS Waiter, Setter,  \* threads
          Word             \* values of the word

ASSUME FutexWaitAssumption == Word # {}

VARIABLES word,     \* the atomic the threads wait on
          notifies, \* "one" or "all": how the setters wake others up
          waiter,   \* where each waiter is: "away", "load", "futex", "asleep"
          old_value, \* the value it waits to see changed
          setter    \* where each setter is: "store", "notify"

futexVars == <<word, notifies, waiter, old_value, setter>>

FutexInit == /\ word \in Word
             /\ notifies \in {"one", "all"}
             /\ waiter = [w \in Waiter |-> "away"]
             /\ old_value \in [Waiter -> Word]
             /\ setter = [s \in Setter |-> "store"]

----------------------------------------------------------------------------

\* The value comes from the caller, who may have read it long ago.
atomic_wait(w) ==
    /\ waiter[w] = "away"
    /\ notifies = "one" => \A v \in Waiter : waiter[v] = "away"
    /\ \E v \in Word : old_value' = [old_value EXCEPT ![w] = v]
    /\ waiter' = [waiter EXCEPT ![w] = "load"]
    /\ UNCHANGED <<word, notifies, setter>>

\* The condition of the loop of atomic_wait_explicit.
Load(w) ==
    /\ waiter[w] = "load"
    /\ waiter' = [waiter EXCEPT ![w] = IF word = old_value[w] THEN "futex" ELSE "away"]
    /\ UNCHANGED <<word, notifies, old_value, setter>>

\* Mutant: the thread sleeps on the value the word has now.
WaitUnchecked(w) ==
    /\ waiter[w] = "futex"
    /\ waiter' = [waiter EXCEPT ![w] = "asleep"]
    /\ UNCHANGED <<word, notifies, old_value, setter>>

\* FUTEX_WAIT returns at once if the word is not `old_value' any more.
PlatformWait(w) ==
    /\ waiter[w] = "futex"
    /\ waiter' = [waiter EXCEPT ![w] = IF word = old_value[w] THEN "asleep" ELSE "load"]
    /\ UNCHANGED <<word, notifies, old_value, setter>>

Interrupted(w) ==
    /\ waiter[w] = "asleep"
    /\ waiter' = [waiter EXCEPT ![w] = "load"]
    /\ UNCHANGED <<word, notifies, old_value, setter>>

----------------------------------------------------------------------------

Store(s) ==
    /\ setter[s] = "store"
    /\ word' \in Word \ {word}
    /\ setter' = [setter EXCEPT ![s] = "notify"]
    /\ UNCHANGED <<notifies, waiter, old_value>>

Sleepers == {w \in Waiter : waiter[w] = "asleep"}
Wake(ws) == waiter' = [w \in Waiter |-> IF w \in ws THEN "load" ELSE waiter[w]]

\* The kernel chooses whom it wakes; without sleepers nobody hears.
atomic_notify_one(s) ==
    /\ setter[s] = "notify" /\ notifies = "one"
    /\ \/ \E w \in Sleepers : Wake({w})
       \/ Sleepers = {} /\ UNCHANGED waiter
    /\ setter' = [setter EXCEPT ![s] = "store"]
    /\ UNCHANGED <<word, notifies, old_value>>

\* Mutant: FUTEX_WAKE for one thread.
NotifyAllWakesOne(s) ==
    /\ setter[s] = "notify" /\ notifies = "all"
    /\ \/ \E w \in Sleepers : Wake({w})
       \/ Sleepers = {} /\ UNCHANGED waiter
    /\ setter' = [setter EXCEPT ![s] = "store"]
    /\ UNCHANGED <<word, notifies, old_value>>

atomic_notify_all(s) ==
    /\ setter[s] = "notify" /\ notifies = "all"
    /\ Wake(Sleepers)
    /\ setter' = [setter EXCEPT ![s] = "store"]
    /\ UNCHANGED <<word, notifies, old_value>>

----------------------------------------------------------------------------

WaiterStep(w)   == Load(w) \/ PlatformWait(w)
Notification(s) == atomic_notify_one(s) \/ atomic_notify_all(s)

FutexNext == \/ \E w \in Waiter : atomic_wait(w) \/ WaiterStep(w) \/ Interrupted(w)
             \/ \E s \in Setter : Store(s) \/ Notification(s)

FutexSpec == FutexInit /\ [][FutexNext]_futexVars

----------------------------------------------------------------------------
(* Properties *)

FutexTypeOK == /\ word \in Word
               /\ notifies \in {"one", "all"}
               /\ waiter \in [Waiter -> {"away", "load", "futex", "asleep"}]
               /\ old_value \in [Waiter -> Word]
               /\ setter \in [Setter -> {"store", "notify"}]

Stale(w) == waiter[w] = "asleep" /\ word # old_value[w]

\* No wake-up is lost (wait.h:51-55): a thread asleep although the word has left
\* its value has a notification still to come, at whatever point between the
\* load and the futex the word changed and the others were woken.
NoLostWakeup ==
    \A w \in Waiter : Stale(w) => \E s \in Setter : setter[s] = "notify"

\* atomic_wait (wait.h:51-67) returns if the word leaves the value for good.
WaitersReturn ==
    \A w \in Waiter, v \in Word :
        (waiter[w] # "away" /\ old_value[w] = v /\ [](word # v)) ~> waiter[w] = "away"
=============================================================================
