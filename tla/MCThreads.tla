----------------------------- MODULE MCThreads -----------------------------
(***************************************************************************)
(* Three programs of threads and of signal handlers share a run: each      *)
(* behaviour is userspace-signalfd, the futex or the stack, and the others *)
(* stay as they are.                                                       *)
(***************************************************************************)
EXTENDS SignalFd, FutexWait, LockFreeStack

VARIABLE unit   \* the program that runs

threadsVars == <<unit, sigVars, futexVars, vars>>

ThreadsInit ==
    /\ unit \in {"signalfd", "futex", "stack"}
    /\ SigInit /\ FutexInit /\ Init
    \* One initial state of each program for those that do not run.
    /\ unit # "futex" => /\ word = CHOOSE v \in Word : TRUE
                         /\ notifies = "all"
                         /\ \A w \in Waiter : old_value[w] = word
    /\ unit # "stack" => top = NULL

ThreadsNext ==
    /\ \/ /\ unit = "signalfd" /\ SigNext
          /\ UNCHANGED <<futexVars, vars>>
       \/ /\ unit = "futex" /\ FutexNext
          /\ UNCHANGED <<sigVars, vars>>
       \/ /\ unit = "stack" /\ Next
          /\ UNCHANGED <<sigVars, futexVars>>
    /\ UNCHANGED unit

\* The scheduler runs every process, and its handlers to their end; the
\* program of userspace-signalfd's main.c reads after every signal.
SignalFdFair ==
    \A p \in Proc :
        /\ WF_sigVars(unit = "signalfd" /\ sig_pc[p] # "dead" /\ Program(p))
        /\ WF_sigVars(unit = "signalfd" /\ sig_pc[p] # "dead" /\ Handler(p))
        /\ WF_sigVars(unit = "signalfd" /\ sig_pc[p] # "dead" /\ Deliver(p))

\* Threads that run, and notifications that are due, are not put off for ever;
\* nobody has to call, to change the word or to be interrupted.
FutexFair == /\ \A w \in Waiter : WF_futexVars(unit = "futex" /\ WaiterStep(w))
             /\ \A s \in Setter : WF_futexVars(unit = "futex" /\ Notification(s))

\* The scheduler runs every thread that is inside a call of the stack; nobody
\* has to make a call.
StackFair == \A t \in Thread : WF_vars(unit = "stack" /\ Work(t))

ThreadsSpec == /\ ThreadsInit /\ [][ThreadsNext]_threadsVars
               /\ SignalFdFair /\ FutexFair /\ StackFair
=============================================================================
