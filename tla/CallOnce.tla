------------------------------ MODULE CallOnce ------------------------------
(***************************************************************************)
(* The Win32 call_once of src/src/cthread.c, called with one once_flag by  *)
(* a set of threads.                                                       *)
(*                                                                         *)
(* flag->status is 0 (nobody has started), 1 (a thread has won the         *)
(* InterlockedCompareExchange and is initialising flag->lock), 2 (it holds *)
(* flag->lock and runs func) or 3 (func has returned).  A thread that      *)
(* reads 1 spins; one that reads 2 blocks in EnterCriticalSection until    *)
(* the winner leaves it.  flag->lock is a CRITICAL_SECTION: an owner and a *)
(* recursion count.  Each step reads or writes shared state once.          *)
(***************************************************************************)
EXTENDS Naturals, FiniteSets

CONSTANTS
  Threads,   \* the threads calling call_once(&flag, func)
  NoThread   \* owner of a critical section nobody owns

ASSUME NoThread \notin Threads

VARIABLES
  status,    \* flag->status
  csInit,    \* InitializeCriticalSection(&flag->lock) has run
  owner,     \* owning thread of flag->lock
  depth,     \* its recursion count
  pc,        \* where each thread is in call_once
  runs,      \* calls of func that have returned
  running    \* threads inside func

vars == <<status, csInit, owner, depth, pc, runs, running>>

Init ==
  /\ status = 0
  /\ csInit = FALSE
  /\ owner = NoThread
  /\ depth = 0
  /\ pc = [t \in Threads |-> "while"]
  /\ runs = 0
  /\ running = {}

Goto(t, from, to) == /\ pc[t] = from
                     /\ pc' = [pc EXCEPT ![t] = to]

\* EnterCriticalSection(&flag->lock), when it does not block.
Enter(t) == /\ owner \in {NoThread, t}
            /\ owner' = t
            /\ depth' = depth + 1

\* LeaveCriticalSection(&flag->lock).
Leave == /\ depth' = depth - 1
         /\ owner' = IF depth = 1 THEN NoThread ELSE owner

-----------------------------------------------------------------------------

\* while (flag->status < 3)
While(t) ==
  /\ pc[t] = "while"
  /\ pc' = [pc EXCEPT ![t] = IF status < 3 THEN "switch" ELSE "done"]
  /\ UNCHANGED <<status, csInit, owner, depth, runs, running>>

\* switch (flag->status): 0 tries the exchange, 1 loops, 2 waits on the
\* lock; a status of 3 matches no case and loops.
Switch(t) ==
  /\ pc[t] = "switch"
  /\ pc' = [pc EXCEPT ![t] = CASE status = 0 -> "cas"
                               [] status = 2 -> "enter"
                               [] OTHER      -> "while"]
  /\ UNCHANGED <<status, csInit, owner, depth, runs, running>>

\* Mutant: the result of the exchange is not tested.
Cas_unchecked(t) ==
  /\ pc[t] = "cas"
  /\ status' = 1
  /\ pc' = [pc EXCEPT ![t] = "init"]
  /\ UNCHANGED <<csInit, owner, depth, runs, running>>

\* InterlockedCompareExchange(&flag->status, 1, 0) == 0
Cas(t) ==
  /\ pc[t] = "cas"
  /\ status' = IF status = 0 THEN 1 ELSE status
  /\ pc' = [pc EXCEPT ![t] = IF status = 0 THEN "init" ELSE "while"]
  /\ UNCHANGED <<csInit, owner, depth, runs, running>>

\* Mutant: flag->status = 3 is written before func() instead of after it.
InitAndLock_early_done(t) ==
  /\ Goto(t, "init", "func")
  /\ csInit' = TRUE
  /\ owner' = t
  /\ depth' = 1
  /\ status' = 3
  /\ running' = running \cup {t}
  /\ UNCHANGED runs

\* InitializeCriticalSection(&flag->lock); the winner's
\* EnterCriticalSection, which a fresh critical section never blocks;
\* flag->status = 2.
InitAndLock(t) ==
  /\ Goto(t, "init", "func")
  /\ csInit' = TRUE
  /\ owner' = t
  /\ depth' = 1
  /\ status' = 2
  /\ running' = running \cup {t}
  /\ UNCHANGED runs

\* func() returns.
Func(t) ==
  /\ Goto(t, "func", "mark")
  /\ runs' = runs + 1
  /\ running' = running \ {t}
  /\ UNCHANGED <<status, csInit, owner, depth>>

\* Mutant: LeaveCriticalSection is missing after flag->status = 3.
MarkDone_no_leave(t) ==
  /\ Goto(t, "mark", "done")
  /\ status' = 3
  /\ UNCHANGED <<csInit, owner, depth, runs, running>>

\* flag->status = 3; LeaveCriticalSection(&flag->lock); return.
MarkDone(t) ==
  /\ Goto(t, "mark", "done")
  /\ status' = 3
  /\ Leave
  /\ UNCHANGED <<csInit, runs, running>>

\* Mutant: the waiter's EnterCriticalSection is missing.
WaitEnter_missing(t) ==
  /\ Goto(t, "enter", "leave")
  /\ UNCHANGED <<status, csInit, owner, depth, runs, running>>

\* case 2: EnterCriticalSection(&flag->lock), blocking while the winner
\* runs func.
WaitEnter(t) ==
  /\ Goto(t, "enter", "leave")
  /\ Enter(t)
  /\ UNCHANGED <<status, csInit, runs, running>>

\* case 2: LeaveCriticalSection(&flag->lock); break.
WaitLeave(t) ==
  /\ Goto(t, "leave", "while")
  /\ Leave
  /\ UNCHANGED <<status, csInit, runs, running>>

Step(t) ==
  \/ While(t) \/ Switch(t) \/ Cas(t) \/ InitAndLock(t) \/ Func(t)
  \/ MarkDone(t) \/ WaitEnter(t) \/ WaitLeave(t)

Next == \E t \in Threads: Step(t)

\* Windows runs every thread that is not blocked: each thread's steps are
\* weakly fair.  A thread blocked in EnterCriticalSection has no step
\* enabled; one spinning on status 1 keeps taking steps.
Fairness == \A t \in Threads: WF_vars(Step(t))

Spec == Init /\ [][Next]_vars /\ Fairness

-----------------------------------------------------------------------------
(* Properties.                                                             *)

TypeOK ==
  /\ status \in 0..3
  /\ csInit \in BOOLEAN
  /\ owner \in Threads \cup {NoThread}
  /\ depth \in Nat
  /\ pc \in [Threads -> {"while", "switch", "cas", "init", "func", "mark",
                         "enter", "leave", "done"}]
  /\ runs \in Nat
  /\ running \subseteq Threads

(* func runs once: at most one thread is ever inside it, and it returns at *)
(* most once, however the threads' reads of flag->status and their        *)
(* exchanges interleave.                                                   *)
FuncOnce == runs + Cardinality(running) <= 1

(* No call_once returns before func has returned: a caller that sees      *)
(* status 2 waits on flag->lock, which the winner holds until func is      *)
(* done, and status 3 is written only after func.                          *)
ReturnsAfterFunc == \A t \in Threads: pc[t] = "done" => runs = 1

(* Every call_once returns: the spin on status 1 ends once the winner has  *)
(* initialised the lock, and the waiters on flag->lock are let in when the *)
(* winner leaves it.                                                       *)
AllReturn == <>(\A t \in Threads: pc[t] = "done")

=============================================================================
