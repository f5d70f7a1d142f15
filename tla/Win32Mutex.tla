----------------------------- MODULE Win32Mutex -----------------------------
(***************************************************************************)
(* The Win32 branch of the mutex functions of src/src/cthread.c: mtx_lock, *)
(* mtx_timedlock, mtx_trylock and mtx_unlock on one mtx_t shared by a set  *)
(* of threads.                                                             *)
(*                                                                         *)
(* Both lock objects the code uses, a CRITICAL_SECTION for plain mutexes   *)
(* and a kernel mutex HANDLE for timed ones, are recursive: they have an   *)
(* owning thread and a recursion count (owner, depth).  The code makes a   *)
(* non-recursive mtx_t out of them with the mAlreadyLocked flag (already). *)
(*                                                                         *)
(* held[t] is client state: the lock calls of t that returned              *)
(* thrd_success and that t has not yet undone with mtx_unlock.  A thread   *)
(* calls mtx_lock and mtx_timedlock only when C11 allows it (the mutex is  *)
(* recursive or t does not hold it), mtx_unlock only when it holds the     *)
(* mutex, and mtx_trylock at any time.                                     *)
(***************************************************************************)
EXTENDS Naturals, FiniteSets
LOCAL INSTANCE Functions

CONSTANTS
  Threads,    \* the threads sharing the mutex
  NoThread,   \* owner of a lock object nobody owns
  MutexTypes, \* the types mtx_init may be given: sets of mtx_timed, mtx_recursive
  MaxHeld     \* bound on held[t], for recursive locking

ASSUME /\ NoThread \notin Threads
       /\ MutexTypes \subseteq SUBSET {"mtx_timed", "mtx_recursive"}
       /\ MaxHeld \in Nat \ {0}

VARIABLES
  mRecursive, \* mtx->mRecursive
  mTimed,     \* mtx->mTimed
  owner,    \* owning thread of mHandle.cs / mHandle.mut
  depth,    \* its recursion count
  already,  \* mAlreadyLocked
  pc,       \* where each thread is in the mutex functions
  ret,      \* the last value each thread's call returned
  held      \* successful lock calls not yet undone, per thread

vars == <<mRecursive, mTimed, owner, depth, already, pc, ret, held>>

RetCodes == {"none", "thrd_success", "thrd_busy", "thrd_timedout", "thrd_error"}

-----------------------------------------------------------------------------
(* The lock object: EnterCriticalSection / TryEnterCriticalSection and a   *)
(* successful WaitForSingleObject take it when it is free or already the   *)
(* caller's; LeaveCriticalSection / ReleaseMutex give back one level.      *)

Available(t) == owner \in {NoThread, t}

\* Mutant: the lock object counts one level whoever takes it.
Acquire_no_recursion(t) == /\ owner' = t
                           /\ depth' = 1

Acquire(t) == /\ owner' = t
              /\ depth' = depth + 1

\* Mutant: one unlock gives back every level.
Release_all == /\ depth' = 0
               /\ owner' = NoThread

Release == /\ depth' = depth - 1
           /\ owner' = IF depth = 1 THEN NoThread ELSE owner

\* A lock call of t returns thrd_success.
Succeed(t) == /\ held' = [held EXCEPT ![t] = @ + 1]
              /\ ret' = [ret EXCEPT ![t] = "thrd_success"]
              /\ pc' = [pc EXCEPT ![t] = "idle"]

Return(t, code) == /\ ret' = [ret EXCEPT ![t] = code]
                   /\ pc' = [pc EXCEPT ![t] = "idle"]

\* mtx_init(&mtx, type): the type bits, a free lock object, and
\* mAlreadyLocked = FALSE.
Init ==
  /\ \E type \in MutexTypes:
       /\ mRecursive = ("mtx_recursive" \in type)
       /\ mTimed = ("mtx_timed" \in type)
  /\ owner = NoThread
  /\ depth = 0
  /\ already = FALSE
  /\ pc = [t \in Threads |-> "idle"]
  /\ ret = [t \in Threads |-> "none"]
  /\ held = [t \in Threads |-> 0]

-----------------------------------------------------------------------------
(* mtx_lock: EnterCriticalSection, or WaitForSingleObject(INFINITE) for a  *)
(* timed mutex; a non-recursive mutex then spins while mAlreadyLocked.     *)
mtx_lock(t) ==
  /\ UNCHANGED <<mRecursive, mTimed>>
  /\ pc[t] = "idle"
  /\ held[t] = 0 \/ (mRecursive /\ held[t] < MaxHeld)
  /\ Available(t)
  /\ Acquire(t)
  /\ IF mRecursive
     THEN /\ Succeed(t)
          /\ UNCHANGED already
     ELSE /\ pc' = [pc EXCEPT ![t] = "lock_spin"]
          /\ UNCHANGED <<already, ret, held>>

\* while(mtx->mAlreadyLocked) Sleep(1); mtx->mAlreadyLocked = TRUE;
\* shared by mtx_lock and mtx_timedlock.
SpinThenMark(t) ==
  /\ UNCHANGED <<mRecursive, mTimed>>
  /\ pc[t] \in {"lock_spin", "timed_spin"}
  /\ ~already
  /\ already' = TRUE
  /\ Succeed(t)
  /\ UNCHANGED <<owner, depth>>

\* mtx_timedlock: thrd_error on a mutex that is not timed; otherwise
\* WaitForSingleObject(mut, timeoutMs) takes the mutex or, while another
\* thread owns it, times out; a non-recursive mutex then spins while
\* mAlreadyLocked, whatever the deadline.
mtx_timedlock(t) ==
  /\ UNCHANGED <<mRecursive, mTimed>>
  /\ pc[t] = "idle"
  /\ held[t] = 0 \/ (mRecursive /\ held[t] < MaxHeld)
  /\ IF ~mTimed
     THEN /\ Return(t, "thrd_error")
          /\ UNCHANGED <<owner, depth, already, held>>
     ELSE \/ /\ Available(t)
             /\ Acquire(t)
             /\ IF mRecursive
                THEN Succeed(t)
                ELSE /\ pc' = [pc EXCEPT ![t] = "timed_spin"]
                     /\ UNCHANGED <<ret, held>>
             /\ UNCHANGED already
          \/ /\ ~Available(t)
             /\ Return(t, "thrd_timedout")
             /\ UNCHANGED <<owner, depth, already, held>>

\* Mutant: the two results of TryEnterCriticalSection swapped.
mtx_trylock_swapped(t) ==
  /\ UNCHANGED <<mRecursive, mTimed>>
  /\ pc[t] = "idle"
  /\ held[t] < MaxHeld
  /\ IF ~Available(t)
     THEN /\ Succeed(t)
          /\ UNCHANGED <<owner, depth, already>>
     ELSE /\ Acquire(t)
          /\ Return(t, "thrd_busy")
          /\ UNCHANGED <<already, held>>

\* Mutant: the level taken is kept when mAlreadyLocked refuses it.
mtx_trylock_no_leave(t) ==
  /\ UNCHANGED <<mRecursive, mTimed>>
  /\ pc[t] = "idle"
  /\ held[t] < MaxHeld
  /\ IF ~Available(t)
     THEN /\ Return(t, "thrd_busy")
          /\ UNCHANGED <<owner, depth, already, held>>
     ELSE IF ~mRecursive /\ already
     THEN /\ Acquire(t)
          /\ Return(t, "thrd_busy")
          /\ UNCHANGED <<already, held>>
     ELSE /\ Acquire(t)
          /\ already' = IF mRecursive THEN already ELSE TRUE
          /\ Succeed(t)

\* Mutant: mAlreadyLocked is not consulted.
mtx_trylock_no_check(t) ==
  /\ UNCHANGED <<mRecursive, mTimed>>
  /\ pc[t] = "idle"
  /\ held[t] < MaxHeld
  /\ IF ~Available(t)
     THEN /\ Return(t, "thrd_busy")
          /\ UNCHANGED <<owner, depth, already, held>>
     ELSE /\ Acquire(t)
          /\ already' = IF mRecursive THEN already ELSE TRUE
          /\ Succeed(t)

\* mtx_trylock: TryEnterCriticalSection, or WaitForSingleObject(mut, 0);
\* on success a non-recursive mutex already marked locked is given back with
\* LeaveCriticalSection(&mHandle.cs) and thrd_busy returned.  For a timed
\* mutex mHandle holds the kernel HANDLE, not a CRITICAL_SECTION, so that
\* call does not release the kernel mutex the wait has just taken.
mtx_trylock(t) ==
  /\ UNCHANGED <<mRecursive, mTimed>>
  /\ pc[t] = "idle"
  /\ held[t] < MaxHeld
  /\ IF ~Available(t)
     THEN /\ Return(t, "thrd_busy")
          /\ UNCHANGED <<owner, depth, already, held>>
     ELSE IF ~mRecursive /\ already
     THEN /\ IF mTimed
             THEN Acquire(t)
             ELSE UNCHANGED <<owner, depth>>
          /\ Return(t, "thrd_busy")
          /\ UNCHANGED <<already, held>>
     ELSE /\ Acquire(t)
          /\ already' = IF mRecursive THEN already ELSE TRUE
          /\ Succeed(t)

\* Mutant: mAlreadyLocked is left set.
mtx_unlock_keeps_flag(t) ==
  /\ UNCHANGED <<mRecursive, mTimed>>
  /\ pc[t] = "idle"
  /\ held[t] > 0
  /\ UNCHANGED already
  /\ IF owner = t
     THEN /\ Release
          /\ Return(t, "thrd_success")
     ELSE /\ Return(t, "thrd_error")
          /\ UNCHANGED <<owner, depth>>
  /\ held' = [held EXCEPT ![t] = @ - 1]

\* mtx_unlock: mAlreadyLocked = FALSE, then LeaveCriticalSection or
\* ReleaseMutex.
mtx_unlock(t) ==
  /\ UNCHANGED <<mRecursive, mTimed>>
  /\ pc[t] = "idle"
  /\ held[t] > 0
  /\ already' = FALSE
  /\ IF owner = t
     THEN /\ Release
          /\ Return(t, "thrd_success")
     ELSE /\ Return(t, "thrd_error")
          /\ UNCHANGED <<owner, depth>>
  /\ held' = [held EXCEPT ![t] = @ - 1]

Next ==
  \E t \in Threads:
    \/ mtx_lock(t)
    \/ SpinThenMark(t)
    \/ mtx_timedlock(t)
    \/ mtx_trylock(t)
    \/ mtx_unlock(t)

\* The code runs every thread that is not blocked: each thread's steps are
\* weakly fair.
Fairness == \A t \in Threads: WF_vars(SpinThenMark(t))

Spec == Init /\ [][Next]_vars /\ Fairness

-----------------------------------------------------------------------------
(* Properties.                                                             *)

\* Lock calls of t that have taken the lock object and not returned yet.
Pending(t) == IF pc[t] \in {"lock_spin", "timed_spin"} THEN 1 ELSE 0

(* No two threads hold the mutex at once: a lock call returns thrd_success *)
(* only to one thread until that thread has unlocked it as often.          *)
MutualExclusion ==
  \A t, u \in Threads: t # u => ~(held[t] > 0 /\ held[u] > 0)

(* A non-recursive mutex is never held twice by one thread, although the   *)
(* lock objects underneath are recursive: a relock by the owner blocks in  *)
(* the mAlreadyLocked spin, and mtx_trylock by the owner returns busy.     *)
NonRecursiveHeldOnce == ~mRecursive => \A t \in Threads: held[t] <= 1

(* The recursion count of the lock object is the number of lock calls of *)
(* its owner that have taken it and not been undone, and no other thread   *)
(* has such a call: every level mtx_trylock takes and then refuses is      *)
(* given back, and mtx_unlock gives back one level, so a mutex its         *)
(* threads have unlocked is free for the others.                           *)
LockDepthMatches ==
  \A t \in Threads: held[t] + Pending(t) = IF owner = t THEN depth ELSE 0

\* The refinement mapping.  A lock call that has taken the lock object has
\* taken the mutex, although it may still spin on mAlreadyLocked, and its
\* result is then thrd_success.
Taken(t) == held[t] + Pending(t)

Abstract == INSTANCE C11Mutex WITH
  recursive <- mRecursive,
  timed <- mTimed,
  holder <- IF \E t \in Threads: Taken(t) > 0
            THEN CHOOSE t \in Threads: Taken(t) > 0 ELSE NoThread,
  count <- FoldFunction(+, 0, [t \in Threads |-> Taken(t)]),
  result <- [t \in Threads |-> IF pc[t] = "idle" THEN ret[t] ELSE "thrd_success"]

(* The Win32 mutex implements the C11 mutex: every step that takes or     *)
(* gives back the mutex is one the contract allows, and every result a     *)
(* call returns is one the state of the mutex allows.  In particular       *)
(* mtx_trylock never answers thrd_busy for a mutex that is free, although  *)
(* it reads mAlreadyLocked, which mtx_unlock clears before it leaves the  *)
(* lock object, and mtx_timedlock never times out on a free mutex.         *)
MutexRefined == Abstract!Spec

=============================================================================
