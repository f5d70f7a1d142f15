------------------------------ MODULE C11Mutex ------------------------------
(***************************************************************************)
(* What the mutex functions promise (C11 7.26.4): a mutex is held by at    *)
(* most one thread; a recursive one may be locked again by its holder, as  *)
(* often as it is then unlocked.  Every call returns a result that the     *)
(* state of the mutex at that moment allows:                               *)
(*   - thrd_success from a lock call that takes the mutex, and from an     *)
(*     unlock by its holder;                                               *)
(*   - thrd_busy (mtx_trylock) and thrd_timedout (mtx_timedlock) only      *)
(*     while the mutex is not available to the caller;                     *)
(*   - thrd_error from mtx_timedlock on a mutex that is not timed.         *)
(* Locking is one atomic step.                                             *)
(***************************************************************************)
EXTENDS Naturals

CONSTANTS Threads, NoThread

VARIABLES
  recursive, \* the mutex was made with mtx_recursive
  timed,     \* the mutex was made with mtx_timed
  holder,    \* the thread holding the mutex, or NoThread
  count,     \* how many times the holder has locked it and not unlocked it
  result     \* what each thread's last call returned

vars == <<recursive, timed, holder, count, result>>

Init == /\ recursive \in BOOLEAN
        /\ timed \in BOOLEAN
        /\ holder = NoThread
        /\ count = 0
        /\ result = [t \in Threads |-> "none"]

\* The mutex may be taken by t: it is free, or t holds a recursive mutex.
Free(t) == holder = NoThread \/ (holder = t /\ recursive)

Returns(t, r) == result' = [result EXCEPT ![t] = r]

Lock(t) == /\ Free(t)
           /\ holder' = t
           /\ count' = count + 1
           /\ Returns(t, "thrd_success")
           /\ UNCHANGED <<recursive, timed>>

Unlock(t) == /\ holder = t
             /\ count' = count - 1
             /\ holder' = IF count = 1 THEN NoThread ELSE t
             /\ Returns(t, "thrd_success")
             /\ UNCHANGED <<recursive, timed>>

\* mtx_trylock returns thrd_busy, or mtx_timedlock thrd_timedout.
Refuse(t) == /\ ~Free(t)
             /\ \E r \in {"thrd_busy", "thrd_timedout"}: Returns(t, r)
             /\ UNCHANGED <<recursive, timed, holder, count>>

\* mtx_timedlock on a mutex that is not timed.
NotTimed(t) == /\ ~timed
               /\ Returns(t, "thrd_error")
               /\ UNCHANGED <<recursive, timed, holder, count>>

Next == \E t \in Threads: Lock(t) \/ Unlock(t) \/ Refuse(t) \/ NotTimed(t)

Spec == Init /\ [][Next]_vars

=============================================================================
