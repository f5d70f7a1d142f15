------------------------------ MODULE Win32Cond ------------------------------
(***************************************************************************)
(* The Win32 condition variable of src/src/cthread.c (cnd_signal,          *)
(* cnd_broadcast and _cnd_timedwait_win32, which cnd_wait and              *)
(* cnd_timedwait call) used with a plain mtx_t of Win32Mutex.              *)
(*                                                                         *)
(* The condition variable is mWaitersCount (count), guarded by its own     *)
(* critical section, and two events: ONE, auto-reset, set by cnd_signal,   *)
(* and ALL, manual-reset, set by cnd_broadcast.                            *)
(*                                                                         *)
(* The threads run the usual client of a condition variable.  A producer   *)
(* locks the mutex, adds a token, calls cnd_signal or cnd_broadcast (one   *)
(* of Notifies, chosen per call) and unlocks.  A                           *)
(* consumer locks the mutex, waits while there is no token, takes one and  *)
(* unlocks.  Each thread does this once.                                   *)
(***************************************************************************)
EXTENDS Naturals, FiniteSets

CONSTANTS
  Consumers,   \* threads that wait for a token
  Producers,   \* threads that add a token and notify
  NoThread,    \* owner of a mutex nobody owns
  Notifies,    \* the notify functions producers call
  Waits,       \* the wait functions consumers call
  MaxTimeouts  \* bound on the number of waits that time out

ASSUME /\ Consumers \cap Producers = {}
       /\ Notifies \subseteq {"cnd_signal", "cnd_broadcast"}
       /\ Waits \subseteq {"cnd_wait", "cnd_timedwait"}
       /\ MaxTimeouts \in Nat

Threads == Consumers \cup Producers

VARIABLES
  mRecursive, mTimed, owner, depth, already, pc, ret, held,  \* the mutex
  count,    \* cond->mWaitersCount
  evOne,    \* mEvents[_CONDITION_EVENT_ONE] is signalled
  evAll,    \* mEvents[_CONDITION_EVENT_ALL] is signalled
  result,   \* per consumer: the event its wait returned on
  timed,    \* per consumer: its wait is cnd_timedwait
  stage,    \* per thread: where it is in its client code
  tokens,   \* the condition the mutex protects: tokens not yet taken
  timeouts  \* waits that have timed out so far

mutexVars == <<mRecursive, mTimed, owner, depth, already, pc, ret, held>>
condVars  == <<count, evOne, evAll, result, timed>>
vars      == <<mutexVars, condVars, stage, tokens, timeouts>>

M == INSTANCE Win32Mutex WITH MutexTypes <- {{}}, MaxHeld <- 1

Init ==
  /\ M!Init
  /\ count = 0
  /\ evOne = FALSE
  /\ evAll = FALSE
  /\ result = [t \in Consumers |-> "none"]
  /\ timed = [t \in Consumers |-> FALSE]
  /\ stage = [t \in Threads |-> "start"]
  /\ tokens = 0
  /\ timeouts = 0

\* Move thread t from stage `from` to stage `to`.
Goto(t, from, to) == /\ stage[t] = from
                     /\ stage' = [stage EXCEPT ![t] = to]

\* cnd_wait calls _cnd_timedwait_win32 with INFINITE; cnd_timedwait with
\* the milliseconds left to its deadline (0 once it has passed), and that
\* wait may time out.  timespec_get is taken to succeed.
MayTimeOut(w) == w = "cnd_timedwait"

\* A step of t that needs the mutex call it made last to have returned.
Running(t) == pc[t] = "idle"

-----------------------------------------------------------------------------
(* The client code around the condition variable.                          *)

\* mtx_lock(&mtx) before the client's critical section, and again at the
\* end of a wait; then the mAlreadyLocked spin of the lock call.
Lock(t) ==
  /\ \/ Goto(t, "start", IF t \in Consumers THEN "check" ELSE "produce")
     \/ Goto(t, "w_relock", "check")
  /\ M!mtx_lock(t)
  /\ UNCHANGED <<condVars, tokens, timeouts>>

Spin(t) == M!SpinThenMark(t) /\ UNCHANGED <<condVars, stage, tokens, timeouts>>

\* Consumer: while (tokens == 0) cnd_wait or cnd_timedwait; tokens--;
Check(t) ==
  /\ Running(t)
  /\ \/ /\ tokens = 0
        /\ Goto(t, "check", "w_inc")
        /\ \E w \in Waits: timed' = [timed EXCEPT ![t] = MayTimeOut(w)]
        /\ UNCHANGED tokens
     \/ /\ tokens > 0
        /\ Goto(t, "check", "unlock")
        /\ tokens' = tokens - 1
        /\ UNCHANGED timed
  /\ UNCHANGED <<mutexVars, count, evOne, evAll, result, timeouts>>

\* Producer: tokens++; then cnd_signal or cnd_broadcast.
Produce(t) ==
  /\ Running(t)
  /\ \E f \in Notifies: Goto(t, "produce", f)
  /\ tokens' = tokens + 1
  /\ UNCHANGED <<mutexVars, condVars, timeouts>>

\* mtx_unlock(&mtx) at the end of the client's critical section.
Unlock(t) ==
  /\ Goto(t, "unlock", "done")
  /\ M!mtx_unlock(t)
  /\ UNCHANGED <<condVars, tokens, timeouts>>

-----------------------------------------------------------------------------
(* cnd_signal and cnd_broadcast: mWaitersCount is read under its critical  *)
(* section, which is then left; the event is set after, in its own step.   *)

\* The stage in which each notify function sets its event.
SetStage == [cnd_signal |-> "set_one", cnd_broadcast |-> "set_all"]

\* Mutant: haveWaiters = (mWaitersCount > 1).
NotifyRead_off_by_one(t) ==
  /\ stage[t] \in Notifies
  /\ stage' = [stage EXCEPT ![t] = IF count > 1 THEN SetStage[@] ELSE "unlock"]
  /\ UNCHANGED <<mutexVars, condVars, tokens, timeouts>>

\* haveWaiters = (cond->mWaitersCount > 0) under mWaitersCountLock.
NotifyRead(t) ==
  /\ stage[t] \in Notifies
  /\ stage' = [stage EXCEPT ![t] = IF count > 0 THEN SetStage[@] ELSE "unlock"]
  /\ UNCHANGED <<mutexVars, condVars, tokens, timeouts>>

\* SetEvent(mEvents[_CONDITION_EVENT_ONE]) in cnd_signal,
\* SetEvent(mEvents[_CONDITION_EVENT_ALL]) in cnd_broadcast.
NotifySet(t) ==
  /\ \/ Goto(t, "set_one", "unlock") /\ evOne' = TRUE /\ UNCHANGED evAll
     \/ Goto(t, "set_all", "unlock") /\ evAll' = TRUE /\ UNCHANGED evOne
  /\ UNCHANGED <<mutexVars, count, result, timed, tokens, timeouts>>

-----------------------------------------------------------------------------
(* _cnd_timedwait_win32, one step per shared access.                        *)

\* ++cond->mWaitersCount under mWaitersCountLock.
WaitInc(t) ==
  /\ Goto(t, "w_inc", "w_unlock")
  /\ count' = count + 1
  /\ UNCHANGED <<mutexVars, evOne, evAll, result, timed, tokens, timeouts>>

\* mtx_unlock(mtx).
WaitUnlock(t) ==
  /\ Goto(t, "w_unlock", "w_wait")
  /\ M!mtx_unlock(t)
  /\ UNCHANGED <<condVars, tokens, timeouts>>

\* Mutant: the waiter count is also decremented on wakeup.
WaitFor_dec(t) ==
  /\ Goto(t, "w_wait", "w_dec")
  /\ count' = count - 1
  /\ \/ /\ evOne
        /\ evOne' = FALSE
        /\ result' = [result EXCEPT ![t] = "one"]
     \/ /\ ~evOne /\ evAll
        /\ result' = [result EXCEPT ![t] = "all"]
        /\ UNCHANGED evOne
  /\ UNCHANGED <<mutexVars, evAll, timed, tokens, timeouts>>

\* WaitForMultipleObjects(2, mEvents, FALSE, timeout) returning on an event:
\* the lowest signalled index, ONE before ALL; waiting on the auto-reset
\* ONE event resets it.
WaitFor(t) ==
  /\ Goto(t, "w_wait", "w_dec")
  /\ \/ /\ evOne
        /\ evOne' = FALSE
        /\ result' = [result EXCEPT ![t] = "one"]
     \/ /\ ~evOne /\ evAll
        /\ result' = [result EXCEPT ![t] = "all"]
        /\ UNCHANGED evOne
  /\ UNCHANGED <<mutexVars, count, evAll, timed, tokens, timeouts>>

\* Mutant: WAIT_TIMEOUT returns without mtx_lock(mtx).
WaitTimeout_no_relock(t) ==
  /\ timed[t] /\ timeouts < MaxTimeouts
  /\ ~evOne /\ ~evAll
  /\ Goto(t, "w_wait", "check")
  /\ timeouts' = timeouts + 1
  /\ UNCHANGED <<mutexVars, condVars, tokens>>

\* WAIT_TIMEOUT: mtx_lock(mtx) and return thrd_timedout, without touching
\* mWaitersCount.
WaitTimeout(t) ==
  /\ timed[t] /\ timeouts < MaxTimeouts
  /\ ~evOne /\ ~evAll
  /\ Goto(t, "w_wait", "w_relock")
  /\ timeouts' = timeouts + 1
  /\ UNCHANGED <<mutexVars, condVars, tokens>>

\* --cond->mWaitersCount and the lastWaiter test, under mWaitersCountLock.
WaitDec(t) ==
  /\ stage[t] = "w_dec"
  /\ count' = count - 1
  /\ stage' = [stage EXCEPT ![t] =
                  IF result[t] = "all" /\ count - 1 = 0 THEN "w_reset" ELSE "w_relock"]
  /\ UNCHANGED <<mutexVars, evOne, evAll, result, timed, tokens, timeouts>>

\* ResetEvent(mEvents[_CONDITION_EVENT_ALL]) by the last waiter.
WaitReset(t) ==
  /\ Goto(t, "w_reset", "w_relock")
  /\ evAll' = FALSE
  /\ UNCHANGED <<mutexVars, count, evOne, result, timed, tokens, timeouts>>

-----------------------------------------------------------------------------

ConsumerStep(t) ==
  \/ Lock(t) \/ Spin(t) \/ Check(t) \/ Unlock(t)
  \/ WaitInc(t) \/ WaitUnlock(t) \/ WaitFor(t) \/ WaitTimeout(t)
  \/ WaitDec(t) \/ WaitReset(t)

ProducerStep(t) ==
  \/ Lock(t) \/ Spin(t) \/ Produce(t) \/ Unlock(t)
  \/ NotifyRead(t) \/ NotifySet(t)

Next ==
  \/ \E t \in Consumers: ConsumerStep(t)
  \/ \E t \in Producers: ProducerStep(t)

\* Windows runs every thread that is not blocked: each thread's steps are
\* weakly fair.  A thread blocked in EnterCriticalSection or in
\* WaitForMultipleObjects has no step enabled.
Fairness ==
  /\ \A t \in Consumers: WF_vars(ConsumerStep(t))
  /\ \A t \in Producers: WF_vars(ProducerStep(t))

Spec == Init /\ [][Next]_vars /\ Fairness

-----------------------------------------------------------------------------
(* Properties.                                                             *)

TypeOK ==
  /\ count \in 0..(Cardinality(Consumers) + MaxTimeouts)
  /\ evOne \in BOOLEAN /\ evAll \in BOOLEAN
  /\ result \in [Consumers -> {"none", "one", "all"}]
  /\ timed \in [Consumers -> BOOLEAN]
  /\ stage \in [Threads -> {"start", "check", "produce", "cnd_signal",
                            "cnd_broadcast", "set_one", "set_all",
                            "unlock", "done", "w_inc", "w_unlock", "w_wait",
                            "w_dec", "w_reset", "w_relock"}]
  /\ tokens \in 0..Cardinality(Producers)
  /\ timeouts \in 0..MaxTimeouts

(* Every thread finishes: a consumer waiting while a producer adds a token *)
(* and notifies is woken, and some consumer takes every token it needs.    *)
AllFinish == <>(\A t \in Threads : stage[t] = "done")

\* The stages in which the client code runs with the mutex held.
CriticalStages == {"check", "produce", "cnd_signal", "cnd_broadcast", "set_one",
                   "set_all", "unlock", "w_inc", "w_unlock"}

(* The client's critical sections exclude each other: a wait gives the     *)
(* mutex up only while it is blocked and takes it back before it returns,  *)
(* on a timeout as on a wakeup, so the test of tokens and the change of    *)
(* tokens are never done by two threads at once.                          *)
CriticalSectionExclusive ==
  \A t, u \in Threads :
    t # u => ~(stage[t] \in CriticalStages /\ Running(t)
               /\ stage[u] \in CriticalStages /\ Running(u))

=============================================================================
