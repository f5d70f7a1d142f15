---------------------------- MODULE Win32Threads ----------------------------
(***************************************************************************)
(* The Win32 thread functions of src/src/cthread.c: thrd_create,           *)
(* thrd_join, thrd_detach, thrd_current and the thread wrapper, over the   *)
(* process-wide registry _cthread_thread_head of CThreadThrdData nodes     *)
(* { thread_id, handle, next } that maps a thrd_t (a thread id) back to    *)
(* its HANDLE.                                                             *)
(*                                                                         *)
(* Each parent thread calls thrd_create once and then joins or detaches    *)
(* the thread it made, or leaves it to detach itself with                  *)
(* thrd_detach(thrd_current()).  The new thread, its HANDLE and its        *)
(* CThreadThrdData node are all named after the parent.  The kernel hands  *)
(* out thread ids from Ids and reuses the id of a thread object that has   *)
(* ended and whose HANDLE is closed.  It hands out HANDLE values from      *)
(* Handles and reuses a value as soon as CloseHandle has closed it, so a   *)
(* stale HANDLE may name another thread's object.                          *)
(*                                                                         *)
(* _insert_thread_data, _lookup_thread_handle and _remove_thread_data each *)
(* hold the SRW lock for their whole body, so each is one step; the steps  *)
(* of thrd_create, thrd_join and thrd_detach between them are not under    *)
(* the lock and interleave.  The _cthread_tss_cleanup a thread runs when   *)
(* it ends is the subject of Win32Tss and is left out here.                *)
(***************************************************************************)
EXTENDS Naturals, Sequences, SequencesExt

CONSTANTS
  Parents,        \* threads that each call thrd_create once
  Ids,            \* thread ids the kernel hands out
  Handles,        \* HANDLE values the kernel hands out
  Plans,          \* what a parent does with its thread: "join", "detach",
                  \* or "self" (the thread calls thrd_detach(thrd_current()))
  CreateCanFail,  \* TRUE: malloc and CreateThread may fail
  NoThread,       \* a NULL HANDLE or node
  NoId            \* the id of a thread not yet created

ASSUME /\ Plans \subseteq {"join", "detach", "self"}
       /\ CreateCanFail \in BOOLEAN
       /\ NoThread \notin Parents
       /\ NoId \notin Ids
       /\ NoThread \notin Handles

\* A parent's thread of control, and the thread it creates.
Actors == Parents \X {"parent", "child"}

VARIABLES
  pc,        \* where each actor is
  plan,      \* plan[p]: what p does with the thread it created
  id,        \* id[p]: GetThreadId of p's thread, kept in its node
  exited,    \* exited[p]: p's thread has ended
  open,      \* threads whose HANDLE is not yet closed
  hval,      \* hval[p]: the value of p's thread's HANDLE, kept in its node
  registry,  \* the _cthread_thread_head list, as the sequence of its nodes
  freed,     \* nodes given back with free
  target,    \* target[a]: the thrd_t that actor a joins or detaches
  handle,    \* handle[a]: what _lookup_thread_handle returned to a
  got,       \* got[p]: the exit code p's thrd_join stored in *res
  ret,       \* what each actor's last call returned
  fault,     \* invalid memory accesses
  locked     \* _cthread_thread_head_srwlock is held

vars == <<pc, plan, id, exited, open, hval, registry, freed, target, handle, got,
          ret, fault, locked>>

Init ==
  /\ pc = [a \in Actors |-> IF a[2] = "parent" THEN "create" ELSE "unborn"]
  /\ plan = [p \in Parents |-> "none"]
  /\ id = [p \in Parents |-> NoId]
  /\ exited = [p \in Parents |-> FALSE]
  /\ open = {}
  /\ hval = [p \in Parents |-> NoThread]
  /\ registry = <<>>
  /\ freed = {}
  /\ target = [a \in Actors |-> NoId]
  /\ handle = [a \in Actors |-> NoThread]
  /\ got = [p \in Parents |-> NoThread]
  /\ ret = [a \in Actors |-> "none"]
  /\ fault = {}
  /\ locked = FALSE

\* A thread object lives until it has ended and its HANDLE is closed; only
\* then may the kernel hand its id to a new thread.
Alive(p) == id[p] # NoId /\ ~(exited[p] /\ p \notin open)
LiveIds == {id[p] : p \in {q \in Parents : Alive(q)}}

\* The HANDLE values of open handles, and the threads an open value names.
InUse == {hval[q] : q \in open}
Named(v) == {q \in open : hval[q] = v}

\* The position of the first node whose thread_id is tid, 0 if none: where
\* the walks of _lookup_thread_handle and _remove_thread_data stop.
FirstWith(tid) == SelectInSeq(registry, LAMBDA n: id[n] = tid)

\* thrd_current in p's thread: GetCurrentThreadId.
thrd_current(p) == id[p]

\* The parent calls thrd_join on its thread.
Joins(a) == a[2] = "parent" /\ plan[a[1]] = "join"

\* Actor a's call returns r: a parent is then done, a thread goes on to end.
Return(a, r) ==
  /\ pc' = [pc EXCEPT ![a] = IF a[2] = "parent" THEN "done" ELSE "exit"]
  /\ ret' = [ret EXCEPT ![a] = r]

-----------------------------------------------------------------------------

\* thrd_create up to CreateThread: malloc of the start info and of the node
\* may fail (thrd_nomem), CreateThread may fail or find no free id
\* (thrd_error), as it does when no HANDLE value is free.  On success the
\* new thread is running and has a HANDLE.
thrd_create(a) ==
  LET p == a[1]
      Failures == (IF CreateCanFail THEN {"thrd_nomem", "thrd_error"} ELSE {})
                  \cup (IF LiveIds = Ids \/ InUse = Handles
                        THEN {"thrd_error"} ELSE {})
  IN /\ pc[a] = "create"
     /\ \/ \E r \in Failures:
             /\ Return(a, r)
             /\ UNCHANGED <<plan, id, open, hval>>
        \/ \E i \in Ids \ LiveIds, v \in Handles \ InUse, pl \in Plans:
             /\ id' = [id EXCEPT ![p] = i]
             /\ hval' = [hval EXCEPT ![p] = v]
             /\ plan' = [plan EXCEPT ![p] = pl]
             /\ open' = open \cup {p}
             /\ pc' = [pc EXCEPT ![a] = "insert", ![<<p, "child">>] = "run"]
             /\ UNCHANGED ret
     /\ UNCHANGED <<exited, registry, freed, target, handle, got, fault, locked>>

\* _insert_thread_data(data): the node is appended to the list.
insert_thread_data(a) ==
  /\ pc[a] = "insert"
  /\ ~locked
  /\ registry' = Append(registry, a[1])
  /\ pc' = [pc EXCEPT ![a] = "publish"]
  /\ UNCHANGED <<plan, id, exited, open, hval, freed, target, handle, got, ret, fault, locked>>

\* *thr = data->thread_id; return thrd_success.  The node is read after
\* the lock that published it is released.  The parent then joins or
\* detaches the thread through *thr.
Publish(a) ==
  LET p == a[1] IN
  /\ pc[a] = "publish"
  /\ target' = [target EXCEPT ![a] = id[p]]
  /\ fault' = fault \cup (IF p \in freed THEN {"use_after_free"} ELSE {})
  /\ ret' = [ret EXCEPT ![a] = "thrd_success"]
  /\ pc' = [pc EXCEPT ![a] = IF plan[p] = "self" THEN "done" ELSE "lookup"]
  /\ UNCHANGED <<plan, id, exited, open, hval, registry, freed, handle, got, locked>>

\* _thrd_wrapper_function: free(ti) and call the client function, which
\* either returns or first calls thrd_detach(thrd_current()).
Run(a) ==
  LET p == a[1] IN
  /\ pc[a] = "run"
  /\ IF plan[p] = "self"
     THEN /\ target' = [target EXCEPT ![a] = thrd_current(p)]
          /\ pc' = [pc EXCEPT ![a] = "lookup"]
     ELSE /\ pc' = [pc EXCEPT ![a] = "exit"]
          /\ UNCHANGED target
  /\ UNCHANGED <<plan, id, exited, open, hval, registry, freed, handle, got, ret, fault, locked>>

\* The thread function returns, or calls thrd_exit: ExitThread.
Exit(a) ==
  /\ pc[a] = "exit"
  /\ exited' = [exited EXCEPT ![a[1]] = TRUE]
  /\ pc' = [pc EXCEPT ![a] = "done"]
  /\ UNCHANGED <<plan, id, open, hval, registry, freed, target, handle, got, ret, fault, locked>>

\* _lookup_thread_handle(thr) in thrd_join or thrd_detach; no node with that
\* id makes the call return thrd_error.
lookup_thread_handle(a) ==
  LET n == FirstWith(target[a]) IN
  /\ pc[a] = "lookup"
  /\ ~locked
  /\ IF n = 0
     THEN /\ Return(a, "thrd_error")
          /\ UNCHANGED handle
     ELSE /\ handle' = [handle EXCEPT ![a] = hval[registry[n]]]
          /\ pc' = [pc EXCEPT ![a] = IF Joins(a) THEN "wait" ELSE "close"]
          /\ UNCHANGED ret
  /\ UNCHANGED <<plan, id, exited, open, hval, registry, freed, target, got, fault, locked>>

\* Mutant: *res receives the thread's id instead of its exit code.
Wait_id(a) ==
  LET p == a[1]
      h == handle[a]
  IN /\ pc[a] = "wait"
     /\ IF Named(h) = {}
        THEN /\ Return(a, "thrd_error")
             /\ UNCHANGED got
        ELSE \E q \in Named(h):
               /\ exited[q]
               /\ got' = [got EXCEPT ![p] = id[q]]
               /\ pc' = [pc EXCEPT ![a] = "close"]
               /\ UNCHANGED ret
     /\ UNCHANGED <<plan, id, exited, open, hval, registry, freed, target, handle, fault, locked>>

\* thrd_join: WaitForSingleObject(handle, INFINITE), which fails on a
\* HANDLE value no open handle has, and otherwise blocks until the thread
\* that value names has ended; then GetExitCodeThread into *res.  A
\* thread's exit code is named after it.
Wait(a) ==
  LET p == a[1]
      h == handle[a]
  IN /\ pc[a] = "wait"
     /\ IF Named(h) = {}
        THEN /\ Return(a, "thrd_error")
             /\ UNCHANGED got
        ELSE \E q \in Named(h):
               /\ exited[q]
               /\ got' = [got EXCEPT ![p] = q]
               /\ pc' = [pc EXCEPT ![a] = "close"]
               /\ UNCHANGED ret
     /\ UNCHANGED <<plan, id, exited, open, hval, registry, freed, target, handle, fault, locked>>

\* CloseHandle(handle) in thrd_join or thrd_detach: it closes the open
\* handle with that value, and fails, making the call return thrd_error,
\* when there is none.
Close(a) ==
  LET h == handle[a] IN
  /\ pc[a] = "close"
  /\ IF Named(h) # {}
     THEN /\ open' = open \ Named(h)
          /\ pc' = [pc EXCEPT ![a] = "remove"]
          /\ UNCHANGED ret
     ELSE /\ Return(a, "thrd_error")
          /\ UNCHANGED open
  /\ UNCHANGED <<plan, id, exited, hval, registry, freed, target, handle, got, fault, locked>>

\* Mutant: the early return for a match at the head leaves the lock held.
remove_thread_data_unreleased(a) ==
  LET n == FirstWith(target[a]) IN
  /\ pc[a] = "remove"
  /\ ~locked
  /\ registry' = IF n = 0 THEN registry ELSE RemoveAt(registry, n)
  /\ freed' = IF n = 0 THEN freed ELSE freed \cup {registry[n]}
  /\ locked' = (n = 1)
  /\ Return(a, "thrd_success")
  /\ UNCHANGED <<plan, id, exited, open, hval, target, handle, got, fault>>

\* _remove_thread_data(thr): unlink and free the first node with that id;
\* the call then returns thrd_success.
remove_thread_data(a) ==
  LET n == FirstWith(target[a]) IN
  /\ pc[a] = "remove"
  /\ ~locked
  /\ registry' = IF n = 0 THEN registry ELSE RemoveAt(registry, n)
  /\ freed' = IF n = 0 THEN freed ELSE freed \cup {registry[n]}
  /\ Return(a, "thrd_success")
  /\ UNCHANGED <<plan, id, exited, open, hval, target, handle, got, fault, locked>>

\* The labels of a parent (create .. wait) and of a thread (run, exit) are
\* disjoint, so each action is taken only by the actor it belongs to.
Step(a) ==
  \/ thrd_create(a) \/ insert_thread_data(a) \/ Publish(a) \/ Run(a)
  \/ lookup_thread_handle(a) \/ Wait(a) \/ Close(a) \/ remove_thread_data(a)
  \/ Exit(a)

Next == \E a \in Actors: Step(a)

\* Windows schedules every thread that is not blocked: each actor's steps
\* are weakly fair.  A thrd_join blocked in WaitForSingleObject has no step
\* enabled until the thread it waits for has ended.
Fairness == \A a \in Actors: WF_vars(Step(a))

Spec == Init /\ [][Next]_vars /\ Fairness

-----------------------------------------------------------------------------
(* Properties.                                                             *)

TypeOK ==
  /\ pc \in [Actors -> {"create", "insert", "publish", "unborn", "run",
                        "lookup", "wait", "close", "remove", "exit", "done"}]
  /\ plan \in [Parents -> Plans \cup {"none"}]
  /\ id \in [Parents -> Ids \cup {NoId}]
  /\ exited \in [Parents -> BOOLEAN]
  /\ open \subseteq Parents
  /\ hval \in [Parents -> Handles \cup {NoThread}]
  /\ registry \in Seq(Parents)
  /\ freed \subseteq Parents
  /\ target \in [Actors -> Ids \cup {NoId}]
  /\ handle \in [Actors -> Handles \cup {NoThread}]
  /\ got \in [Parents -> Parents \cup {NoThread}]
  /\ ret \in [Actors -> {"none", "thrd_success", "thrd_error", "thrd_nomem"}]
  /\ fault \subseteq {"use_after_free"}
  /\ locked \in BOOLEAN

(* Every call returns and every thread ends: no thrd_join waits forever,  *)
(* whatever the order of the threads' registry operations.                *)
AllEnd == <>(\A a \in Actors: pc[a] \in {"unborn", "done"})

(* No thread reads a CThreadThrdData node after it has been freed.         *)
MemorySafe == fault = {}

=============================================================================
