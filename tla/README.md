# TLA+ models of c-exception

This directory holds TLA+ models of the parts of c-exception whose
behaviour depends on the order of calls or of threads. It also holds the TLC
configurations that check them. `PROJECT.json` lists the components, the
runs, the mutants and the map from each definition to the source lines it
translates.

## The system

The repository has five files under `src/`:

| file | what it is |
|---|---|
| `src/unnamed/part_001` | the arena allocator: `arena_init`, `malloc_arena`, `calloc_arena`, `arena_clear`, `arena_free`, `arena_capacity`, `arena_total`, and a process-wide free list of retired chunks (`free_list`, `num_free`) |
| `src/src/cthread.c` | a C11 threads shim (tinycthread). It has a Win32 branch with its own mutex, condition variable, thread-specific storage, thread registry and `call_once`. It also has a POSIX branch of thin pthread wrappers |
| `src/tests/ex-03.c` | a TRY/CATCH test of the exception engine |
| `src/unnamed/part_000`, `src/docs/_config.yml` | CMake and site configuration |

The exception engine is described in `spec.md`. It consists of the
TRY/CATCH/FINALLY frames, `throw`, the protection list and the signal bridge.
Its code is not in this repository.

How the parts interact:

- The engine gives every frame an arena.
- Arenas share the process-wide free list. The spec (section 4.6) says a
  mutex must guard that list.
- The shim's mutex and condition variable are built from Win32 primitives:
  - a CRITICAL_SECTION or a kernel mutex, plus the `mAlreadyLocked` flag;
  - two events and a waiter count.

## Inventory

| component | state | operations | hard behaviours |
|---|---|---|---|
| Arena | arena structs, header copies at chunk starts, `free_list`, `num_free`, system-allocator blocks | init, malloc, calloc, clear, free | realloc moving or growing the base; repeated clear; free after clear; counter drift; unlocked shared list |
| Win32 mutex | lock object owner and recursion count, `mAlreadyLocked` | lock, timedlock, trylock, unlock | a non-recursive mutex built on recursive objects; trylock's give-back through the wrong object |
| Win32 condvar | `mWaitersCount`, ONE (auto-reset) and ALL (manual-reset) events | signal, broadcast, wait, timedwait | check-then-set races; timeouts leaving the count high; the last waiter's reset racing a broadcast |
| Win32 TSS | per-thread list of key nodes (head, tail), destructor table | create, set, get, delete, thread-exit cleanup | tail never advanced; delete without unlink; failure after linking |
| Thread registry | list of (id, handle) under an SRW lock | create, join, detach | the new thread running before its entry is inserted |
| call_once | status 0-3, critical section | call_once | several callers spinning; exactly one run of `func` |
| Exception engine (spec only) | frame stack, raised record, protection lists | try, throw, catch, finally, protect, unprotect | nested throws during finalizers; LIFO drain |

## Modules

### Arena (`Arena.tla`, `MCArena.tla`)

Memory is a flat space of integer addresses, with NULL = 0:

- `blocks` and `next` model the system allocator. `Malloc` bumps `next`.
  `Realloc` either grows the last block in place or moves it, copying its
  contents and freeing the old block.
- A freed address is never handed out again, so a stale pointer still
  finds its old contents.
- `mem` maps an address to the `struct arena_s` stored there. That is either
  an arena struct or the header copy `*ptr = *arena` that `malloc_arena`
  writes at the start of a chunk.

How the code maps onto the model:

- `malloc_arena` is one action: the `num_free` reset, the growth loop, the
  `prev->bytes` update and the bump of `avail`.
- The growth loop is the recursive operator `GrowLoop`. It gives the set of
  heaps the loop can end in, one for each realloc outcome.
- `arena_clear` is the recursive `ClearLoop`.
- `arena_free` clobbers the type tag, as its `memset` does. It frees
  `base` and the struct.
- The client passes `arena_free` only a handle it has not released. A
  second call on a released handle would read the type tag from freed
  memory (line 40). The model's allocator never reuses an address, so it
  could not show the harm: a new `arena_init` may get the freed struct, and
  the second call would then free a live arena.

`live` is a history variable. It holds the regions returned since the
arena's last reset. `calls` bounds behaviours at `MaxCalls`.

### Win32Mutex (`Win32Mutex.tla`, `MCWin32Mutex.tla`)

This module models the `_TTHREAD_WIN32_` branch of `mtx_init`, `mtx_lock`,
`mtx_timedlock`, `mtx_trylock` and `mtx_unlock`.

- `Init` is `mtx_init`: it picks a type from the constant `MutexTypes` and
  sets `mRecursive` and `mTimed` from its bits. One run covers several types.
- Both lock objects are recursive, so the model has one lock object with
  `owner` and `depth`.
- `already` is `mAlreadyLocked`.
- A lock call that has taken the lock object and is spinning on
  `mAlreadyLocked` sits at `lock_spin` or `timed_spin`. `SpinThenMark`
  finishes it.
- `held` is client state: the successful lock calls not yet undone.
- Threads follow C11's preconditions:
  - they relock only a recursive mutex;
  - they unlock only what they hold;
  - they may call `mtx_trylock` at any time.
- A timed wait on a mutex another thread owns may time out. This is a
  nondeterministic outcome, because the deadline is not modelled.

`C11Mutex.tla` is the abstract specification, taken from C11 7.26.4:
a holder and a lock count, locking as one atomic step, and the results a
call may return in each state (`thrd_busy` or `thrd_timedout` only while
the mutex is not available to the caller, `thrd_error` from
`mtx_timedlock` only on a mutex that is not timed). `Win32Mutex` maps onto
it with:

- `holder` and `count` from `held` plus the lock calls that have taken the
  lock object and still spin on `mAlreadyLocked` (`Taken`), summed with
  `FoldFunction`;
- `result` from `ret`, with a spinning call counted as `thrd_success`.

The mutex run checks `Abstract!Spec` as a property (`MutexRefined`). It
catches what the invariants do not: a `mtx_trylock` that answers
`thrd_busy` for a free mutex because `mAlreadyLocked` was left set.

### Win32Cond (`Win32Cond.tla`, `MCWin32Cond.tla`)

This module models `cnd_init`, `cnd_signal`, `cnd_broadcast` and
`_cnd_timedwait_win32`, which `cnd_wait` and `cnd_timedwait` call. There is
one action per access to shared state:

- the read of `mWaitersCount` (`NotifyRead`);
- `SetEvent` (`NotifySet`);
- the increment (`WaitInc`);
- `mtx_unlock` (`WaitUnlock`);
- `WaitForMultipleObjects` returning on an event (`WaitFor`) or on a timeout
  (`WaitTimeout`);
- the decrement and last-waiter test (`WaitDec`);
- `ResetEvent` (`WaitReset`);
- the final `mtx_lock` (`Lock` from `w_relock`).

How the pieces fit:

- The mutex is Win32Mutex itself, instantiated as a plain mutex:
  `M == INSTANCE Win32Mutex WITH MutexTypes <- {{}}, MaxHeld <- 1`.
  The lock and unlock steps are its actions.
- The client is the usual predicate loop:
  - a consumer locks, then runs `while (tokens == 0) wait;`, takes a token
    and unlocks;
  - a producer locks, adds a token, calls `cnd_signal` or `cnd_broadcast`
    (one of `Notifies`) and unlocks.
- Each wait is `cnd_wait` or `cnd_timedwait` (one of `Waits`).
- `MayTimeOut` gives the timeout each wait function passes:
  `cnd_wait` passes `INFINITE`, and `cnd_timedwait` passes the milliseconds
  to its deadline (`timespec_get` is taken to succeed).
- A timed wait may time out whenever no event is set. The number of timeouts
  is capped at `MaxTimeouts`.
- `WaitForMultipleObjects` returns the lowest signalled index, so ONE is
  taken before ALL. Returning on the auto-reset ONE event clears it.

### Win32Tss (`Win32Tss.tla`, `MCWin32Tss.tla`)

This module models `tss_create`, `tss_get`, `tss_set`, `tss_delete` and
`_cthread_tss_cleanup`.

State:

- `slot[t][k]` is `TlsGetValue(k)` in thread `t`.
- `head` and `tail` are the thread-local `_cthread_tss_head` and
  `_cthread_tss_tail`.
- The nodes live in a heap of `MaxNodes` addresses. `malloc` hands out the
  next address and fails when none is left.
- A freed address is never reused, so a stale pointer still sees the node's
  last contents.

How the code maps onto the model:

- Any access to a freed node or through NULL is recorded in `fault`, and
  the program stops there. The accesses are:
  - the reads of `_cthread_tss_cleanup`'s walk and of `tss_delete`'s
    predecessor loop;
  - the write `_cthread_tss_tail->next = data`;
  - `data->value`;
  - `free`.
- `tss_create` is `TlsAlloc`. It zeroes the slot of a reused index in every
  thread.
- `tss_set` covers the whole call:
  - the `malloc` failure;
  - the tail link, which never advances `tail`;
  - the `head` update;
  - the `TlsSetValue` failure, when `TlsSetCanFail` is TRUE, which frees
    the node it has just linked.
- `tss_delete`:
  - for the head node, moves `head`;
  - otherwise walks the list for the predecessor (`WalkTo`), but never
    unlinks the node;
  - then frees the node and calls `TlsFree`.
- `tss_cleanup` is `_cthread_tss_cleanup`: the walk that clears the
  values, then the loop that frees every node and resets `head` and `tail`.
- `ThreadExit` is `_cthread_tss_callback` on `DLL_THREAD_DETACH`, which
  covers the thread function's return and `thrd_exit`. It runs
  `tss_cleanup` when `head` is not NULL.

The destructor table is left out. Destructors are client code, and here
they change no TSS state.

### CallOnce (`CallOnce.tla`, `MCCallOnce.tla`)

This module models the Win32 `call_once`. There is one action per shared
access:

- the `while` read of `flag->status`;
- the `switch` read;
- `InterlockedCompareExchange`;
- the winner's `InitializeCriticalSection` + `EnterCriticalSection` +
  `status = 2`, one step because no other thread touches the lock while
  `status` is 1;
- `func()`;
- `status = 3` + `LeaveCriticalSection`;
- the waiters' `EnterCriticalSection` and `LeaveCriticalSection`.

`flag->lock` is a critical section with an owner and a recursion count.
`runs` and `running` count the calls of `func` that have returned and the
threads inside it.

The C11 contract of `call_once` is stated directly by the three properties
of its run (`FuncOnce`, `ReturnsAfterFunc`, `AllReturn`). A separate
abstract specification would only restate them.

### Win32Threads (`Win32Threads.tla`, `MCWin32Threads.tla`)

This module models the Win32 thread registry and the thread functions
around it: `thrd_create`, the new thread's `_thrd_wrapper_function`,
`thrd_current`, `thrd_join`, `thrd_detach` and the registry helpers
`_cthread_insert_thread_data`, `_cthread_lookup_thread_handle` and
`_cthread_remove_thread_data`.

State:

- Each actor is a pair `<<p, role>>` of a parent `p` and the role
  `"parent"` or `"child"`. The thread that `p` creates and its registry
  node are named by `p`.
- `hval[p]` is the value of that thread's HANDLE, from the small set
  `Handles`. `open` holds the threads whose HANDLE is not closed. The
  kernel reuses a value as soon as it is closed, so a stale HANDLE may name
  another thread (`InUse`, `Named`): `Wait` and `Close` act on whatever
  open handle has the value, and fail only when none has.
- `id[p]` is the thread id Windows gave it. Ids come from the small set
  `Ids` and are reused once the thread has exited and its handle is closed
  (`Alive`, `LiveIds`).
- `registry` is the list of nodes in insertion order. `FirstWith(tid)` is
  the first node with that id, as the lookup loop finds it.
- `freed` holds freed nodes. `fault` records a use of one.
- `locked` is the SRW lock. Each registry helper is one atomic step taken
  while it is free.
- `plan[p]` is what the parent does after creating: join, detach, or let
  the child detach itself (`"self"`: `thrd_detach(thrd_current())`).

How the code maps onto the model:

- `thrd_create` either fails (`thrd_nomem` or `thrd_error`, when
  `CreateCanFail`, or when no id or HANDLE value is free) or starts the
  thread, which may run before the parent inserts its node.
- `insert_thread_data` appends the node. `Publish` is the rest of
  `thrd_create`: it writes `*thr` from the node, and it is the step that
  touches a freed node when the child has already detached itself.
- `Run` is the child's body. With plan `"self"` it reads `thrd_current`
  and detaches itself.
- `lookup_thread_handle`, `Wait` (`WaitForSingleObject` and
  `GetExitCodeThread`), `Close` (`CloseHandle`) and `remove_thread_data`
  are the steps of `thrd_join` and `thrd_detach`.
- `Exit` is the thread's end.

## Runs

| run | cfg | expect | what it shows |
|---|---|---|---|
| arena_calls | MCArena.cfg | pass | Checks TypeOK over every sequence of 8 calls on two handles. TypeOK includes `num_free <= THRESHOLD`, the cap the clear loop keeps. 705k states. |
| arena_aliasing | MCArena_aliasing.cfg | violation | Checks AllocationsDisjoint. The second growth of an arena restarts allocation over an earlier region. |
| arena_free_list_dangling | MCArena_free_list_dangling.cfg | violation | Checks FreeListInLiveMemory. `arena_free` after `arena_clear` leaves a chunk of the freed base on the free list. |
| mutex_types | MCWin32Mutex_cs.cfg | pass | Covers plain, recursive, and recursive timed mutexes with 3 threads. Each mutex is exclusive, and a non-recursive one is never held twice. The recursion depth of the lock object matches the lock calls. The module refines `C11Mutex` (`MutexRefined`). 821 states. |
| cond_timed | MCWin32Cond_timed.cfg | pass | One consumer using either wait function, with up to 2 timeouts, and two producers using either notify function. Critical sections stay exclusive across waits, and every thread finishes. 1618 states. |
| cond_signal_lost_wakeup | MCWin32Cond_signal2.cfg | violation | Two waiters and two `cnd_signal` calls. Both signals set the auto-reset event before either waiter consumes it, so one waiter sleeps forever with a token available. |
| cond_broadcast_reset_race | MCWin32Cond_broadcast3.cfg | violation | Three waiters and three `cnd_broadcast` calls. The last waiter's `ResetEvent` erases a newer broadcast, so a waiter registered for it is never woken. |
| tss_calls | MCWin32Tss.cfg | pass | Two threads and two TLS indices, with `malloc` and `TlsSetValue` failures. In a running thread, no slot of a live key points at a freed node, and `tss_get` returns the last value stored. 560k states (symmetry). |
| tss_memory_safety | MCWin32Tss_memory.cfg | violation | Thread t1 sets two keys and deletes the second, then exits. The freed node stays linked, so the cleanup reads it and frees it again. |
| call_once_race | MCCallOnce.cfg | pass | Three threads race on one `once_flag`. `func` runs once, no caller returns before it has, and every caller returns. 238 states. |
| threads_registry | MCWin32Threads.cfg | pass | Two parents, two thread ids, two HANDLE values, every plan, with create failures. Every thread and parent ends, whatever the order of registry operations and however ids and HANDLE values are reused. 30,577 states. |
| threads_self_detach | MCWin32Threads_self_detach.cfg | violation | Checks MemorySafe. A child that detaches itself before its parent has returned from `thrd_create` frees the node the parent then reads. |

Every property of a passing run has a mutant in `PROJECT.json`: a plausible
bug in a mapped definition under which TLC finds the property violated.

### Bounds

**Arena.**

- 2 handles.
- Header size 2.
- Slack 2: `THRESHOLD * 1024`, scaled down.
- Sizes {1, 3}: one size fits in a header granule, the other needs rounding.
- calloc count 2.
- 40 addresses.
- The passing run uses THRESHOLD 2 and 8 calls. That is enough for two
  growths, clears with both branches of the clear loop, and the free list
  to fill and drain.
- The violation runs use THRESHOLD 1 and 6 calls. Their shortest
  counterexamples have 3 to 5 calls.

**Mutex.**

- 3 threads.
- Recursion up to 3 levels, so that nesting and three-way contention both
  happen.

**Condition variable.**

- The passing run has 1 consumer and 2 producers. With more consumers,
  `cnd_signal` loses wakeups (see the violation runs), so a larger passing
  configuration would only repeat those failures.
- Two producers make a second notify arrive while the consumer is at every
  stage of its wait.
- `MaxTimeouts` 2 lets the consumer time out both before and after a
  notify.
- The lost wakeup needs 2 waiters. The reset race needs 3: with 2 waiters
  and broadcast only, every behaviour finished in the 1026 states explored.

**TSS.**

- 2 threads and 2 indices, with 1 value besides NULL.
- `MaxNodes` 3 is the least that reaches every path. The lost node needs a
  head deletion and a fresh key; the predecessor loop running off the list
  needs the same.
- Threads and indices are symmetric.

**call_once.**

- 3 threads: a winner, one spinner on status 1, and one waiter on the lock,
  at once.

**Threads.**

- 2 parents, 2 ids and 2 HANDLE values. Ids and HANDLE values are reused
  once the earlier thread's handle is closed, and two registry operations
  contend. With 3 parents the run takes over 11 minutes (2.6 million
  states).
- All three plans and create failures, in one run.

### Fairness and deadlock

- Arena behaviours stop after `MaxCalls` calls, and the system allocator can
  run out. The arena cfgs therefore say CHECK_DEADLOCK FALSE.
- The mutex runs check deadlock. Under C11's preconditions some thread
  can always make a call.
- `Win32Mutex` assumes weak fairness of `SpinThenMark`. The spinning thread
  sleeps and re-reads the flag, so it proceeds once the flag is clear.
- In `Win32Cond`, each thread's steps are weakly fair, because Windows runs
  every thread that is not blocked. A thread blocked in
  `EnterCriticalSection` or `WaitForMultipleObjects` has no enabled step,
  so fairness never forces a wakeup that the events do not give.
- `CallOnce` assumes the same per-thread weak fairness. A thread blocked in
  `EnterCriticalSection` has no step. A thread spinning on status 1 has
  steps, but so does the winner, so the winner finishes.
- The TSS cfgs and the call_once cfg say CHECK_DEADLOCK FALSE. The program
  ends when every thread has exited or returned, or at a memory fault.
- `Win32Threads` assumes weak fairness per actor, for the same reason.
  Its cfgs say CHECK_DEADLOCK FALSE: the program ends when every actor is
  done, and AllEnd says it gets there. AllEnd is checked without symmetry.
- The cond cfgs say CHECK_DEADLOCK FALSE. The program ends when every thread
  is done, and AllFinish is what says it gets there.

## Findings

The six findings are in `PROJECT.json`, where each one's trace is described:

- **Arena aliasing on growth** (`part_001:72`).
- **Dangling free-list chunk** after `arena_free` (`part_001:42`).
- **Lost wakeup in `cnd_signal`** (`cthread.c:357`).
- **`ResetEvent` race in `_cnd_timedwait_win32`** (`cthread.c:435`).
- **`tss_delete` frees a node it leaves linked.** The cleanup at thread exit
  then reads and frees it again (`cthread.c:927`).
- **Self-detach before `thrd_create` returns.** The parent reads the
  registry node the child has freed (`cthread.c:727`).

Two bugs found in earlier versions of the project are kept as hazards
rather than runs, because the run budget is 12:

- **Double clear.** Two `arena_clear` calls rewind `avail` below the chunk
  start and push one chunk twice (`part_001:101`).
- **Win32 `mtx_trylock` on a timed mutex.** It gives the level back through
  `LeaveCriticalSection` on a kernel HANDLE, so the level leaks and
  `LockDepthMatches` fails. The passing mutex run leaves out the timed
  non-recursive type for that reason (`cthread.c:258`).

Two more TSS faults are reached by the same model, as described in the
hazards of `PROJECT.json`:

- With `TlsSetCanFail`, a failed `tss_set` leaves a freed node as head and
  tail (`cthread.c:994`).
- Because `tss_set` never advances the tail (`cthread.c:980`), a later
  `tss_delete` runs its predecessor loop off the end of the list.

**Join through a reused HANDLE** (`cthread.c:757`). With HANDLE values
reused, TLC finds a successful `thrd_join` that returns another thread's
exit code. It needs 3 parents:

1. One thread's `thrd_detach` closes its HANDLE but has not yet removed
   its node.
2. A new thread gets the closed HANDLE value.
3. Another new thread gets the detached thread's id.
4. Its parent's `thrd_join` finds the stale node first. It waits on the
   wrong thread, returns that thread's exit code, and closes that thread's
   HANDLE.

It is listed as a hazard with a note. A run for it would need a slot the
12 runs do not have.

TLC also found two counter drifts while the modules were being built. They
are listed as hazards, with notes, rather than runs:

- **`num_free` drift.** `num_free` stops matching the free list after
  `malloc_arena` on a cleared arena (`part_001:52`).
- **Waiter count drift.** A timed-out wait leaves `mWaitersCount` one too
  high (`cthread.c:412`).

`FreeListBounded` (spec Q5, free list at most THRESHOLD chunks) held in
every state explored. This was checked with THRESHOLD 1 up to 9 calls and
THRESHOLD 2 up to 8 calls. It holds only because the clear loop cuts the list
it walks into. No mutant short of a non-terminating loop breaks it, so it is
not kept as a run.

## Plan

1. **Arena** (done). Next: a variant whose free-list pop and push are split
   into steps of several threads. It would show the unlocked list losing
   chunks.
2. **Win32Mutex** (done, with its refinement of `C11Mutex`).
3. **Win32Cond** (done). Next: an abstract condition-variable spec as a
   refinement target.
4. **Win32Tss** (done, without the destructor table). Next: destructor
   identity, to show the wrong destructor after index reuse. Also an
   invariant that an exited thread holds no node, to show the leak.
5. **CallOnce** (done).
6. **Win32Threads** (done for create, join, detach and self-detach).
   Next: `thrd_exit`, `thrd_sleep`, `thrd_equal` and `thrd_yield`.
7. **ExceptionFrames** (spec-modelled): the frame state machine, LIFO drain
   and nested throws of spec section 4.

All 12 runs are used. New questions must replace a run or share one, for
example by adding a property to a passing run that already exercises the
same actions.

## Not modelled

- **The POSIX branch.** Each function is one pthread call.
- **Time conversions.** Deadlines are abstracted to a nondeterministic
  timeout.
- **`arena_print`.** It is output only.
- **`mtx_destroy` and `cnd_destroy`.**
- **Error returns of Win32 calls.** This covers `WAIT_ABANDONED` and
  `WAIT_FAILED` on mutex and condition waits, and failures of `SetEvent`
  and `ResetEvent`.
- **Build and documentation files.**
- **`thrd_sleep`'s `remaining`.** The Win32 branch stores the time
  already slept in `remaining`, not the time left (`cthread.c:869`). It is
  time arithmetic, and a run for it would need a free slot.
- **`thrd_equal`, `thrd_yield`, `timespec_get`.** They change no state the
  properties tell apart.
- **The remaining hazards without a property.** Each one is a defect of
  the code that a passing run cannot hold and that would need a
  violation run of its own:
  - the `num_free` drift;
  - the moving realloc base;
  - the waiter count left high by a timed-out wait;
  - the DWORD timeout wrap;
  - the destructor of a reused TLS index.

  The project keeps 12 runs, and the runs it has show other defects of
  the same components.
