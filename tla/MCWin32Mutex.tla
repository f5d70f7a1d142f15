---------------------------- MODULE MCWin32Mutex ----------------------------
(* Win32Mutex instantiated for TLC: the sets of mutex types mtx_init is    *)
(* checked with.                                                           *)
EXTENDS Win32Mutex

\* mtx_plain, mtx_recursive and mtx_timed | mtx_recursive: the types whose
\* lock and trylock paths agree.  mtx_timed alone is left out: there an
\* owner's mtx_trylock leaks a level of the kernel mutex (cthread.c:258).
MCTypesSound == {{}, {"mtx_recursive"}, {"mtx_timed", "mtx_recursive"}}
=============================================================================
