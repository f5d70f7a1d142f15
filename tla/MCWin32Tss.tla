------------------------------ MODULE MCWin32Tss ------------------------------
(* Win32Tss instantiated for TLC: the threads, keys and values come from   *)
(* the cfg.                                                                *)
EXTENDS Win32Tss, TLC

\* Threads and TLS indices are interchangeable: no action tells two threads
\* or two indices apart.
MCSymmetry == Permutations(Threads) \cup Permutations(Keys)
=============================================================================
