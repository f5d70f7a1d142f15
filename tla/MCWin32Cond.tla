----------------------------- MODULE MCWin32Cond -----------------------------
(* Win32Cond instantiated for TLC: the threads and the notify and wait     *)
(* calls come from the cfg.                                                *)
EXTENDS Win32Cond
=============================================================================
