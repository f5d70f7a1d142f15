--------------------------- MODULE MCWin32Threads ---------------------------
(* Win32Threads for TLC: two parents, and as many thread ids as threads,  *)
(* so an id is reused only once its thread object is gone.                *)
EXTENDS Win32Threads

MCPlansAll == {"join", "detach", "self"}
=============================================================================
