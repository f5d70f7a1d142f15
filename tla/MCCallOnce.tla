------------------------------ MODULE MCCallOnce ------------------------------
(* CallOnce instantiated for TLC: the calling threads come from the cfg.   *)
EXTENDS CallOnce
=============================================================================
