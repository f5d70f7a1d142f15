------------------------------ MODULE MCArena ------------------------------
(***************************************************************************)
(* Instantiates Arena for TLC: two arena handles sharing the free list,    *)
(* requests of 1 and 3 bytes over a 2-byte granule (so rounding matters    *)
(* and a 3-byte request outgrows the 2-byte slack of a fresh chunk), and   *)
(* calloc of 2 elements.                                                   *)
(***************************************************************************)
EXTENDS Arena

MCSizes == {1, 3}
=============================================================================
