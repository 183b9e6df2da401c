----------------------------- MODULE SampleMemory -----------------------------
(* The memory that the chips play samples from.  A place is an address     *)
(* with the bits below a byte that a word leaves, so counters wrap at the   *)
(* top of memory (ct_fix of mw_t and paula_t).                             *)
EXTENDS Integers

CONSTANT TOP         \* 2^32: the places of the memory

Place == 0..(TOP - 1)
=============================================================================
