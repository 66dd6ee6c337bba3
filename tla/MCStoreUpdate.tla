----------------------------- MODULE MCStoreUpdate -----------------------------
(* Three updates of one code, time for a clipboard to expire and for the   *)
(* code to be given out again.                                             *)
EXTENDS StoreUpdate, TLC

CONSTANTS r1, r2, r3

Symmetry == Permutations({r1, r2, r3})
=============================================================================
