---------------------------- MODULE MCMemoryRooms ----------------------------
(* Three operations at a time on two codes; a room outlives one instant. *)
EXTENDS MemoryRooms, TLC

CONSTANTS t1, t2, t3

SameTasks == Permutations({t1, t2, t3})
=============================================================================
