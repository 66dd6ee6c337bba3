------------------------------ MODULE MCRoomSync ------------------------------
(* Two browsers and up to two handlers; the channel overflows from two     *)
(* events on.                                                              *)
EXTENDS RoomSync, TLC

CONSTANTS c1, c2, s1, s2

SameSlots == Permutations({s1, s2})
=============================================================================
