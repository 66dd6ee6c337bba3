----------------------------- MODULE MCRoomLives -----------------------------
(* One page that saves and one that reads, two rooms with one code.        *)
EXTENDS RoomLives, TLC

CONSTANTS p1, p2, a, b

SamePasswords == Permutations({a, b})
=============================================================================
