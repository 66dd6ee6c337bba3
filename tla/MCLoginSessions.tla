--------------------------- MODULE MCLoginSessions ---------------------------
(* Two servers, two logins, three requests to finish them, and time for the  *)
(* state of a login to expire.                                             *)
EXTENDS LoginSessions, TLC

CONSTANTS l1, l2, r1, r2, r3, s1, s2

Symmetry == Permutations({l1, l2}) \cup Permutations({r1, r2, r3}) \cup Permutations({s1, s2})
=============================================================================
