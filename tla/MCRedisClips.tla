---------------------------- MODULE MCRedisClips ----------------------------
(* Small instances of RedisClips.  TwoTiers: a tier of two codes and one   *)
(* of a single code behind it, so that a create has to change tiers and to *)
(* be refused.  OneTier: a tier of three codes, so that a freed code can   *)
(* have free neighbours on both sides.                                     *)
EXTENDS RedisClips

TwoTiers == {3, 4}
TwoTiersCapacity == [l \in TwoTiers |-> IF l = 3 THEN 2 ELSE 1]

OneTier == {3}
OneTierCapacity == [l \in OneTier |-> 3]
=============================================================================
