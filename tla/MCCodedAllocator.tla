-------------------------- MODULE MCCodedAllocator --------------------------
(* Base 2 and lengths 1 and 3: tiers of 2 and 8 codes, permuted within 4   *)
(* and 16 values by round functions that are not one to one.               *)
EXTENDS CodedAllocator

MCCodeLengths == {1, 3}
MCCapacity == [l \in {1, 3} |-> 2 ^ l]
MCHalfBits == [l \in {1, 3} |-> IF l = 1 THEN 1 ELSE 2]

Mixing(a) ==
    [l \in {1, 3} |-> [r \in 0 .. 2 |-> [x \in 0 .. (2 ^ MCHalfBits[l] - 1) |->
        (x * x + a * x + r + 1) % 2 ^ MCHalfBits[l]]]]

MCRoundFunctions == {Mixing(1), Mixing(2)}
=============================================================================
