------------------------------ MODULE RoomCode ------------------------------
(***************************************************************************)
(* The codes that people type: encode_local_id and decode_room_id of       *)
(* src/src/allocator.rs.  An id of a tier is permuted by a Feistel network *)
(* over the smallest square of a power of two that holds the tier, again   *)
(* and again until it is in the tier, and written in base 56.              *)
(*                                                                         *)
(* f[round][half] stands for round_function: splitmix64 of key, length,    *)
(* round and half, masked to a half.  Nothing relies on which function it  *)
(* is.  A character is its position in the alphabet; the position Base     *)
(* stands for any character that is not in it.                             *)
(*                                                                         *)
(* Loops are recursive functions: of the number of turns taken, or, where  *)
(* the code loops until it finds something, of the value it has.           *)
(***************************************************************************)
EXTENDS Naturals, Sequences

CONSTANTS
    Base,         \* length of BASE56_ALPHABET
    Rounds,       \* PERMUTATION_ROUNDS
    HalfBits      \* permutation_half_bits, by code length

Power(b) == LET power[n \in Nat] == IF n = 0 THEN 1 ELSE b * power[n - 1] IN power

TierCapacity(l) == Power(Base)[l]
Half(l) == Power(2)[HalfBits[l]]
Values(l) == 0 .. (Half(l) * Half(l) - 1)

(* The exclusive or of two numbers of n bits each, as a function of n. *)
XorBits ==
    LET xor[n \in Nat] ==
          [a \in Nat |-> [b \in Nat |->
              IF n = 0 THEN 0 ELSE 2 * xor[n - 1][a \div 2][b \div 2] + ((a + b) % 2)]]
    IN  xor

Xor(l, a, b) == XorBits[HalfBits[l]][a][b]

Split(l, value) == <<value \div Half(l), value % Half(l)>>
Join(l, pair) == pair[1] * Half(l) + pair[2]

(* A turn of the loop of feistel_encrypt, and of feistel_decrypt. *)
EncryptRound(f, l, round, pair) == <<pair[2], Xor(l, pair[1], f[round][pair[2]])>>
DecryptRound(f, l, round, pair) == <<Xor(l, pair[2], f[round][pair[1]]), pair[1]>>

(* The left and the right half after n turns; decryption takes the rounds  *)
(* the other way round.                                                    *)
Encrypted(f, l, value) ==
    LET after[n \in 0 .. Rounds] ==
          IF n = 0 THEN Split(l, value) ELSE EncryptRound(f, l, n - 1, after[n - 1])
    IN  after

DecryptedInOrder(f, l, value) ==
    LET after[n \in 0 .. Rounds] ==
          IF n = 0 THEN Split(l, value) ELSE DecryptRound(f, l, n - 1, after[n - 1])
    IN  after

Decrypted(f, l, value) ==
    LET after[n \in 0 .. Rounds] ==
          IF n = 0 THEN Split(l, value) ELSE DecryptRound(f, l, Rounds - n, after[n - 1])
    IN  after

FeistelEncrypt(f, l) == [value \in Values(l) |-> Join(l, Encrypted(f, l, value)[Rounds])]

FeistelDecrypt(f, l) == [value \in Values(l) |-> Join(l, Decrypted(f, l, value)[Rounds])]

(* The loop of permute_local_id and invert_permuted_local_id: on to the    *)
(* first value that is in the tier.                                        *)
Walk(feistel, capacity) ==
    LET walk[v \in DOMAIN feistel] ==
          IF feistel[v] < capacity THEN feistel[v] ELSE walk[feistel[v]]
    IN  walk

PermuteLocalId(f, l, id) == Walk(FeistelEncrypt(f, l), TierCapacity(l))[id]

InvertPermutedLocalId(f, l, rank) == Walk(FeistelDecrypt(f, l), TierCapacity(l))[rank]

(* What is left of the value after n digits, from the last one on. *)
Remaining(value) == LET rest[n \in Nat] == IF n = 0 THEN value ELSE rest[n - 1] \div Base IN rest

EncodeLocalId(f, l, id) ==
    [slot \in 1 .. l |-> Remaining(PermuteLocalId(f, l, id))[l - slot] % Base]

(* decode_public_rank after n characters of a code that can be read. *)
PublicRank(code) ==
    LET rank[n \in 0 .. Len(code)] == IF n = 0 THEN 0 ELSE rank[n - 1] * Base + code[n]
    IN  rank

(* decode_room_id of a code that can be read.                              *)
DecodeRoomId(f, code) == InvertPermutedLocalId(f, Len(code), PublicRank(code)[Len(code)])
=============================================================================
