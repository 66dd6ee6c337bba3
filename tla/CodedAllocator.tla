--------------------------- MODULE CodedAllocator ---------------------------
(***************************************************************************)
(* TieredAllocator as its callers see it: allocate() answers with the code *)
(* of the id (CodeAllocation::room_id), and who has only the code decodes  *)
(* it before the id is given back, as RedisRoomStore::free does before it  *)
(* runs a script that implements the same FreeIdPool.                      *)
(***************************************************************************)
EXTENDS TieredAllocator, RoomCode

CONSTANT
    RoundFunctions  \* the round functions to try, each a function of the length

ASSUME CodeAssumption ==
    /\ CodeLengths # {}
    /\ Base \in Nat \ {0} /\ Rounds \in Nat
    /\ HalfBits \in [CodeLengths -> Nat]
    /\ \A l \in CodeLengths :
         /\ Capacity[l] = TierCapacity(l)
         /\ Capacity[l] <= Half(l) * Half(l)
    /\ \A f \in RoundFunctions : \A l \in CodeLengths :
         f[l] \in [0 .. (Rounds - 1) -> [0 .. (Half(l) - 1) -> 0 .. (Half(l) - 1)]]

VARIABLES
    rounds,  \* the round function, which never changes
    held     \* the codes that were handed out and not given back

codedVars == <<vars, rounds, held>>

CodedInit ==
    /\ Init
    /\ rounds \in RoundFunctions
    /\ held = {}

AllocateCode(l) ==
    /\ Allocate(l)
    /\ held' = held \cup {EncodeLocalId(rounds[l], l, reply'.local_id)}
    /\ UNCHANGED rounds

(* decode_public_rank: lengths and characters that no code has are         *)
(* refused, anything else is a rank of its tier.                           *)
Readable(code) ==
    /\ Len(code) \in CodeLengths
    /\ \A i \in 1 .. Len(code) : code[i] < Base

(* RedisRoomStore::free: what cannot be read is no room id.                *)
FreeUnreadable(code) ==
    /\ ~Readable(code)
    /\ reply' = Pool!Rejected
    /\ UNCHANGED <<intervals, rounds, held>>

FreeCode(code) ==
    /\ Readable(code)
    /\ LET id == DecodeRoomId(rounds[Len(code)], code)
       IN  Free(Len(code), id) \/ FreeAgain(Len(code), id)
    /\ held' = held \ {code}
    /\ UNCHANGED rounds

Strings == {<<>>} \cup UNION {[1 .. l -> 0 .. Base] : l \in CodeLengths}

CodedNext ==
    \/ \E l \in CodeLengths : AllocateCode(l)
    \/ /\ AllocateNone \/ \E l \in CodeLengths : FreeInvalid(l, Capacity[l])
       /\ UNCHANGED <<rounds, held>>
    \/ \E code \in Strings : FreeUnreadable(code) \/ FreeCode(code)

CodedSpec == CodedInit /\ [][CodedNext]_codedVars

-----------------------------------------------------------------------------
(* The codes that people hold are the ids that are taken, one for one:     *)
(* encoding never gives two ids one code, and decoding undoes it, so that  *)
(* giving back a code frees its own id and no id is lost, whatever the     *)
(* round function is and however often the permutation leaves the tier.    *)
CodesNameTheirIds ==
    \A l \in CodeLengths :
        LET codes == {code \in held : Len(code) = l}
            Named(code) == DecodeRoomId(rounds[l], code)
        IN  /\ {Named(code) : code \in codes} = Ids(l) \ FreeIds(intervals[l])
            /\ \A c, d \in codes : Named(c) = Named(d) => c = d
=============================================================================
