----------------------- MODULE CodedAllocator_proofs --------------------------
(***************************************************************************)
(* TieredAllocator keeps canonical intervals and implements FreeIdPool,    *)
(* for all code lengths and capacities, and in CodedAllocator the codes    *)
(* that people hold name the ids that are taken, for all bases and round   *)
(* functions.                                                              *)
(*                                                                         *)
(* Canonical is inductive together with the type of the state: the lemmas  *)
(* of NumberLemmas say what one allocate() or free() does to one tier, and *)
(* the other tiers stay.                                                   *)
(*                                                                         *)
(* That codes name ids rests on the operators of RoomCode. Each recursive  *)
(* function is first shown to satisfy its equation; then a turn of the     *)
(* Feistel network is undone, so the network is a permutation; a walk by a *)
(* permutation from a value in the tier comes back into it; and writing in *)
(* a base and reading are the inverse of each other.                       *)
(***************************************************************************)
EXTENDS CodedAllocator, NumberLemmas, SequenceTheorems

IInv == TypeOK /\ Canonical

LEMMA CapacityNat ==
    ASSUME NEW l \in CodeLengths
    PROVE  Capacity[l] \in Nat /\ Capacity[l] > 0 /\ l \in Nat
  BY AllocatorAssumption

(* The type of a tier follows from its being canonical. *)
LEMMA TierType ==
    ASSUME NEW l \in CodeLengths, NEW tier,
           tier = [s \in DOMAIN tier |-> tier[s]],
           CanonicalTier(tier, Capacity[l])
    PROVE  DOMAIN tier \subseteq Ids(l) /\ tier \in [DOMAIN tier -> Ids(l)]
<1>1. \A s \in DOMAIN tier : s \in Ids(l) /\ tier[s] \in Ids(l)
  BY CapacityNat DEF CanonicalTier, Ids
<1>. QED  BY <1>1

LEMMA SeedTierIds ==
    ASSUME NEW l \in CodeLengths
    PROVE  /\ CanonicalTier(SeedTier(l), Capacity[l])
           /\ FreeIds(SeedTier(l)) = Ids(l)
           /\ SeedTier(l) = [s \in DOMAIN SeedTier(l) |-> SeedTier(l)[s]]
<1> DEFINE tier == SeedTier(l)
<1>1. DOMAIN tier = {0} /\ tier[0] = Capacity[l] - 1
  BY DEF SeedTier, Insert
<1>2. tier = [s \in DOMAIN tier |-> tier[s]]
  BY DEF SeedTier, Insert
<1> HIDE DEF tier
<1>3. CanonicalTier(tier, Capacity[l])
  BY <1>1, CapacityNat DEF CanonicalTier
<1>4. FreeIds(tier) = 0 .. (Capacity[l] - 1)
  BY <1>1 DEF FreeIds
<1>. QED  BY <1>2, <1>3, <1>4 DEF tier, Ids

(* What allocate() does to its tier. *)
LEMMA AllocateTier ==
    ASSUME IInv, NEW l \in CodeLengths, NEW start \in First(intervals[l])
    PROVE  /\ CanonicalTier(TakeFirst(intervals[l], start), Capacity[l])
           /\ FreeIds(TakeFirst(intervals[l], start)) = FreeIds(intervals[l]) \ {start}
           /\ start \in FreeIds(intervals[l])
           /\ \A id \in FreeIds(intervals[l]) : start <= id
<1>1. CanonicalTier(intervals[l], Capacity[l]) /\ Capacity[l] \in Nat
  BY CapacityNat DEF IInv, Canonical
<1>2. start \in DOMAIN intervals[l]
  BY DEF First
<1>. QED  BY <1>1, <1>2, TakeFirstIds, FirstIsLowest

(* What free() finds and does in its tier. *)
LEMMA FreeTier ==
    ASSUME IInv, NEW l \in CodeLengths, NEW id \in Nat, id < Capacity[l]
    PROVE  /\ Contains(intervals[l], id) <=> id \in FreeIds(intervals[l])
           /\ id \notin FreeIds(intervals[l]) =>
                /\ CanonicalTier(MergeFree(intervals[l], id), Capacity[l])
                /\ FreeIds(MergeFree(intervals[l], id)) = FreeIds(intervals[l]) \cup {id}
<1>1. CanonicalTier(intervals[l], Capacity[l]) /\ Capacity[l] \in Nat
  BY CapacityNat DEF IInv, Canonical
<1>2. Contains(intervals[l], id) <=> id \in FreeIds(intervals[l])
  BY <1>1, ContainsIsFree
<1>. QED  BY <1>1, <1>2, MergeFreeIds

LEMMA MergeFreeIsFunction ==
    ASSUME NEW tier, NEW id
    PROVE  MergeFree(tier, id) = [s \in DOMAIN MergeFree(tier, id) |-> MergeFree(tier, id)[s]]
  BY DEF MergeFree, Insert

LEMMA TakeFirstIsFunction ==
    ASSUME NEW tier, NEW start
    PROVE  TakeFirst(tier, start)
             = [s \in DOMAIN TakeFirst(tier, start) |-> TakeFirst(tier, start)[s]]
<1>1. CASE start < tier[start]
  BY <1>1 DEF TakeFirst, Insert
<1>2. CASE ~(start < tier[start])
  BY <1>2 DEF TakeFirst, Remove
<1>. QED  BY <1>1, <1>2

(* The answers that the actions give. *)
LEMMA RepliesType ==
    ASSUME NEW l \in CodeLengths, NEW id \in Ids(l)
    PROVE  /\ Pool!Allocated(l, id) \in Replies
           /\ Pool!Freed(l, id) \in Replies
           /\ Pool!AlreadyFree(l, id) \in Replies
           /\ Pool!Refused \in Replies
           /\ Pool!Rejected \in Replies
           /\ Pool!NoReply \in Replies
<1>1. RepliesAbout(l, id) \subseteq Replies
  BY DEF Replies
<1>. QED  BY <1>1 DEF Replies, RepliesAbout

LEMMA InvInit == Init => IInv
<1> SUFFICES ASSUME Init
             PROVE  IInv
  OBVIOUS
<1>1. /\ intervals = [l \in CodeLengths |-> intervals[l]]
      /\ \A l \in CodeLengths : intervals[l] = SeedTier(l)
  BY DEF Init
<1>2. Canonical
  BY <1>1, SeedTierIds DEF Canonical
<1>3. ASSUME NEW l \in CodeLengths
      PROVE  /\ DOMAIN intervals[l] \subseteq Ids(l)
             /\ intervals[l] \in [DOMAIN intervals[l] -> Ids(l)]
  BY <1>1, SeedTierIds, TierType
<1>4. reply \in Replies
  BY DEF Init, Replies
<1>. QED  BY <1>1, <1>2, <1>3, <1>4 DEF IInv, TypeOK

LEMMA InvNext == IInv /\ [Next]_vars => IInv'
<1> SUFFICES ASSUME IInv, [Next]_vars
             PROVE  IInv'
  OBVIOUS
<1>0. /\ intervals = [l \in CodeLengths |-> intervals[l]]
      /\ \A l \in CodeLengths : /\ DOMAIN intervals[l] \subseteq Ids(l)
                                /\ intervals[l] \in [DOMAIN intervals[l] -> Ids(l)]
                                /\ CanonicalTier(intervals[l], Capacity[l])
      /\ reply \in Replies
  BY DEF IInv, TypeOK, Canonical
(* A step that gives tier l a canonical map and leaves the others alone. *)
<1>1. ASSUME NEW l \in CodeLengths, NEW tier,
             tier = [s \in DOMAIN tier |-> tier[s]],
             CanonicalTier(tier, Capacity[l]),
             intervals' = [intervals EXCEPT ![l] = tier],
             reply' \in Replies
      PROVE  IInv'
  <2>1. /\ intervals' = [k \in CodeLengths |-> intervals'[k]]
        /\ intervals'[l] = tier
        /\ \A k \in CodeLengths : k # l => intervals'[k] = intervals[k]
    BY <1>0, <1>1
  <2>2. DOMAIN tier \subseteq Ids(l) /\ tier \in [DOMAIN tier -> Ids(l)]
    BY <1>1, TierType
  <2>3. Canonical'
    BY <1>0, <1>1, <2>1 DEF Canonical
  <2>4. \A k \in CodeLengths : /\ DOMAIN intervals'[k] \subseteq Ids(k)
                               /\ intervals'[k] \in [DOMAIN intervals'[k] -> Ids(k)]
    BY <1>0, <2>1, <2>2
  <2>5. (intervals = [k \in CodeLengths |-> intervals[k]])'
    BY <2>1
  <2>. QED  BY <1>1, <2>3, <2>4, <2>5 DEF IInv, TypeOK, Ids, Replies, RepliesAbout
<1>2. ASSUME NEW l \in CodeLengths, Allocate(l)
      PROVE  IInv'
  <2>1. PICK start \in First(intervals[l]) :
          /\ intervals' = [intervals EXCEPT ![l] = TakeFirst(@, start)]
          /\ reply' = Pool!Allocated(l, start)
    BY <1>2 DEF Allocate
  <2>2. start \in Ids(l)
    BY <1>0 DEF First
  <2>3. intervals' = [intervals EXCEPT ![l] = TakeFirst(intervals[l], start)]
    BY <2>1
  <2>4. reply' \in Replies
    BY <2>1, <2>2, RepliesType
  <2> DEFINE tier == TakeFirst(intervals[l], start)
  <2>5. CanonicalTier(tier, Capacity[l])
    BY AllocateTier
  <2>6. tier = [s \in DOMAIN tier |-> tier[s]]
    BY TakeFirstIsFunction
  <2> HIDE DEF tier
  <2>. QED  BY <1>1, <2>3, <2>4, <2>5, <2>6 DEF tier
<1>3. ASSUME NEW l \in CodeLengths, NEW id \in 0 .. Capacity[l], Free(l, id)
      PROVE  IInv'
  <2>1. id \in Nat /\ id < Capacity[l] /\ id \in Ids(l)
    BY <1>3, CapacityNat DEF Free, Ids
  <2>2. id \notin FreeIds(intervals[l])
    BY <1>3, <2>1, FreeTier DEF Free
  <2>3. intervals' = [intervals EXCEPT ![l] = MergeFree(intervals[l], id)]
    BY <1>3 DEF Free
  <2>4. reply' \in Replies
    BY <1>3, <2>1, RepliesType DEF Free
  <2> DEFINE tier == MergeFree(intervals[l], id)
  <2>5. CanonicalTier(tier, Capacity[l])
    BY <2>1, <2>2, FreeTier
  <2>6. tier = [s \in DOMAIN tier |-> tier[s]]
    BY MergeFreeIsFunction
  <2> HIDE DEF tier
  <2>. QED  BY <1>1, <2>3, <2>4, <2>5, <2>6 DEF tier
<1>4. ASSUME NEW l \in CodeLengths, NEW id \in 0 .. Capacity[l], FreeInvalid(l, id)
      PROVE  IInv'
  BY <1>0, <1>4 DEF FreeInvalid, IInv, TypeOK, Canonical, Replies, Ids, RepliesAbout
<1>5. ASSUME NEW l \in CodeLengths, NEW id \in 0 .. Capacity[l], FreeAgain(l, id)
      PROVE  IInv'
  <2>1. id \in Ids(l)
    BY <1>5, CapacityNat DEF FreeAgain, Ids
  <2>2. reply' \in Replies /\ UNCHANGED intervals
    BY <1>5, <2>1, RepliesType DEF FreeAgain
  <2>. QED  BY <1>0, <2>2 DEF IInv, TypeOK, Canonical, Replies, Ids, RepliesAbout
<1>6. CASE AllocateNone
  BY <1>0, <1>6 DEF AllocateNone, IInv, TypeOK, Canonical, Replies, Ids, RepliesAbout
<1>7. CASE UNCHANGED vars
  BY <1>0, <1>7 DEF vars, IInv, TypeOK, Canonical, Replies, Ids, RepliesAbout
<1>. QED
  BY <1>2, <1>3, <1>4, <1>5, <1>6, <1>7 DEF Next

(* The state and the answers keep their types. *)
THEOREM TypeAlways == Spec => []TypeOK
<1>1. IInv => TypeOK
  BY DEF IInv
<1>. QED  BY <1>1, InvInit, InvNext, PTL DEF Spec

(* The intervals of every tier stay in range, disjoint and maximal,        *)
(* whatever allocate() and free() are called with and in whatever order.   *)
THEOREM CanonicalAlways == Spec => []Canonical
<1>1. IInv => Canonical
  BY DEF IInv
<1>. QED  BY <1>1, InvInit, InvNext, PTL DEF Spec

-----------------------------------------------------------------------------
(* Every step is a step of the pool or leaves the pool alone. *)
LEMMA StepSimulation == IInv /\ [Next]_vars => [Pool!PoolNext]_(Pool!poolVars)
<1> SUFFICES ASSUME IInv, [Next]_vars
             PROVE  [Pool!PoolNext]_(Pool!poolVars)
  OBVIOUS
<1> DEFINE free == [l \in CodeLengths |-> FreeIds(intervals[l])]
<1>0. /\ intervals = [l \in CodeLengths |-> intervals[l]]
      /\ \A l \in CodeLengths : /\ DOMAIN intervals[l] \subseteq Ids(l)
                                /\ CanonicalTier(intervals[l], Capacity[l])
  BY DEF IInv, TypeOK, Canonical
<1>1. ASSUME NEW l \in CodeLengths, Allocate(l)
      PROVE  Pool!PoolNext
  <2>1. PICK start \in First(intervals[l]) :
          /\ intervals' = [intervals EXCEPT ![l] = TakeFirst(@, start)]
          /\ reply' = Pool!Allocated(l, start)
    BY <1>1 DEF Allocate
  <2>2. start \in Pool!PoolIds(l)
    BY <1>0 DEF First, Ids, Pool!PoolIds
  <2>3. \A k \in CodeLengths : k < l => free[k] = {}
    BY <1>0, <1>1, FirstIsLowest, CapacityNat DEF Allocate
  <2>4. free' = [free EXCEPT ![l] = @ \ {start}]
    BY <1>0, <2>1, AllocateTier
  <2>5. start \in free[l] /\ \A id \in free[l] : start <= id
    BY AllocateTier
  <2>6. Pool!PoolAllocate(l, start)
    BY <2>1, <2>3, <2>4, <2>5 DEF Pool!PoolAllocate
  <2>. QED  BY <2>2, <2>6 DEF Pool!PoolNext
<1>2. ASSUME NEW l \in CodeLengths, NEW id \in 0 .. Capacity[l], Free(l, id)
      PROVE  Pool!PoolNext
  <2>1. id \in Nat /\ id < Capacity[l] /\ id \in Pool!PoolIds(l)
    BY <1>2, CapacityNat DEF Free, Pool!PoolIds
  <2>2. id \notin FreeIds(intervals[l])
    BY <1>2, <2>1, FreeTier DEF Free
  <2>3. intervals' = [intervals EXCEPT ![l] = MergeFree(intervals[l], id)]
    BY <1>2 DEF Free
  <2>4. free' = [free EXCEPT ![l] = @ \cup {id}]
    BY <1>0, <2>1, <2>2, <2>3, FreeTier
  <2>5. Pool!PoolFree(l, id)
    BY <1>2, <2>2, <2>4 DEF Free, Pool!PoolFree
  <2>. QED  BY <2>1, <2>5 DEF Pool!PoolNext
<1>3. ASSUME NEW l \in CodeLengths, NEW id \in 0 .. Capacity[l], FreeAgain(l, id)
      PROVE  Pool!PoolNext
  <2>1. id \in Nat /\ id < Capacity[l] /\ id \in Pool!PoolIds(l)
    BY <1>3, CapacityNat DEF FreeAgain, Pool!PoolIds
  <2>2. id \in FreeIds(intervals[l])
    BY <1>3, <2>1, FreeTier DEF FreeAgain
  <2>3. free' = [free EXCEPT ![l] = @ \cup {id}]
    BY <1>3, <2>2 DEF FreeAgain
  <2>4. Pool!PoolFree(l, id)
    BY <1>3, <2>2, <2>3 DEF FreeAgain, Pool!PoolFree
  <2>. QED  BY <2>1, <2>4 DEF Pool!PoolNext
<1>4. ASSUME NEW l \in CodeLengths, NEW id \in 0 .. Capacity[l], FreeInvalid(l, id)
      PROVE  Pool!PoolNext
  BY <1>4 DEF FreeInvalid, Pool!PoolNext, Pool!PoolReject
<1>5. CASE AllocateNone
  <2>1. \A l \in CodeLengths : free[l] = {}
    BY <1>0, <1>5, FirstIsLowest, CapacityNat DEF AllocateNone
  <2>. QED  BY <1>5, <2>1 DEF AllocateNone, Pool!PoolNext, Pool!PoolRefuse
<1>6. CASE UNCHANGED vars
  BY <1>6 DEF vars, Pool!poolVars
<1>. QED
  BY <1>1, <1>2, <1>3, <1>4, <1>5, <1>6 DEF Next

LEMMA InitSimulation == Init => Pool!PoolInit
  BY SeedTierIds DEF Init, Pool!PoolInit, Pool!PoolIds, Ids

(* The allocator implements the pool: what callers are told and which ids  *)
(* are free is what the pool promises.                                     *)
THEOREM Implements == Spec => ImplementsPool
<1>. QED
  BY InvInit, InvNext, InitSimulation, StepSimulation, PTL DEF Spec, ImplementsPool, Pool!PoolSpec

-----------------------------------------------------------------------------
(* Power satisfies its equation. *)
LEMMA PowerIs ==
    ASSUME NEW b \in Nat
    PROVE  /\ Power(b) \in [Nat -> Nat]
           /\ Power(b)[0] = 1
           /\ \A n \in Nat : Power(b)[n + 1] = b * Power(b)[n]
<1> DEFINE g == [n \in Nat |-> [p \in Nat |-> b * p]]
<1>1. g \in [Nat -> [Nat -> Nat]]
  OBVIOUS
<1>2. PICK h : h \in Loops(Nat, Nat, 1, g)
  <2>. QED  BY <1>1, Recursion DEF Turns
<1>3. h = [n \in Nat |-> IF n = 0 THEN 1 ELSE b * h[n - 1]]
  <2>1. h \in [Nat -> Nat] /\ \A n \in Nat : h[n] = IF n = 0 THEN 1 ELSE g[n][h[n - 1]]
    BY <1>2 DEF Loops
  <2>2. \A n \in Nat \ {0} : g[n][h[n - 1]] = b * h[n - 1]
    BY <2>1
  <2> HIDE DEF g
  <2>. QED  BY <2>1, <2>2
<1>4. Power(b) = [n \in Nat |-> IF n = 0 THEN 1 ELSE b * Power(b)[n - 1]]
  BY <1>3 DEF Power
<1> DEFINE P == Power(b)
<1>5. \A n \in Nat : P[n] = IF n = 0 THEN 1 ELSE b * P[n - 1]
  BY <1>4
<1> HIDE DEF P
<1>6. P[0] = 1 /\ \A n \in Nat : P[n + 1] = b * P[n]
  BY <1>5
<1> DEFINE S == {n \in Nat : P[n] \in Nat}
<1>7. 0 \in S /\ \A n \in Nat : n \in S => n + 1 \in S
  BY <1>6
<1> HIDE DEF S
<1>8. \A n \in Nat : n \in S
  BY <1>7, Induction
<1>. QED  BY <1>4, <1>6, <1>8 DEF S, P

(* Powers of a positive base are positive. *)
LEMMA PowerPositive ==
    ASSUME NEW b \in Nat, b > 0
    PROVE  \A n \in Nat : Power(b)[n] \in Nat /\ Power(b)[n] > 0
<1> DEFINE S == {n \in Nat : Power(b)[n] > 0}
<1>0. Power(b)[0] = 1
  BY PowerIs
<1>1. 0 \in S
  BY <1>0
<1>2. ASSUME NEW n \in Nat, n \in S  PROVE n + 1 \in S
  <2>1. Power(b)[n] \in Nat /\ Power(b)[n] > 0 /\ Power(b)[n + 1] = b * Power(b)[n]
    BY <1>2, PowerIs
  <2>. QED  BY <2>1
<1> HIDE DEF S
<1>3. \A n \in Nat : n \in S
  BY <1>1, <1>2, Induction
<1>. QED  BY <1>3, PowerIs DEF S

(* XorBits satisfies its equation. *)
LEMMA XorBitsIs ==
    /\ \A a, b \in Nat : XorBits[0][a][b] = 0
    /\ \A n, a, b \in Nat :
         XorBits[n + 1][a][b] = 2 * XorBits[n][a \div 2][b \div 2] + ((a + b) % 2)
<1> DEFINE D == [Nat -> [Nat -> Nat]]
           x == [a \in Nat |-> [b \in Nat |-> 0]]
           turn == [y \in D |-> [a \in Nat |-> [b \in Nat |-> 2 * y[a \div 2][b \div 2] + ((a + b) % 2)]]]
           g == [n \in Nat |-> turn]
<1>0. \A a \in Nat : a \div 2 \in Nat
  BY DivMod
<1>1. x \in D /\ g \in [Nat -> [D -> D]]
  <2>1. ASSUME NEW y \in D, NEW a \in Nat, NEW b \in Nat
        PROVE  2 * y[a \div 2][b \div 2] + ((a + b) % 2) \in Nat
    <3>1. y[a \div 2] \in [Nat -> Nat] /\ b \div 2 \in Nat
      BY <1>0
    <3>2. y[a \div 2][b \div 2] \in Nat
      BY <3>1
    <3>3. (a + b) % 2 \in Nat
      OBVIOUS
    <3> HIDE DEF D
    <3>. QED  BY <3>2, <3>3
  <2>. QED  BY <2>1
<1>run. PICK h : h \in Loops(Nat, D, x, g)
  <2>1. x \in D /\ g \in Turns(Nat, D)
    BY <1>1 DEF Turns
  <2> HIDE DEF g, x, D
  <2>. QED  BY <2>1, Recursion
<1>2. h \in [Nat -> D] /\ \A n \in Nat : h[n] = IF n = 0 THEN x ELSE g[n][h[n - 1]]
  <2> HIDE DEF g, x, D
  <2>. QED  BY <1>run DEF Loops
<1>3. h = [n \in Nat |-> [a \in Nat |-> [b \in Nat |->
              IF n = 0 THEN 0 ELSE 2 * h[n - 1][a \div 2][b \div 2] + ((a + b) % 2)]]]
  <2>1. ASSUME NEW n \in Nat
        PROVE  h[n] = [a \in Nat |-> [b \in Nat |->
                 IF n = 0 THEN 0 ELSE 2 * h[n - 1][a \div 2][b \div 2] + ((a + b) % 2)]]
    <3>1. CASE n = 0
      <4>1. h[n] = x
        BY <1>2, <3>1
      <4>. QED  BY <3>1, <4>1
    <3>2. CASE n # 0
      <4>1. n - 1 \in Nat
        BY <3>2
      <4>2. h[n - 1] \in D
        BY <1>2, <4>1
      <4>3. h[n] = turn[h[n - 1]]
        BY <1>2, <3>2
      <4>. QED  BY <3>2, <4>2, <4>3
    <3>. QED  BY <3>1, <3>2
  <2>. QED  BY <1>2, <2>1
<1> HIDE DEF D, x, g, turn
<1>4. XorBits = [n \in Nat |-> [a \in Nat |-> [b \in Nat |->
              IF n = 0 THEN 0 ELSE 2 * XorBits[n - 1][a \div 2][b \div 2] + ((a + b) % 2)]]]
  BY <1>3 DEF XorBits
<1>5. ASSUME NEW m \in Nat, NEW a \in Nat, NEW b \in Nat
      PROVE  XorBits[m][a][b] =
               IF m = 0 THEN 0 ELSE 2 * XorBits[m - 1][a \div 2][b \div 2] + ((a + b) % 2)
  <2>1. XorBits[m] = [aa \in Nat |-> [bb \in Nat |->
              IF m = 0 THEN 0 ELSE 2 * XorBits[m - 1][aa \div 2][bb \div 2] + ((aa + bb) % 2)]]
    BY <1>4
  <2>. QED  BY <2>1
<1>6. ASSUME NEW n \in Nat, NEW a \in Nat, NEW b \in Nat
      PROVE  XorBits[n + 1][a][b] = 2 * XorBits[n][a \div 2][b \div 2] + ((a + b) % 2)
  <2> DEFINE m == n + 1
  <2>1. m \in Nat /\ m # 0 /\ m - 1 = n
    OBVIOUS
  <2> HIDE DEF m
  <2>2. XorBits[m] = [aa \in Nat |-> [bb \in Nat |->
              IF m = 0 THEN 0 ELSE 2 * XorBits[m - 1][aa \div 2][bb \div 2] + ((aa + bb) % 2)]]
    BY <1>4, <2>1
  <2>3. XorBits[m][a][b] = 2 * XorBits[m - 1][a \div 2][b \div 2] + ((a + b) % 2)
    BY <2>1, <2>2
  <2>. QED  BY <2>1, <2>3 DEF m
<1>7. 0 \in Nat /\ \A a, b \in Nat : XorBits[0][a][b] = 0
  BY <1>5
<1>. QED  BY <1>6, <1>7

(* Exclusive or stays within its bits, and doing it twice undoes it. *)
LEMMA XorUndone ==
    \A n \in Nat : \A a, b \in 0 .. (Power(2)[n] - 1) :
        /\ XorBits[n][a][b] \in 0 .. (Power(2)[n] - 1)
        /\ XorBits[n][XorBits[n][a][b]][b] = a
<1> DEFINE S == {n \in Nat : \A a, b \in 0 .. (Power(2)[n] - 1) :
                    /\ XorBits[n][a][b] \in 0 .. (Power(2)[n] - 1)
                    /\ XorBits[n][XorBits[n][a][b]][b] = a}
<1>0. 2 \in Nat /\ Power(2)[0] = 1
  BY PowerIs
<1>1. 0 \in S
  <2>1. \A a \in 0 .. 0 : a = 0
    OBVIOUS
  <2>2. XorBits[0][0][0] = 0
    BY XorBitsIs
  <2>. QED  BY <1>0, <2>1, <2>2
<1>2. ASSUME NEW n \in Nat, n \in S  PROVE n + 1 \in S
  <2> DEFINE p == Power(2)[n]
  <2>1. p \in Nat /\ Power(2)[n + 1] = 2 * p
    BY PowerIs
  <2>2. ASSUME NEW a \in 0 .. (2 * p - 1), NEW b \in 0 .. (2 * p - 1)
        PROVE  /\ XorBits[n + 1][a][b] \in 0 .. (2 * p - 1)
               /\ XorBits[n + 1][XorBits[n + 1][a][b]][b] = a
    <3> DEFINE high == XorBits[n][a \div 2][b \div 2]
               low == (a + b) % 2
    <3> HIDE DEF p
    <3>1. a \div 2 \in 0 .. (p - 1) /\ b \div 2 \in 0 .. (p - 1) /\ a \in Nat /\ b \in Nat
      BY <2>1
    <3>2. high \in 0 .. (p - 1) /\ XorBits[n][high][b \div 2] = a \div 2
      BY <1>2, <3>1 DEF p
    <3>3. XorBits[n + 1][a][b] = 2 * high + low
      BY <3>1, XorBitsIs
    <3>4. low \in {0, 1} /\ a = 2 * (a \div 2) + ((low + b) % 2)
      BY <3>1
    <3> HIDE DEF high, low
    <3>5. 2 * high + low \in Nat /\ (2 * high + low) \div 2 = high /\ (2 * high + low + b) % 2 = (low + b) % 2
      BY <3>1, <3>2, <3>4, <2>1
    <3>6. XorBits[n + 1][2 * high + low][b] = 2 * (a \div 2) + ((low + b) % 2)
      <4>1. XorBits[n + 1][2 * high + low][b]
              = 2 * XorBits[n][(2 * high + low) \div 2][b \div 2] + ((2 * high + low + b) % 2)
        BY <3>1, <3>5, XorBitsIs
      <4>. QED  BY <3>2, <3>5, <4>1
    <3>7. 2 * high + low \in 0 .. (2 * p - 1)
      BY <2>1, <3>2, <3>4
    <3>. QED  BY <3>3, <3>4, <3>6, <3>7
  <2>. QED  BY <2>1, <2>2
<1> HIDE DEF S
<1>3. \A n \in Nat : n \in S
  BY <1>1, <1>2, Induction
<1>. QED  BY <1>3 DEF S

-----------------------------------------------------------------------------
(* The values of half a number of a tier, and the two halves of one. *)
Halves(l) == 0 .. (Half(l) - 1)
Pairs(l) == Halves(l) \X Halves(l)

(* What a round function is: CodeAssumption of each in RoundFunctions. *)
IsRoundFunction(f, l) ==
    /\ HalfBits[l] \in Nat
    /\ f \in [0 .. (Rounds - 1) -> [Halves(l) -> Halves(l)]]

(* A half has at least one value. *)
LEMMA HalfPositive ==
    ASSUME NEW l, HalfBits[l] \in Nat
    PROVE  Half(l) \in Nat /\ Half(l) > 0
  BY PowerPositive DEF Half

(* The same for the halves of a value of a tier. *)
LEMMA XorHalves ==
    ASSUME NEW l, HalfBits[l] \in Nat, NEW a \in Halves(l), NEW b \in Halves(l)
    PROVE  Xor(l, a, b) \in Halves(l) /\ Xor(l, Xor(l, a, b), b) = a
  BY XorUndone DEF Xor, Halves, Half

(* Split and Join are the inverse of each other. *)
LEMMA SplitJoin ==
    ASSUME NEW l, HalfBits[l] \in Nat
    PROVE  /\ \A value \in Values(l) : Split(l, value) \in Pairs(l) /\ Join(l, Split(l, value)) = value
           /\ \A pair \in Pairs(l) : Join(l, pair) \in Values(l) /\ Split(l, Join(l, pair)) = pair
<1> DEFINE h == Half(l)
<1>0. h \in Nat /\ h > 0
  BY HalfPositive
<1> HIDE DEF h
<1>1. ASSUME NEW value \in Values(l)
      PROVE  Split(l, value) \in Pairs(l) /\ Join(l, Split(l, value)) = value
  <2>1. value \in 0 .. (h * h - 1) /\ value \in Nat
    BY <1>0 DEF Values, h
  <2>2. value \div h \in 0 .. (h - 1)
    BY <1>0, <2>1, QuotientBound
  <2>3. value % h \in 0 .. (h - 1) /\ value = (value \div h) * h + (value % h)
    BY <1>0, <2>1, DivMod
  <2>. QED  BY <2>2, <2>3 DEF Split, Join, Pairs, Halves, h
<1>2. ASSUME NEW pair \in Pairs(l)
      PROVE  Join(l, pair) \in Values(l) /\ Split(l, Join(l, pair)) = pair
  <2>1. pair[1] \in 0 .. (h - 1) /\ pair[2] \in 0 .. (h - 1) /\ pair = <<pair[1], pair[2]>>
    BY DEF Pairs, Halves, h
  <2>2. pair[1] * h + pair[2] \in 0 .. (h * h - 1)
    BY <1>0, <2>1, ProductBound
  <2>3. (pair[1] * h + pair[2]) \div h = pair[1] /\ (pair[1] * h + pair[2]) % h = pair[2]
    <3>1. pair[1] \in Nat
      BY <1>0, <2>1
    <3>. QED  BY <1>0, <2>1, <3>1, DivMod
  <2>. QED  BY <2>1, <2>2, <2>3 DEF Split, Join, Values, h
<1>. QED  BY <1>1, <1>2

(* A turn of one loop undoes a turn of the other with the same round. *)
LEMMA RoundUndone ==
    ASSUME NEW l, NEW f, IsRoundFunction(f, l), NEW round \in 0 .. (Rounds - 1), NEW pair \in Pairs(l)
    PROVE  /\ EncryptRound(f, l, round, pair) \in Pairs(l)
           /\ DecryptRound(f, l, round, pair) \in Pairs(l)
           /\ DecryptRound(f, l, round, EncryptRound(f, l, round, pair)) = pair
           /\ EncryptRound(f, l, round, DecryptRound(f, l, round, pair)) = pair
<1>1. /\ pair[1] \in Halves(l) /\ pair[2] \in Halves(l) /\ pair = <<pair[1], pair[2]>>
      /\ HalfBits[l] \in Nat
      /\ f[round][pair[1]] \in Halves(l) /\ f[round][pair[2]] \in Halves(l)
  BY DEF Pairs, IsRoundFunction
<1>2. /\ Xor(l, pair[1], f[round][pair[2]]) \in Halves(l)
      /\ Xor(l, Xor(l, pair[1], f[round][pair[2]]), f[round][pair[2]]) = pair[1]
      /\ Xor(l, pair[2], f[round][pair[1]]) \in Halves(l)
      /\ Xor(l, Xor(l, pair[2], f[round][pair[1]]), f[round][pair[1]]) = pair[2]
  BY <1>1, XorHalves
<1>. QED  BY <1>1, <1>2 DEF EncryptRound, DecryptRound, Pairs

(* Encrypted satisfies its equation and stays within pairs of halves. *)
LEMMA EncryptedIs ==
    ASSUME NEW l, NEW f, IsRoundFunction(f, l), Rounds \in Nat, NEW value \in Values(l)
    PROVE  /\ Encrypted(f, l, value) \in [0 .. Rounds -> Pairs(l)]
           /\ Encrypted(f, l, value)[0] = Split(l, value)
           /\ \A n \in 1 .. Rounds : Encrypted(f, l, value)[n] =
                EncryptRound(f, l, n - 1, Encrypted(f, l, value)[n - 1])
<1> DEFINE g == [n \in 0 .. Rounds |-> [pair \in Pairs(l) |->
                    IF n = 0 THEN pair ELSE EncryptRound(f, l, n - 1, pair)]]
           x == Split(l, value)
<1>1. x \in Pairs(l)
  BY SplitJoin DEF IsRoundFunction
<1>2. g \in Turns(0 .. Rounds, Pairs(l))
  <2>1. ASSUME NEW n \in 1 .. Rounds, NEW pair \in Pairs(l)
        PROVE  EncryptRound(f, l, n - 1, pair) \in Pairs(l)
    <3>1. n - 1 \in 0 .. (Rounds - 1)
      OBVIOUS
    <3>. QED  BY <3>1, RoundUndone
  <2>. QED  BY <2>1 DEF Turns
<1> HIDE DEF g, x
<1>run. PICK h : h \in Loops(0 .. Rounds, Pairs(l), x, g)
  BY <1>1, <1>2, BoundedRecursion
<1>3. /\ h \in [0 .. Rounds -> Pairs(l)]
      /\ \A n \in 0 .. Rounds : h[n] = IF n = 0 THEN x ELSE g[n][h[n - 1]]
  BY <1>run DEF Loops
<1>4. h = [n \in 0 .. Rounds |->
             IF n = 0 THEN Split(l, value) ELSE EncryptRound(f, l, n - 1, h[n - 1])]
  <2>1. ASSUME NEW n \in 0 .. Rounds, n # 0
        PROVE  g[n][h[n - 1]] = EncryptRound(f, l, n - 1, h[n - 1])
    <3>1. n \in 1 .. Rounds /\ n - 1 \in 0 .. Rounds /\ h[n - 1] \in Pairs(l)
      BY <1>3, <2>1
    <3>. QED  BY <3>1 DEF g
  <2>. QED  BY <1>3, <2>1 DEF x
<1> DEFINE E == Encrypted(f, l, value)
<1>5. E = [n \in 0 .. Rounds |->
             IF n = 0 THEN Split(l, value) ELSE EncryptRound(f, l, n - 1, E[n - 1])]
  BY <1>4 DEF Encrypted
<1> HIDE DEF E
<1>6. \A n \in 0 .. Rounds : E[n] =
          IF n = 0 THEN Split(l, value) ELSE EncryptRound(f, l, n - 1, E[n - 1])
  BY <1>5
<1>7. E[0] = Split(l, value)
  BY <1>6
<1>8. \A n \in 1 .. Rounds : E[n] = EncryptRound(f, l, n - 1, E[n - 1])
  BY <1>6
<1>9. E \in [0 .. Rounds -> Pairs(l)]
  <2>1. E[0] \in Pairs(l)
    BY <1>1, <1>7 DEF x
  <2>2. ASSUME NEW n \in 1 .. Rounds, E[n - 1] \in Pairs(l)  PROVE E[n] \in Pairs(l)
    <3>1. n - 1 \in 0 .. (Rounds - 1)
      OBVIOUS
    <3>2. EncryptRound(f, l, n - 1, E[n - 1]) \in Pairs(l)
      BY <2>2, <3>1, RoundUndone
    <3>. QED  BY <1>8, <3>2
  <2>3. E = [n \in 0 .. Rounds |-> E[n]]
    BY <1>5
  <2>. QED  BY <2>1, <2>2, <2>3, LoopTyped
<1>. QED  BY <1>7, <1>8, <1>9 DEF E

(* Decrypted does, with the rounds the other way round. *)
LEMMA DecryptedIs ==
    ASSUME NEW l, NEW f, IsRoundFunction(f, l), Rounds \in Nat, NEW value \in Values(l)
    PROVE  /\ Decrypted(f, l, value) \in [0 .. Rounds -> Pairs(l)]
           /\ Decrypted(f, l, value)[0] = Split(l, value)
           /\ \A n \in 1 .. Rounds : Decrypted(f, l, value)[n] =
                DecryptRound(f, l, Rounds - n, Decrypted(f, l, value)[n - 1])
<1> DEFINE g == [n \in 0 .. Rounds |-> [pair \in Pairs(l) |->
                    IF n = 0 THEN pair ELSE DecryptRound(f, l, Rounds - n, pair)]]
           x == Split(l, value)
<1>1. x \in Pairs(l)
  BY SplitJoin DEF IsRoundFunction
<1>2. g \in Turns(0 .. Rounds, Pairs(l))
  <2>1. ASSUME NEW n \in 1 .. Rounds, NEW pair \in Pairs(l)
        PROVE  DecryptRound(f, l, Rounds - n, pair) \in Pairs(l)
    <3>1. Rounds - n \in 0 .. (Rounds - 1)
      OBVIOUS
    <3>. QED  BY <3>1, RoundUndone
  <2>. QED  BY <2>1 DEF Turns
<1> HIDE DEF g, x
<1>run. PICK h : h \in Loops(0 .. Rounds, Pairs(l), x, g)
  BY <1>1, <1>2, BoundedRecursion
<1>3. /\ h \in [0 .. Rounds -> Pairs(l)]
      /\ \A n \in 0 .. Rounds : h[n] = IF n = 0 THEN x ELSE g[n][h[n - 1]]
  BY <1>run DEF Loops
<1>4. h = [n \in 0 .. Rounds |->
             IF n = 0 THEN Split(l, value) ELSE DecryptRound(f, l, Rounds - n, h[n - 1])]
  <2>1. ASSUME NEW n \in 0 .. Rounds, n # 0
        PROVE  g[n][h[n - 1]] = DecryptRound(f, l, Rounds - n, h[n - 1])
    <3>1. n \in 1 .. Rounds /\ n - 1 \in 0 .. Rounds /\ h[n - 1] \in Pairs(l)
      BY <1>3, <2>1
    <3>. QED  BY <3>1 DEF g
  <2>. QED  BY <1>3, <2>1 DEF x
<1> DEFINE E == Decrypted(f, l, value)
<1>5. E = [n \in 0 .. Rounds |->
             IF n = 0 THEN Split(l, value) ELSE DecryptRound(f, l, Rounds - n, E[n - 1])]
  BY <1>4 DEF Decrypted
<1> HIDE DEF E
<1>6. \A n \in 0 .. Rounds : E[n] =
          IF n = 0 THEN Split(l, value) ELSE DecryptRound(f, l, Rounds - n, E[n - 1])
  BY <1>5
<1>7. E[0] = Split(l, value)
  BY <1>6
<1>8. \A n \in 1 .. Rounds : E[n] = DecryptRound(f, l, Rounds - n, E[n - 1])
  BY <1>6
<1>9. E \in [0 .. Rounds -> Pairs(l)]
  <2>1. E[0] \in Pairs(l)
    BY <1>1, <1>7 DEF x
  <2>2. ASSUME NEW n \in 1 .. Rounds, E[n - 1] \in Pairs(l)  PROVE E[n] \in Pairs(l)
    <3>1. Rounds - n \in 0 .. (Rounds - 1)
      OBVIOUS
    <3>2. DecryptRound(f, l, Rounds - n, E[n - 1]) \in Pairs(l)
      BY <2>2, <3>1, RoundUndone
    <3>. QED  BY <1>8, <3>2
  <2>3. E = [n \in 0 .. Rounds |-> E[n]]
    BY <1>5
  <2>. QED  BY <2>1, <2>2, <2>3, LoopTyped
<1>. QED  BY <1>7, <1>8, <1>9 DEF E

(* Decryption undoes encryption and encryption decryption: both are        *)
(* permutations of the values of a tier, whatever the round function is.   *)
LEMMA FeistelUndone ==
    ASSUME NEW l, NEW f, IsRoundFunction(f, l), Rounds \in Nat
    PROVE  /\ FeistelEncrypt(f, l) \in [Values(l) -> Values(l)]
           /\ FeistelDecrypt(f, l) \in [Values(l) -> Values(l)]
           /\ \A v \in Values(l) : /\ FeistelDecrypt(f, l)[FeistelEncrypt(f, l)[v]] = v
                                   /\ FeistelEncrypt(f, l)[FeistelDecrypt(f, l)[v]] = v
<1>0. HalfBits[l] \in Nat /\ Rounds \in 0 .. Rounds
  BY DEF IsRoundFunction
<1>1. ASSUME NEW v \in Values(l)
      PROVE  /\ FeistelEncrypt(f, l)[v] = Join(l, Encrypted(f, l, v)[Rounds])
             /\ FeistelEncrypt(f, l)[v] \in Values(l)
             /\ Split(l, FeistelEncrypt(f, l)[v]) = Encrypted(f, l, v)[Rounds]
             /\ FeistelDecrypt(f, l)[v] = Join(l, Decrypted(f, l, v)[Rounds])
             /\ FeistelDecrypt(f, l)[v] \in Values(l)
             /\ Split(l, FeistelDecrypt(f, l)[v]) = Decrypted(f, l, v)[Rounds]
  <2>1. Encrypted(f, l, v)[Rounds] \in Pairs(l)
    BY <1>0, EncryptedIs
  <2>2. Decrypted(f, l, v)[Rounds] \in Pairs(l)
    BY <1>0, DecryptedIs
  <2>. QED  BY <1>0, <2>1, <2>2, SplitJoin DEF FeistelEncrypt, FeistelDecrypt
<1>2. ASSUME NEW v \in Values(l)
      PROVE  FeistelDecrypt(f, l)[FeistelEncrypt(f, l)[v]] = v
  <2> DEFINE w == FeistelEncrypt(f, l)[v]
             E == Encrypted(f, l, v)
             D == Decrypted(f, l, w)
             S == {n \in Nat : n <= Rounds => D[n] = E[Rounds - n]}
  <2>1. w \in Values(l) /\ Split(l, w) = E[Rounds]
    BY <1>1
  <2> HIDE DEF w
  <2>2. /\ E \in [0 .. Rounds -> Pairs(l)] /\ E[0] = Split(l, v)
        /\ \A n \in 1 .. Rounds : E[n] = EncryptRound(f, l, n - 1, E[n - 1])
    BY EncryptedIs
  <2>3. /\ D[0] = Split(l, w)
        /\ \A n \in 1 .. Rounds : D[n] = DecryptRound(f, l, Rounds - n, D[n - 1])
    BY <2>1, DecryptedIs
  <2> HIDE DEF E, D
  <2>4. 0 \in S
    BY <2>1, <2>3
  <2>5. ASSUME NEW n \in Nat, n \in S  PROVE n + 1 \in S
    <3>1. CASE n + 1 <= Rounds
      <4> DEFINE m == Rounds - n
      <4>1. /\ m \in 1 .. Rounds /\ m - 1 \in 0 .. (Rounds - 1) /\ m - 1 \in 0 .. Rounds
            /\ n + 1 \in 1 .. Rounds /\ (n + 1) - 1 = n /\ Rounds - (n + 1) = m - 1
        BY <3>1
      <4>2. D[n] = E[m]
        BY <2>5, <3>1
      <4> HIDE DEF m
      <4>3. E[m] = EncryptRound(f, l, m - 1, E[m - 1]) /\ E[m - 1] \in Pairs(l)
        BY <2>2, <4>1
      <4>4. D[n + 1] = DecryptRound(f, l, m - 1, E[m])
        BY <2>3, <4>1, <4>2
      <4>5. D[n + 1] = E[m - 1]
        BY <4>1, <4>3, <4>4, RoundUndone
      <4>. QED  BY <4>1, <4>5
    <3>. QED  BY <3>1
  <2> HIDE DEF S
  <2>6. Rounds \in S
    BY <2>4, <2>5, Induction
  <2>7. D[Rounds] = Split(l, v)
    BY <2>2, <2>6 DEF S
  <2>. QED  BY <1>0, <1>1, <2>1, <2>7, SplitJoin DEF D, w
<1>3. ASSUME NEW v \in Values(l)
      PROVE  FeistelEncrypt(f, l)[FeistelDecrypt(f, l)[v]] = v
  <2> DEFINE w == FeistelDecrypt(f, l)[v]
             E == Decrypted(f, l, v)
             D == Encrypted(f, l, w)
             S == {n \in Nat : n <= Rounds => D[n] = E[Rounds - n]}
  <2>1. w \in Values(l) /\ Split(l, w) = E[Rounds]
    BY <1>1
  <2> HIDE DEF w
  <2>2. /\ E \in [0 .. Rounds -> Pairs(l)] /\ E[0] = Split(l, v)
        /\ \A n \in 1 .. Rounds : E[n] = DecryptRound(f, l, Rounds - n, E[n - 1])
    BY DecryptedIs
  <2>3. /\ D[0] = Split(l, w)
        /\ \A n \in 1 .. Rounds : D[n] = EncryptRound(f, l, n - 1, D[n - 1])
    BY <2>1, EncryptedIs
  <2> HIDE DEF E, D
  <2>4. 0 \in S
    BY <2>1, <2>3
  <2>5. ASSUME NEW n \in Nat, n \in S  PROVE n + 1 \in S
    <3>1. CASE n + 1 <= Rounds
      <4> DEFINE m == Rounds - n
      <4>1. /\ m \in 1 .. Rounds /\ m - 1 \in 0 .. (Rounds - 1) /\ m - 1 \in 0 .. Rounds
            /\ n + 1 \in 1 .. Rounds /\ (n + 1) - 1 = n /\ Rounds - (n + 1) = m - 1
            /\ n \in 0 .. (Rounds - 1) /\ Rounds - m = n
        BY <3>1
      <4>2. D[n] = E[m]
        BY <2>5, <3>1
      <4> HIDE DEF m
      <4>3. E[m] = DecryptRound(f, l, n, E[m - 1]) /\ E[m - 1] \in Pairs(l)
        BY <2>2, <4>1
      <4>4. D[n + 1] = EncryptRound(f, l, n, E[m])
        BY <2>3, <4>1, <4>2
      <4>5. D[n + 1] = E[m - 1]
        BY <4>1, <4>3, <4>4, RoundUndone
      <4>. QED  BY <4>1, <4>5
    <3>. QED  BY <3>1
  <2> HIDE DEF S
  <2>6. Rounds \in S
    BY <2>4, <2>5, Induction
  <2>7. D[Rounds] = Split(l, v)
    BY <2>2, <2>6 DEF S
  <2>. QED  BY <1>0, <1>1, <2>1, <2>7, SplitJoin DEF D, w
<1>. QED  BY <1>1, <1>2, <1>3 DEF FeistelEncrypt, FeistelDecrypt

-----------------------------------------------------------------------------
(* The walk from v is in the tier for the first time after n steps, and    *)
(* the values that it arrives at: one, or none.                            *)
Arrives(E, V, capacity, v, n) ==
    /\ n \in Nat \ {0}
    /\ Path(E, V, v)[n] < capacity
    /\ \A m \in 1 .. (n - 1) : ~ (Path(E, V, v)[m] < capacity)
Arrivals(E, V, capacity, v) ==
    {Path(E, V, v)[n] : n \in {n \in Nat : Arrives(E, V, capacity, v, n)}}

(* A walk that starts in the tier arrives in the tier: at the latest, it   *)
(* comes back to its start.                                                *)
LEMMA WalkArrives ==
    ASSUME NEW N \in Nat, NEW E, NEW D, Undoes(D, E, 0 .. (N - 1)),
           NEW capacity \in Nat, NEW v \in 0 .. (N - 1), v < capacity
    PROVE  \E n \in Nat : Arrives(E, 0 .. (N - 1), capacity, v, n)
<1> DEFINE p == Path(E, 0 .. (N - 1), v)
           S == {n \in Nat \ {0} : p[n] < capacity}
<1>1. S # {}
  BY PathReturns
<1>2. PICK n \in S : \A m \in S : n <= m
  BY <1>1, LeastNumber
<1>3. \A m \in 1 .. (n - 1) : m \notin S
  BY <1>2
<1> HIDE DEF p
<1>4. \A m \in 1 .. (n - 1) : ~ (p[m] < capacity)
  BY <1>3
<1>. QED  BY <1>2, <1>4 DEF Arrives, p

(* A walk that is not yet in the tier after one step arrives as the walk   *)
(* from there does, one step later.                                        *)
LEMMA ArrivesTail ==
    ASSUME NEW V, NEW E \in [V -> V], NEW capacity \in Nat, NEW v \in V
    PROVE  /\ E[v] < capacity => \A n \in Nat : Arrives(E, V, capacity, v, n) <=> n = 1
           /\ ~ (E[v] < capacity) =>
                /\ \A n \in Nat : Arrives(E, V, capacity, E[v], n) <=> Arrives(E, V, capacity, v, n + 1)
                /\ ~ Arrives(E, V, capacity, v, 1)
<1> DEFINE p == Path(E, V, v)
           q == Path(E, V, E[v])
<1>1. p[1] = E[v]
  <2> HIDE DEF p, q
  <2>1. IsPath(E, V, v, p)
    BY PathIs DEF p
  <2>2. p[0] = v /\ p[0 + 1] = E[p[0]]
    BY <2>1 DEF IsPath
  <2>. QED  BY <2>2
<1>2. \A n \in Nat : q[n] = p[n + 1]
  BY PathTail
<1> HIDE DEF p, q
<1>3. ASSUME E[v] < capacity, NEW n \in Nat
      PROVE  Arrives(E, V, capacity, v, n) <=> n = 1
  BY <1>1, <1>3 DEF Arrives, p
<1>4. ASSUME ~ (E[v] < capacity), NEW n \in Nat
      PROVE  Arrives(E, V, capacity, E[v], n) <=> Arrives(E, V, capacity, v, n + 1)
  <2>1. ASSUME Arrives(E, V, capacity, E[v], n)
        PROVE  Arrives(E, V, capacity, v, n + 1)
    <3>1. n # 0 /\ p[n + 1] < capacity
      BY <1>2, <2>1 DEF Arrives, q
    <3>2. ASSUME NEW m \in 1 .. ((n + 1) - 1)  PROVE ~ (p[m] < capacity)
      <4>1. CASE m = 1
        BY <1>1, <1>4, <4>1
      <4>2. CASE m # 1
        <5>1. m - 1 \in 1 .. (n - 1) /\ m - 1 \in Nat /\ (m - 1) + 1 = m
          BY <4>2
        <5>2. ~ (q[m - 1] < capacity)
          BY <2>1, <5>1 DEF Arrives, q
        <5>. QED  BY <1>2, <5>1, <5>2
      <4>. QED  BY <4>1, <4>2
    <3>. QED  BY <3>1, <3>2 DEF Arrives, p
  <2>2. ASSUME Arrives(E, V, capacity, v, n + 1)
        PROVE  Arrives(E, V, capacity, E[v], n)
    <3>1. p[n + 1] < capacity /\ \A m \in 1 .. ((n + 1) - 1) : ~ (p[m] < capacity)
      BY <2>2 DEF Arrives, p
    <3>2. n # 0
      BY <1>1, <1>4, <3>1
    <3>3. ASSUME NEW m \in 1 .. (n - 1)  PROVE ~ (q[m] < capacity)
      <4>1. m + 1 \in 1 .. ((n + 1) - 1) /\ m \in Nat
        OBVIOUS
      <4>. QED  BY <1>2, <3>1, <4>1
    <3>. QED  BY <1>2, <3>1, <3>2, <3>3 DEF Arrives, q
  <2>. QED  BY <2>1, <2>2
<1>5. ~ (E[v] < capacity) => ~ Arrives(E, V, capacity, v, 1)
  BY <1>1 DEF Arrives, p
<1>. QED  BY <1>3, <1>4, <1>5

(* Where a walk arrives, one step at a time: the equation that Walk has to *)
(* satisfy.                                                                *)
LEMMA ArrivalsIs ==
    ASSUME NEW V, NEW E \in [V -> V], NEW capacity \in Nat, NEW v \in V
    PROVE  /\ E[v] < capacity => Arrivals(E, V, capacity, v) = {E[v]}
           /\ ~ (E[v] < capacity) =>
                Arrivals(E, V, capacity, v) = Arrivals(E, V, capacity, E[v])
<1> DEFINE p == Path(E, V, v)
           q == Path(E, V, E[v])
<1>1. p[0 + 1] = E[v]
  <2> HIDE DEF p, q
  <2>1. IsPath(E, V, v, p)
    BY PathIs DEF p
  <2>. QED  BY <2>1 DEF IsPath
<1>2. \A n \in Nat : q[n] = p[n + 1]
  BY PathTail
<1> HIDE DEF p, q
<1>3. ASSUME E[v] < capacity  PROVE Arrivals(E, V, capacity, v) = {E[v]}
  <2>1. \A n \in Nat : Arrives(E, V, capacity, v, n) <=> n = 1
    BY <1>3, ArrivesTail
  <2>2. {n \in Nat : Arrives(E, V, capacity, v, n)} = {1}
    BY <2>1
  <2>. QED  BY <1>1, <2>2 DEF Arrivals, p
<1>4. ASSUME ~ (E[v] < capacity)
      PROVE  Arrivals(E, V, capacity, v) = Arrivals(E, V, capacity, E[v])
  <2>1. /\ \A n \in Nat : Arrives(E, V, capacity, E[v], n) <=> Arrives(E, V, capacity, v, n + 1)
        /\ ~ Arrives(E, V, capacity, v, 1)
    BY <1>4, ArrivesTail
  <2>2. ASSUME NEW w \in Arrivals(E, V, capacity, v)  PROVE w \in Arrivals(E, V, capacity, E[v])
    <3>1. PICK n \in Nat : Arrives(E, V, capacity, v, n) /\ w = p[n]
      BY DEF Arrivals, p
    <3>2. n # 0 /\ n # 1
      BY <2>1, <3>1 DEF Arrives
    <3>3. n - 1 \in Nat /\ (n - 1) + 1 = n
      BY <3>2
    <3>4. Arrives(E, V, capacity, E[v], n - 1) /\ w = q[n - 1]
      BY <1>2, <2>1, <3>1, <3>3
    <3>. QED  BY <3>3, <3>4 DEF Arrivals, q
  <2>3. ASSUME NEW w \in Arrivals(E, V, capacity, E[v])  PROVE w \in Arrivals(E, V, capacity, v)
    <3>1. PICK n \in Nat : Arrives(E, V, capacity, E[v], n) /\ w = q[n]
      BY DEF Arrivals, q
    <3>2. n + 1 \in Nat /\ Arrives(E, V, capacity, v, n + 1) /\ w = p[n + 1]
      BY <1>2, <2>1, <3>1
    <3>. QED  BY <3>2 DEF Arrivals, p
  <2>. QED  BY <2>2, <2>3
<1>. QED  BY <1>3, <1>4

(* Walk satisfies its equation, for the values too from which the walk     *)
(* never arrives.                                                          *)
LEMMA WalkIs ==
    ASSUME NEW V, NEW E \in [V -> V], NEW capacity \in Nat
    PROVE  \A v \in V : Walk(E, capacity)[v] =
              IF E[v] < capacity THEN E[v] ELSE Walk(E, capacity)[E[v]]
<1> DEFINE W == [v \in V |-> CHOOSE w : w \in Arrivals(E, V, capacity, v)]
           IsWalk(walk) ==
             walk = [v \in DOMAIN E |-> IF E[v] < capacity THEN E[v] ELSE walk[E[v]]]
<1>1. ASSUME NEW v \in V  PROVE W[v] = IF E[v] < capacity THEN E[v] ELSE W[E[v]]
  <2>1. E[v] < capacity => Arrivals(E, V, capacity, v) = {E[v]}
    BY ArrivalsIs
  <2>2. ~ (E[v] < capacity) => Arrivals(E, V, capacity, v) = Arrivals(E, V, capacity, E[v])
    BY ArrivalsIs
  <2>3. E[v] < capacity => W[v] = E[v]
    BY <2>1
  <2>4. ~ (E[v] < capacity) => W[v] = W[E[v]]
    BY <2>2
  <2>. QED  BY <2>3, <2>4
<1>2. W = [v \in V |-> W[v]]
  OBVIOUS
<1> HIDE DEF W
<1>3. DOMAIN E = V
  OBVIOUS
<1>4. W = [v \in V |-> IF E[v] < capacity THEN E[v] ELSE W[E[v]]]
  BY <1>1, <1>2
<1>5. IsWalk(W)
  BY <1>3, <1>4
<1>6. Walk(E, capacity) = CHOOSE walk : IsWalk(walk)
  BY DEF Walk
<1> DEFINE walk == Walk(E, capacity)
<1>7. IsWalk(walk)
  <2> HIDE DEF IsWalk
  <2>. QED  BY <1>5, <1>6
<1> HIDE DEF walk
<1>8. \A v \in V : walk[v] = IF E[v] < capacity THEN E[v] ELSE walk[E[v]]
  BY <1>3, <1>7
<1>. QED  BY <1>8 DEF walk

(* Walk is the value that the walk arrives at. *)
LEMMA WalkEnds ==
    ASSUME NEW V, NEW E \in [V -> V], NEW capacity \in Nat
    PROVE  \A n \in Nat : \A v \in V :
              Arrives(E, V, capacity, v, n) => Walk(E, capacity)[v] = Path(E, V, v)[n]
<1> DEFINE Ends(n, v) == Arrives(E, V, capacity, v, n) => Walk(E, capacity)[v] = Path(E, V, v)[n]
           S == {n \in Nat : \A v \in V : Ends(n, v)}
<1>1. 0 \in S
  BY DEF Arrives
<1>2. ASSUME NEW n \in Nat, n \in S  PROVE n + 1 \in S
  <2>1. ASSUME NEW v \in V, Arrives(E, V, capacity, v, n + 1)
        PROVE  Walk(E, capacity)[v] = Path(E, V, v)[n + 1]
    <3>1. E[v] \in V
      OBVIOUS
    <3>2. Path(E, V, E[v])[n] = Path(E, V, v)[n + 1]
      BY PathTail
    <3>3. CASE E[v] < capacity
      <4>1. n + 1 = 1
        BY <2>1, <3>3, ArrivesTail
      <4>2. n = 0
        BY <4>1
      <4>3. IsPath(E, V, E[v], Path(E, V, E[v]))
        BY <3>1, PathIs
      <4>4. Path(E, V, E[v])[0] = E[v]
        BY <4>3 DEF IsPath
      <4>5. Walk(E, capacity)[v] = E[v]
        BY <3>3, WalkIs
      <4>. QED  BY <3>2, <4>2, <4>4, <4>5
    <3>4. CASE ~ (E[v] < capacity)
      <4>1. Arrives(E, V, capacity, E[v], n)
        BY <2>1, <3>4, ArrivesTail
      <4>2. Ends(n, E[v])
        BY <1>2, <3>1
      <4>3. Walk(E, capacity)[v] = Walk(E, capacity)[E[v]]
        BY <3>4, WalkIs
      <4>. QED  BY <3>2, <4>1, <4>2, <4>3
    <3>. QED  BY <3>3, <3>4
  <2>2. \A v \in V : Ends(n + 1, v)
    BY <2>1
  <2>. QED  BY <2>2
<1> HIDE DEF S
<1>3. \A n \in Nat : n \in S
  BY <1>1, <1>2, Induction
<1>. QED  BY <1>3 DEF S

(* A walk from the tier ends in the tier, and the walk with the inverse    *)
(* comes back by the same values.                                          *)
LEMMA WalkUndone ==
    ASSUME NEW N \in Nat, NEW E, NEW D, Undoes(D, E, 0 .. (N - 1)),
           NEW capacity \in Nat, capacity <= N, NEW v \in 0 .. (capacity - 1)
    PROVE  /\ Walk(E, capacity)[v] \in 0 .. (capacity - 1)
           /\ Walk(D, capacity)[Walk(E, capacity)[v]] = v
<1> DEFINE V == 0 .. (N - 1)
           p == Path(E, V, v)
<1>1. v \in V /\ v < capacity
  OBVIOUS
<1>2. E \in [V -> V] /\ D \in [V -> V] /\ Undoes(D, E, V)
  BY DEF Undoes
<1>3. PICK n \in Nat : Arrives(E, V, capacity, v, n)
  BY <1>1, WalkArrives
<1> DEFINE w == p[n]
           q == Path(D, V, w)
<1> HIDE DEF V
<1>4. Walk(E, capacity)[v] = w
  <2>1. \A k \in Nat : \A a \in V :
           Arrives(E, V, capacity, a, k) => Walk(E, capacity)[a] = Path(E, V, a)[k]
    BY <1>2, WalkEnds
  <2> HIDE DEF p
  <2>2. Walk(E, capacity)[v] = Path(E, V, v)[n]
    BY <1>1, <1>3, <2>1
  <2>. QED  BY <2>2 DEF p
<1>5. w \in V /\ \A m \in 0 .. n : q[m] = p[n - m]
  BY <1>1, <1>2, PathBack
<1>6. IsPath(E, V, v, p)
  BY <1>1, <1>2, PathIs
<1> HIDE DEF p, q
<1>7. p[0] = v
  BY <1>6 DEF IsPath
<1>8. n # 0 /\ w < capacity /\ \A m \in 1 .. (n - 1) : ~ (p[m] < capacity)
  BY <1>3 DEF Arrives, p
<1>9. q[n] = v
  BY <1>5, <1>7
<1>10. ASSUME NEW m \in 1 .. (n - 1)  PROVE ~ (q[m] < capacity)
  <2>1. n - m \in 1 .. (n - 1) /\ m \in 0 .. n
    OBVIOUS
  <2>. QED  BY <1>5, <1>8, <2>1
<1>11. Arrives(D, V, capacity, w, n)
  BY <1>1, <1>8, <1>9, <1>10 DEF Arrives, q
<1>12. Walk(D, capacity)[w] = q[n]
  BY <1>2, <1>5, <1>11, WalkEnds DEF q
<1>13. w \in 0 .. (capacity - 1)
  BY <1>5, <1>8 DEF V
<1>. QED  BY <1>4, <1>9, <1>12, <1>13

-----------------------------------------------------------------------------
(* The digits of a number in base Base. *)
LEMMA BaseIs == Base \in Nat /\ Base > 0
  BY CodeAssumption

(* Remaining satisfies its equation. *)
LEMMA RemainingIs ==
    ASSUME NEW value \in Nat
    PROVE  /\ Remaining(value) \in [Nat -> Nat]
           /\ Remaining(value)[0] = value
           /\ \A n \in Nat : Remaining(value)[n + 1] = Remaining(value)[n] \div Base
<1> DEFINE g == [n \in Nat |-> [v \in Nat |-> v \div Base]]
           rest == Remaining(value)
<1>1. g \in Turns(Nat, Nat)
  BY BaseIs, DivMod DEF Turns
<1>2. PICK h : h \in Loops(Nat, Nat, value, g)
  <2> HIDE DEF g
  <2>. QED  BY <1>1, Recursion
<1>3. h \in [Nat -> Nat] /\ \A n \in Nat : h[n] = IF n = 0 THEN value ELSE g[n][h[n - 1]]
  BY <1>2 DEF Loops
<1>4. h = [n \in Nat |-> IF n = 0 THEN value ELSE h[n - 1] \div Base]
  <2>1. \A n \in Nat \ {0} : g[n][h[n - 1]] = h[n - 1] \div Base
    BY <1>3
  <2> HIDE DEF g
  <2>. QED  BY <1>3, <2>1
<1>5. rest = [n \in Nat |-> IF n = 0 THEN value ELSE rest[n - 1] \div Base]
  BY <1>4 DEF Remaining
<1> HIDE DEF rest, g
<1>6. rest[0] = value
  BY <1>5
<1>7. ASSUME NEW n \in Nat  PROVE rest[n + 1] = rest[n] \div Base
  <2> DEFINE m == n + 1
  <2>1. m \in Nat /\ m # 0 /\ m - 1 = n
    OBVIOUS
  <2> HIDE DEF m
  <2>2. rest[m] = rest[m - 1] \div Base
    BY <1>5, <2>1
  <2>. QED  BY <2>1, <2>2 DEF m
<1> DEFINE S == {n \in Nat : rest[n] \in Nat}
<1>8. 0 \in S
  BY <1>6
<1>9. ASSUME NEW n \in Nat, n \in S  PROVE n + 1 \in S
  <2>1. rest[n] \div Base \in Nat
    BY <1>9, BaseIs, DivMod
  <2>. QED  BY <1>7, <2>1
<1> HIDE DEF S
<1>10. \A n \in Nat : n \in S
  BY <1>8, <1>9, Induction
<1>11. rest \in [Nat -> Nat]
  BY <1>5, <1>10 DEF S
<1>. QED  BY <1>6, <1>7, <1>11 DEF rest

(* The codes of length l that can be read. *)
Codes(l) == [1 .. l -> 0 .. (Base - 1)]

(* Codes are sequences of their length. *)
LEMMA CodeLength ==
    ASSUME NEW l \in Nat, NEW code \in Codes(l)
    PROVE  Len(code) = l
<1>1. DOMAIN code = 1 .. l
  BY DEF Codes
<1>2. code \in Seq(0 .. (Base - 1))
  BY SeqDef DEF Codes
<1>3. Len(code) \in Nat /\ DOMAIN code = 1 .. Len(code)
  BY <1>2, LenProperties
<1>. QED  BY <1>1, <1>3

(* PublicRank satisfies its equation. *)
LEMMA PublicRankIs ==
    ASSUME NEW l \in Nat, NEW code \in Codes(l)
    PROVE  /\ PublicRank(code) \in [0 .. l -> Nat]
           /\ PublicRank(code)[0] = 0
           /\ \A n \in 1 .. l : PublicRank(code)[n] = PublicRank(code)[n - 1] * Base + code[n]
<1>0. /\ \A n \in 1 .. l : code[n] \in Nat
      /\ Len(code) = l
      /\ Base \in Nat
  BY CodeLength, BaseIs DEF Codes
<1> DEFINE g == [n \in 0 .. l |-> [v \in Nat |-> IF n = 0 THEN v ELSE v * Base + code[n]]]
           rank == PublicRank(code)
<1>1. g \in Turns(0 .. l, Nat)
  <2>1. ASSUME NEW n \in 0 .. l, NEW v \in Nat
        PROVE  (IF n = 0 THEN v ELSE v * Base + code[n]) \in Nat
    <3>1. CASE n # 0
      <4>1. code[n] \in Nat /\ v * Base \in Nat
        BY <1>0, <3>1
      <4>. QED  BY <3>1, <4>1
    <3>. QED  BY <3>1
  <2>. QED  BY <2>1 DEF Turns
<1>2. PICK h : h \in Loops(0 .. l, Nat, 0, g)
  <2> HIDE DEF g
  <2>. QED  BY <1>1, BoundedRecursion
<1>3. h \in [0 .. l -> Nat] /\ \A n \in 0 .. l : h[n] = IF n = 0 THEN 0 ELSE g[n][h[n - 1]]
  BY <1>2 DEF Loops
<1>4. h = [n \in 0 .. l |-> IF n = 0 THEN 0 ELSE h[n - 1] * Base + code[n]]
  <2>1. \A n \in 1 .. l : g[n][h[n - 1]] = h[n - 1] * Base + code[n]
    BY <1>3
  <2>2. \A n \in 0 .. l : n # 0 => n \in 1 .. l
    OBVIOUS
  <2> HIDE DEF g
  <2>. QED  BY <1>3, <2>1, <2>2
<1>5. rank = [n \in 0 .. l |-> IF n = 0 THEN 0 ELSE rank[n - 1] * Base + code[n]]
  BY <1>0, <1>4 DEF PublicRank
<1> HIDE DEF rank, g
<1>6. rank[0] = 0
  BY <1>5
<1>7. \A n \in 1 .. l : rank[n] = rank[n - 1] * Base + code[n]
  BY <1>5
<1>8. rank \in [0 .. l -> Nat]
  <2>1. rank = [n \in 0 .. l |-> rank[n]]
    BY <1>5
  <2>2. \A n \in 1 .. l : rank[n - 1] \in Nat => rank[n] \in Nat
    <3>1. ASSUME NEW n \in 1 .. l, rank[n - 1] \in Nat  PROVE rank[n] \in Nat
      <4>1. rank[n - 1] * Base \in Nat
        BY <1>0, <3>1
      <4>. QED  BY <1>0, <1>7, <4>1
    <3>. QED  BY <3>1
  <2>3. rank[0] \in Nat
    BY <1>6
  <2>. QED  BY <2>1, <2>2, <2>3, LoopTyped
<1>. QED  BY <1>6, <1>7, <1>8 DEF rank

(* Reading the digits that were written of a rank gives the rank. *)
LEMMA DigitsUndone ==
    ASSUME NEW l \in Nat, NEW rank \in 0 .. (Power(Base)[l] - 1),
           NEW code, code = [slot \in 1 .. l |-> Remaining(rank)[l - slot] % Base]
    PROVE  code \in Codes(l) /\ PublicRank(code)[l] = rank
<1> DEFINE rest == Remaining(rank)
           read == PublicRank(code)
           P == Power(Base)
<1>0. /\ Base \in Nat /\ Base > 0
      /\ P[0] = 1
      /\ \A n \in Nat : P[n] \in Nat /\ P[n + 1] = Base * P[n]
  BY BaseIs, PowerIs
<1>1. rank \in Nat
  BY <1>0
<1>2. rest \in [Nat -> Nat] /\ rest[0] = rank /\ \A n \in Nat : rest[n + 1] = rest[n] \div Base
  BY <1>1, RemainingIs
<1> HIDE DEF rest
<1>3. code \in Codes(l)
  <2>1. ASSUME NEW slot \in 1 .. l  PROVE rest[l - slot] % Base \in 0 .. (Base - 1)
    <3>1. l - slot \in Nat
      OBVIOUS
    <3>. QED  BY <1>0, <1>2, <3>1, DivMod
  <2>. QED  BY <2>1 DEF Codes, rest
<1>4. /\ read[0] = 0
      /\ \A n \in 1 .. l : read[n] = read[n - 1] * Base + code[n]
  BY <1>3, PublicRankIs
<1> HIDE DEF read, P
<1>5. rest[l] = 0
  <2> DEFINE S == {j \in Nat : j <= l => rest[j] \in 0 .. (P[l - j] - 1)}
  <2>1. 0 \in S
    <3>1. l - 0 = l /\ rest[0] \in 0 .. (P[l] - 1)
      BY <1>2 DEF P
    <3>. QED  BY <3>1
  <2>2. ASSUME NEW j \in Nat, j \in S  PROVE j + 1 \in S
    <3>1. ASSUME j + 1 <= l  PROVE rest[j + 1] \in 0 .. (P[l - (j + 1)] - 1)
      <4> DEFINE k == l - (j + 1)
      <4>1. k \in Nat /\ k + 1 = l - j /\ j <= l
        BY <3>1
      <4>2. P[l - j] = Base * P[k] /\ P[k] \in Nat
        BY <1>0, <4>1
      <4> HIDE DEF k
      <4>3. rest[j] \in 0 .. (Base * P[k] - 1)
        BY <2>2, <4>1, <4>2
      <4>4. rest[j] \div Base \in 0 .. (P[k] - 1)
        BY <1>0, <4>2, <4>3, QuotientBound
      <4>. QED  BY <1>2, <4>4 DEF k
    <3>. QED  BY <3>1
  <2> HIDE DEF S
  <2>3. \A j \in Nat : j \in S
    BY <2>1, <2>2, Induction
  <2>4. rest[l] \in 0 .. (P[l - l] - 1)
    BY <2>3 DEF S
  <2>5. l - l = 0
    OBVIOUS
  <2>6. rest[l] \in 0 .. (1 - 1)
    BY <1>0, <2>4, <2>5
  <2>. QED  BY <2>6
<1> DEFINE S == {n \in Nat : n <= l => read[n] = rest[l - n]}
<1>6. 0 \in S
  BY <1>4, <1>5
<1>7. ASSUME NEW n \in Nat, n \in S  PROVE n + 1 \in S
  <2>1. ASSUME n + 1 <= l  PROVE read[n + 1] = rest[l - (n + 1)]
    <3> DEFINE k == l - (n + 1)
    <3>1. k \in Nat /\ k + 1 = l - n /\ n <= l /\ n + 1 \in 1 .. l /\ (n + 1) - 1 = n
      BY <2>1
    <3>2. read[n] = rest[k] \div Base
      BY <1>2, <1>7, <3>1
    <3>3. code[n + 1] = rest[k] % Base
      BY <3>1 DEF rest
    <3>4. read[n + 1] = read[n] * Base + code[n + 1]
      BY <1>4, <3>1
    <3> HIDE DEF k
    <3>5. rest[k] = (rest[k] \div Base) * Base + (rest[k] % Base)
      BY <1>0, <1>2, <3>1, DivMod
    <3>. QED  BY <3>2, <3>3, <3>4, <3>5 DEF k
  <2>. QED  BY <2>1
<1> HIDE DEF S
<1>8. \A n \in Nat : n \in S
  BY <1>6, <1>7, Induction
<1>9. read[l] = rest[l - l]
  BY <1>8 DEF S
<1>. QED  BY <1>2, <1>3, <1>9 DEF read

(* What is read from a code is a rank of its tier, and writing its digits  *)
(* gives the code.                                                         *)
LEMMA RankUndone ==
    ASSUME NEW l \in Nat, NEW code \in Codes(l)
    PROVE  /\ PublicRank(code)[l] \in 0 .. (Power(Base)[l] - 1)
           /\ [slot \in 1 .. l |-> Remaining(PublicRank(code)[l])[l - slot] % Base] = code
<1> DEFINE read == PublicRank(code)
           rest == Remaining(read[l])
           P == Power(Base)
<1>0. /\ Base \in Nat /\ Base > 0
      /\ P[0] = 1
      /\ \A n \in Nat : P[n] \in Nat /\ P[n + 1] = Base * P[n]
  BY BaseIs, PowerIs
<1>1. /\ read \in [0 .. l -> Nat]
      /\ read[0] = 0
      /\ \A n \in 1 .. l : read[n] = read[n - 1] * Base + code[n]
  BY PublicRankIs
<1> HIDE DEF read, P
<1>2. read[l] \in Nat
  BY <1>1
<1>3. rest \in [Nat -> Nat] /\ rest[0] = read[l] /\ \A n \in Nat : rest[n + 1] = rest[n] \div Base
  BY <1>2, RemainingIs
<1>4. \A n \in 1 .. l : code[n] \in 0 .. (Base - 1)
  BY DEF Codes
<1> HIDE DEF rest
<1>5. read[l] \in 0 .. (P[l] - 1)
  <2> DEFINE S == {n \in Nat : n <= l => read[n] \in 0 .. (P[n] - 1)}
  <2>1. 0 \in S
    <3>1. P[0] - 1 = 0 /\ read[0] = 0
      BY <1>0, <1>1
    <3>. QED  BY <3>1
  <2>2. ASSUME NEW n \in Nat, n \in S  PROVE n + 1 \in S
    <3>1. ASSUME n + 1 <= l  PROVE read[n + 1] \in 0 .. (P[n + 1] - 1)
      <4>1. n + 1 \in 1 .. l /\ (n + 1) - 1 = n /\ n <= l
        BY <3>1
      <4>2. read[n + 1] = read[n] * Base + code[n + 1] /\ code[n + 1] \in 0 .. (Base - 1)
        BY <1>1, <1>4, <4>1
      <4>3. read[n] \in 0 .. (P[n] - 1) /\ P[n] \in Nat /\ P[n + 1] = Base * P[n]
        BY <1>0, <2>2, <4>1
      <4>4. read[n] * Base + code[n + 1] \in 0 .. (Base * P[n] - 1)
        BY <1>0, <4>2, <4>3, ProductBound
      <4>. QED  BY <4>2, <4>3, <4>4
    <3>. QED  BY <3>1
  <2> HIDE DEF S
  <2>3. \A n \in Nat : n \in S
    BY <2>1, <2>2, Induction
  <2>. QED  BY <2>3 DEF S
<1>6. \A n \in 1 .. l : /\ read[n] \div Base = read[n - 1]
                        /\ read[n] % Base = code[n]
  <2>1. ASSUME NEW n \in 1 .. l
        PROVE  read[n] \div Base = read[n - 1] /\ read[n] % Base = code[n]
    <3>1. n - 1 \in 0 .. l
      OBVIOUS
    <3>2. read[n - 1] \in Nat /\ code[n] \in 0 .. (Base - 1)
      BY <1>1, <1>4, <3>1
    <3>3. read[n] = read[n - 1] * Base + code[n]
      BY <1>1
    <3>4. read[n - 1] \in Nat /\ Base \in Nat /\ Base > 0
      BY <1>0, <3>2
    <3>5. /\ (read[n - 1] * Base + code[n]) \div Base = read[n - 1]
          /\ (read[n - 1] * Base + code[n]) % Base = code[n]
      BY <3>2, <3>4, DivMod
    <3>. QED  BY <3>3, <3>5
  <2>. QED  BY <2>1
<1> DEFINE S == {j \in Nat : j <= l => rest[j] = read[l - j]}
<1>7. 0 \in S
  BY <1>3
<1>8. ASSUME NEW j \in Nat, j \in S  PROVE j + 1 \in S
  <2>1. ASSUME j + 1 <= l  PROVE rest[j + 1] = read[l - (j + 1)]
    <3>1. l - j \in 1 .. l /\ (l - j) - 1 = l - (j + 1) /\ j <= l
      BY <2>1
    <3>2. rest[j] = read[l - j]
      BY <1>8, <3>1
    <3>. QED  BY <1>3, <1>6, <3>1, <3>2
  <2>. QED  BY <2>1
<1> HIDE DEF S
<1>9. \A j \in Nat : j \in S
  BY <1>7, <1>8, Induction
<1>10. ASSUME NEW slot \in 1 .. l  PROVE rest[l - slot] % Base = code[slot]
  <2>1. l - slot \in Nat /\ l - slot <= l /\ l - (l - slot) = slot
    OBVIOUS
  <2>2. rest[l - slot] = read[slot]
    BY <1>9, <2>1 DEF S
  <2>. QED  BY <1>6, <2>2
<1>11. code = [slot \in 1 .. l |-> code[slot]]
  BY DEF Codes
<1>12. [slot \in 1 .. l |-> rest[l - slot] % Base] = code
  BY <1>10, <1>11
<1>. QED  BY <1>5, <1>12 DEF rest, read, P

-----------------------------------------------------------------------------
(* What CodeAssumption says of a tier. *)
LEMMA TierIs ==
    ASSUME NEW l \in CodeLengths
    PROVE  /\ l \in Nat
           /\ TierCapacity(l) = Capacity[l] /\ Ids(l) = 0 .. (TierCapacity(l) - 1)
           /\ TierCapacity(l) \in Nat /\ TierCapacity(l) > 0
           /\ TierCapacity(l) <= Half(l) * Half(l)
           /\ Half(l) * Half(l) \in Nat
<1>1. Half(l) \in Nat
  BY CodeAssumption, HalfPositive
<1>2. Capacity[l] = TierCapacity(l) /\ Capacity[l] <= Half(l) * Half(l)
  BY CodeAssumption
<1>. QED  BY <1>1, <1>2, CapacityNat DEF Ids

(* Permuting an id stays in the tier and inverting it comes back, in both  *)
(* orders.                                                                 *)
LEMMA PermutationUndone ==
    ASSUME NEW l \in CodeLengths, NEW f, IsRoundFunction(f, l), NEW id \in Ids(l)
    PROVE  /\ PermuteLocalId(f, l, id) \in Ids(l)
           /\ InvertPermutedLocalId(f, l, PermuteLocalId(f, l, id)) = id
           /\ InvertPermutedLocalId(f, l, id) \in Ids(l)
           /\ PermuteLocalId(f, l, InvertPermutedLocalId(f, l, id)) = id
<1> DEFINE E == FeistelEncrypt(f, l)
           D == FeistelDecrypt(f, l)
           N == Half(l) * Half(l)
           capacity == TierCapacity(l)
<1>1. Rounds \in Nat
  BY CodeAssumption
<1>2. Undoes(D, E, 0 .. (N - 1)) /\ Undoes(E, D, 0 .. (N - 1))
  BY <1>1, FeistelUndone DEF Undoes, Values
<1>3. N \in Nat /\ capacity \in Nat /\ capacity <= N /\ Ids(l) = 0 .. (capacity - 1)
  BY TierIs
<1> HIDE DEF E, D, N, capacity
<1>4. Walk(E, capacity)[id] \in 0 .. (capacity - 1) /\ Walk(D, capacity)[Walk(E, capacity)[id]] = id
  BY <1>2, <1>3, WalkUndone
<1>5. Walk(D, capacity)[id] \in 0 .. (capacity - 1) /\ Walk(E, capacity)[Walk(D, capacity)[id]] = id
  BY <1>2, <1>3, WalkUndone
<1>. QED
  BY <1>3, <1>4, <1>5 DEF PermuteLocalId, InvertPermutedLocalId, E, D, capacity

(* The code of an id has the length of its tier, can be read, and is       *)
(* decoded to the id.                                                      *)
THEOREM EncodeDecode ==
    ASSUME NEW l \in CodeLengths, NEW f, IsRoundFunction(f, l), NEW id \in Ids(l)
    PROVE  /\ EncodeLocalId(f, l, id) \in Codes(l)
           /\ DecodeRoomId(f, EncodeLocalId(f, l, id)) = id
<1> DEFINE code == EncodeLocalId(f, l, id)
           rank == PermuteLocalId(f, l, id)
<1>0. l \in Nat /\ Ids(l) = 0 .. (Power(Base)[l] - 1)
  BY TierIs DEF TierCapacity
<1>1. rank \in Ids(l) /\ InvertPermutedLocalId(f, l, rank) = id
  BY PermutationUndone
<1>2. code = [slot \in 1 .. l |-> Remaining(rank)[l - slot] % Base]
  BY DEF EncodeLocalId
<1> HIDE DEF code, rank
<1>3. code \in Codes(l) /\ PublicRank(code)[l] = rank
  BY <1>0, <1>1, <1>2, DigitsUndone
<1>4. Len(code) = l
  BY <1>0, <1>3, CodeLength
<1>. QED  BY <1>1, <1>3, <1>4 DEF DecodeRoomId, code

(* Every code that can be read names an id of its tier, of which it is the *)
(* code.                                                                   *)
THEOREM DecodeEncode ==
    ASSUME NEW l \in CodeLengths, NEW f, IsRoundFunction(f, l), NEW code \in Codes(l)
    PROVE  /\ DecodeRoomId(f, code) \in Ids(l)
           /\ EncodeLocalId(f, l, DecodeRoomId(f, code)) = code
<1> DEFINE rank == PublicRank(code)[l]
           id == InvertPermutedLocalId(f, l, rank)
<1>0. l \in Nat /\ Ids(l) = 0 .. (Power(Base)[l] - 1)
  BY TierIs DEF TierCapacity
<1>1. rank \in Ids(l) /\ [slot \in 1 .. l |-> Remaining(rank)[l - slot] % Base] = code
  BY <1>0, RankUndone
<1>2. DecodeRoomId(f, code) = id
  BY <1>0, CodeLength DEF DecodeRoomId
<1> HIDE DEF rank
<1>3. id \in Ids(l) /\ PermuteLocalId(f, l, id) = rank
  BY <1>1, PermutationUndone
<1>. QED  BY <1>1, <1>2, <1>3 DEF EncodeLocalId

-----------------------------------------------------------------------------
(* A string that can be read is a code of its length. *)
LEMMA ReadableCode ==
    ASSUME NEW code \in Strings, Readable(code)
    PROVE  Len(code) \in CodeLengths /\ code \in Codes(Len(code))
<1>1. PICK l \in Nat : code \in [1 .. l -> 0 .. Base]
  <2>1. CASE code = <<>>
    <3>1. code \in [1 .. 0 -> 0 .. Base]
      BY <2>1
    <3>. QED  BY <3>1
  <2>2. CASE code # <<>>
    BY <2>2, AllocatorAssumption DEF Strings
  <2>. QED  BY <2>1, <2>2
<1>2. code \in Seq(0 .. Base)
  BY <1>1, SeqDef
<1>3. Len(code) \in Nat /\ code \in [1 .. Len(code) -> 0 .. Base]
  BY <1>2, LenProperties
<1>4. \A i \in 1 .. Len(code) : code[i] \in 0 .. (Base - 1)
  BY <1>3, BaseIs DEF Readable
<1>. QED  BY <1>3, <1>4 DEF Readable, Codes

(* The rounds of every tier are those of a round function. *)
LEMMA RoundFunctionIs ==
    ASSUME rounds \in RoundFunctions, NEW l \in CodeLengths
    PROVE  IsRoundFunction(rounds[l], l)
  BY CodeAssumption DEF IsRoundFunction, Halves

(* A step of the allocator as its callers see it is one of the allocator:  *)
(* giving back a code is giving back the id it names, and what cannot be   *)
(* read is no id.                                                          *)
LEMMA CodedStep == CodedNext /\ rounds \in RoundFunctions => Next
<1> SUFFICES ASSUME CodedNext, rounds \in RoundFunctions
             PROVE  Next
  OBVIOUS
<1>0. \A l \in CodeLengths : Capacity[l] \in Nat /\ Capacity[l] \in 0 .. Capacity[l]
  BY CapacityNat
<1>1. ASSUME NEW l \in CodeLengths, AllocateCode(l)  PROVE Next
  BY <1>1 DEF AllocateCode, Next
<1>2. CASE AllocateNone \/ \E l \in CodeLengths : FreeInvalid(l, Capacity[l])
  BY <1>0, <1>2 DEF Next
<1>3. ASSUME NEW code \in Strings, FreeUnreadable(code)  PROVE Next
  <2>1. PICK l : l \in CodeLengths
    BY CodeAssumption
  <2>2. FreeInvalid(l, Capacity[l])
    BY <1>0, <1>3, <2>1 DEF FreeUnreadable, FreeInvalid
  <2>. QED  BY <1>0, <2>1, <2>2 DEF Next
<1>4. ASSUME NEW code \in Strings, FreeCode(code)  PROVE Next
  <2> DEFINE l == Len(code)
             id == DecodeRoomId(rounds[l], code)
  <2>1. l \in CodeLengths /\ code \in Codes(l)
    BY <1>4, ReadableCode DEF FreeCode
  <2>2. id \in Ids(l)
    BY <2>1, RoundFunctionIs, DecodeEncode
  <2>3. id \in 0 .. Capacity[l]
    BY <1>0, <2>1, <2>2 DEF Ids
  <2>4. Free(l, id) \/ FreeAgain(l, id)
    BY <1>4 DEF FreeCode
  <2> HIDE DEF l, id
  <2>. QED  BY <2>1, <2>3, <2>4 DEF Next
<1>. QED  BY <1>1, <1>2, <1>3, <1>4 DEF CodedNext

-----------------------------------------------------------------------------
(* The ids of a tier that are given out. *)
Taken(l) == Ids(l) \ FreeIds(intervals[l])

(* The codes that people hold are exactly the codes of the ids that are    *)
(* taken.                                                                  *)
CodedInv ==
    /\ IInv
    /\ rounds \in RoundFunctions
    /\ \A code \in held : \E l \in CodeLengths : \E id \in Taken(l) :
         code = EncodeLocalId(rounds[l], l, id)
    /\ \A l \in CodeLengths : \A id \in Taken(l) : EncodeLocalId(rounds[l], l, id) \in held

(* At first no id is taken and no code is held. *)
LEMMA CodedInvInit == CodedInit => CodedInv
<1> SUFFICES ASSUME CodedInit
             PROVE  CodedInv
  OBVIOUS
<1>1. IInv
  BY InvInit DEF CodedInit
<1>2. \A l \in CodeLengths : Taken(l) = {}
  BY SeedTierIds DEF CodedInit, Init, Taken
<1>. QED  BY <1>1, <1>2 DEF CodedInv, CodedInit

(* One code for one id: codes of two ids, of one tier or two, differ.      *)
LEMMA CodesDiffer ==
    ASSUME rounds \in RoundFunctions,
           NEW k \in CodeLengths, NEW l \in CodeLengths, NEW i \in Ids(k), NEW j \in Ids(l),
           EncodeLocalId(rounds[k], k, i) = EncodeLocalId(rounds[l], l, j)
    PROVE  k = l /\ i = j
<1> DEFINE code == EncodeLocalId(rounds[k], k, i)
<1>1. k \in Nat /\ l \in Nat
  BY TierIs
<1>2. code \in Codes(k) /\ code \in Codes(l)
  BY RoundFunctionIs, EncodeDecode
<1>3. k = l
  <2> HIDE DEF code
  <2>. QED  BY <1>1, <1>2, CodeLength
<1>4. DecodeRoomId(rounds[k], code) = i /\ DecodeRoomId(rounds[l], code) = j
  BY RoundFunctionIs, EncodeDecode
<1>. QED  BY <1>3, <1>4

(* allocate() adds the code of the id that it takes, and giving back a     *)
(* code that can be read removes the code of the id that becomes free and  *)
(* no other.                                                               *)
LEMMA CodedInvNext == CodedInv /\ [CodedNext]_codedVars => CodedInv'
<1> SUFFICES ASSUME CodedInv, [CodedNext]_codedVars
             PROVE  CodedInv'
  OBVIOUS
<1> DEFINE Code(l, id) == EncodeLocalId(rounds[l], l, id)
<1>0. /\ IInv /\ rounds \in RoundFunctions
      /\ \A code \in held : \E l \in CodeLengths : \E id \in Taken(l) : code = Code(l, id)
      /\ \A l \in CodeLengths : \A id \in Taken(l) : Code(l, id) \in held
      /\ \A l \in CodeLengths : Taken(l) \subseteq Ids(l)
  BY DEF CodedInv, Taken
<1>1. IInv'
  <2>1. [Next]_vars
    BY <1>0, CodedStep DEF codedVars
  <2>. QED  BY <1>0, <2>1, InvNext
<1>2. rounds' = rounds
  BY DEF CodedNext, AllocateCode, FreeUnreadable, FreeCode, codedVars
<1>3. intervals = [l \in CodeLengths |-> intervals[l]]
  BY <1>0 DEF IInv, TypeOK
<1>4. ASSUME UNCHANGED <<intervals, held>>  PROVE CodedInv'
  <2>1. \A l : Taken(l)' = Taken(l)
    BY <1>4 DEF Taken, Ids
  <2>. QED  BY <1>0, <1>1, <1>2, <1>4, <2>1 DEF CodedInv
<1>5. ASSUME NEW l \in CodeLengths, AllocateCode(l)  PROVE CodedInv'
  <2>1. PICK start \in First(intervals[l]) :
          /\ intervals' = [intervals EXCEPT ![l] = TakeFirst(@, start)]
          /\ reply' = Pool!Allocated(l, start)
    BY <1>5 DEF AllocateCode, Allocate
  <2>2. FreeIds(intervals'[l]) = FreeIds(intervals[l]) \ {start}
    BY <1>0, <1>3, <2>1, AllocateTier
  <2>3. start \in Ids(l)
    BY <1>0, <2>1 DEF First, IInv, TypeOK
  <2>4. Taken(l)' = Taken(l) \cup {start}
    BY <2>2, <2>3 DEF Taken, Ids
  <2>5. \A k \in CodeLengths : k # l => Taken(k)' = Taken(k)
    BY <1>3, <2>1 DEF Taken, Ids
  <2>6. held' = held \cup {Code(l, start)}
    BY <1>5, <2>1 DEF AllocateCode, Pool!Allocated
  <2> HIDE DEF Code
  <2>7. ASSUME NEW code \in held'
        PROVE  \E k \in CodeLengths : \E id \in Taken(k)' : code = Code(k, id)
    BY <1>0, <2>4, <2>5, <2>6
  <2>8. ASSUME NEW k \in CodeLengths, NEW id \in Taken(k)'  PROVE Code(k, id) \in held'
    BY <1>0, <2>4, <2>5, <2>6
  <2>. QED  BY <1>0, <1>1, <1>2, <2>7, <2>8 DEF CodedInv, Code
<1>6. ASSUME NEW code \in Strings, FreeCode(code)  PROVE CodedInv'
  <2> DEFINE l == Len(code)
             id == DecodeRoomId(rounds[l], code)
  <2>1. l \in CodeLengths /\ code \in Codes(l)
    BY <1>6, ReadableCode DEF FreeCode
  <2>2. id \in Ids(l) /\ Code(l, id) = code
    BY <1>0, <2>1, RoundFunctionIs, DecodeEncode
  <2>3. Free(l, id) \/ FreeAgain(l, id)
    BY <1>6 DEF FreeCode
  <2>4. held' = held \ {code}
    BY <1>6 DEF FreeCode
  <2> HIDE DEF l, id
  <2>5. id \in Nat /\ id < Capacity[l]
    BY <2>1, <2>2, CapacityNat DEF Ids
  <2>6. /\ FreeIds(intervals'[l]) = FreeIds(intervals[l]) \cup {id}
        /\ \A k \in CodeLengths : k # l => intervals'[k] = intervals[k]
    <3>1. CASE Free(l, id)
      <4>1. id \notin FreeIds(intervals[l])
        BY <1>0, <2>1, <2>5, <3>1, FreeTier DEF Free
      <4>. QED  BY <1>0, <1>3, <2>1, <2>5, <3>1, <4>1, FreeTier DEF Free
    <3>2. CASE FreeAgain(l, id)
      BY <1>0, <2>1, <2>5, <3>2, FreeTier DEF FreeAgain
    <3>. QED  BY <2>3, <3>1, <3>2
  <2>7. /\ Taken(l)' = Taken(l) \ {id}
        /\ \A k \in CodeLengths : k # l => Taken(k)' = Taken(k)
    BY <2>6 DEF Taken, Ids
  <2>8. ASSUME NEW k \in CodeLengths, NEW j \in Ids(k), Code(k, j) = code
        PROVE  k = l /\ j = id
    BY <1>0, <2>1, <2>2, <2>8, CodesDiffer
  <2> HIDE DEF Code
  <2>9. ASSUME NEW d \in held'
        PROVE  \E k \in CodeLengths : \E j \in Taken(k)' : d = Code(k, j)
    <3>1. d \in held /\ d # code
      BY <2>4
    <3>2. PICK k \in CodeLengths : \E j \in Taken(k) : d = Code(k, j)
      BY <1>0, <3>1
    <3>3. PICK j \in Taken(k) : d = Code(k, j)
      BY <3>2
    <3>4. ~ (k = l /\ j = id)
      BY <2>2, <3>1, <3>3
    <3>. QED  BY <2>7, <3>3, <3>4
  <2>10. ASSUME NEW k \in CodeLengths, NEW j \in Taken(k)'  PROVE Code(k, j) \in held'
    <3>1. j \in Taken(k) /\ ~ (k = l /\ j = id)
      BY <2>7
    <3>2. Code(k, j) \in held /\ j \in Ids(k)
      BY <1>0, <3>1
    <3>. QED  BY <2>4, <2>8, <3>1, <3>2
  <2>. QED  BY <1>0, <1>1, <1>2, <2>9, <2>10 DEF CodedInv, Code
<1>7. CASE UNCHANGED codedVars
  BY <1>4, <1>7 DEF codedVars, vars
<1>8. CASE /\ AllocateNone \/ \E l \in CodeLengths : FreeInvalid(l, Capacity[l])
           /\ UNCHANGED <<rounds, held>>
  BY <1>4, <1>8 DEF AllocateNone, FreeInvalid
<1>9. ASSUME NEW code \in Strings, FreeUnreadable(code)  PROVE CodedInv'
  BY <1>4, <1>9 DEF FreeUnreadable
<1>. QED  BY <1>5, <1>6, <1>7, <1>8, <1>9 DEF CodedNext

(* The allocator as its callers see it is the allocator: TypeOK, Canonical *)
(* and ImplementsPool hold of it too.                                      *)
THEOREM CodedImplements == CodedSpec => Spec
<1>1. CodedInit => Init
  BY DEF CodedInit
<1>2. CodedInv /\ [CodedNext]_codedVars => [Next]_vars
  BY CodedStep DEF CodedInv, codedVars
<1>. QED  BY <1>1, <1>2, CodedInvInit, CodedInvNext, PTL DEF CodedSpec, Spec

(* For all code lengths, bases, round functions and numbers of rounds, and *)
(* after any calls: the codes that people hold are the ids that are taken, *)
(* one for one, and decoding undoes encoding.                              *)
THEOREM CodesNameTheirIdsAlways == CodedSpec => []CodesNameTheirIds
<1>1. ASSUME CodedInv  PROVE CodesNameTheirIds
  <2>1. ASSUME NEW l \in CodeLengths
        PROVE  LET codes == {code \in held : Len(code) = l}
                   Named(code) == DecodeRoomId(rounds[l], code)
               IN  /\ {Named(code) : code \in codes} = Ids(l) \ FreeIds(intervals[l])
                   /\ \A c, d \in codes : Named(c) = Named(d) => c = d
    <3> DEFINE codes == {code \in held : Len(code) = l}
               Named(code) == DecodeRoomId(rounds[l], code)
               Code(id) == EncodeLocalId(rounds[l], l, id)
    <3>1. ASSUME NEW id \in Ids(l)  PROVE Len(Code(id)) = l /\ Named(Code(id)) = id
      <4>1. Code(id) \in Codes(l) /\ Named(Code(id)) = id
        BY <1>1, RoundFunctionIs, EncodeDecode DEF CodedInv
      <4>2. l \in Nat
        BY TierIs
      <4> HIDE DEF Code, Named
      <4>. QED  BY <4>1, <4>2, CodeLength
    <3>2. ASSUME NEW code \in codes  PROVE \E id \in Taken(l) : code = Code(id)
      <4>1. PICK k \in CodeLengths : \E id \in Taken(k) : code = EncodeLocalId(rounds[k], k, id)
        BY <1>1, <3>2 DEF CodedInv
      <4>2. PICK id \in Taken(k) : code = EncodeLocalId(rounds[k], k, id)
        BY <4>1
      <4>3. id \in Ids(k) /\ k \in Nat
        BY TierIs DEF Taken
      <4>4. code \in Codes(k)
        BY <1>1, <4>2, <4>3, RoundFunctionIs, EncodeDecode DEF CodedInv
      <4>5. k = l
        BY <3>2, <4>3, <4>4, CodeLength
      <4>. QED  BY <4>2, <4>5
    <3>3. ASSUME NEW id \in Taken(l)  PROVE Code(id) \in codes
      <4>1. Code(id) \in held
        BY <1>1 DEF CodedInv
      <4>2. id \in Ids(l)
        BY DEF Taken
      <4>. QED  BY <3>1, <4>1, <4>2
    <3>4. Taken(l) \subseteq Ids(l)
      BY DEF Taken
    <3> HIDE DEF Code, Named, codes
    <3>5. {Named(code) : code \in codes} = Taken(l)
      BY <3>1, <3>2, <3>3, <3>4
    <3>6. \A c, d \in codes : Named(c) = Named(d) => c = d
      BY <3>1, <3>2, <3>4
    <3>. QED  BY <3>5, <3>6 DEF Taken, Named, codes
  <2>. QED  BY <2>1 DEF CodesNameTheirIds
<1>. QED  BY <1>1, CodedInvInit, CodedInvNext, PTL DEF CodedSpec
=============================================================================
