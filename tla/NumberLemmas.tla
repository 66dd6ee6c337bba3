--------------------------- MODULE NumberLemmas -------------------------------
(***************************************************************************)
(* Lemmas about numbers that the proofs of the allocators share:           *)
(* induction, loops and recursive functions, quotients and remainders,     *)
(* paths of permutations, and the operations of Intervals on a tier that   *)
(* satisfies the invariants of docs/redis_allocator.md.                    *)
(*                                                                         *)
(* Induction is proved from the fact that the numbers are well founded,    *)
(* for a property that is given as a set: the induction theorems of the    *)
(* library take the property as an operator, which the provers here cannot *)
(* instantiate. That a recursive function exists is proved the same way,   *)
(* from the runs of finitely many turns.                                   *)
(***************************************************************************)
EXTENDS Intervals, TLAPS, WellFoundedInduction, FiniteSetTheorems

(* Numbers are well founded by <: the form that WFMin takes. *)
LEMMA NatWellFounded == IsWellFoundedOn({pair \in Nat \X Nat : pair[1] < pair[2]}, Nat)
  BY NatLessThanWellFounded DEF OpToRel

(* A set of numbers that is not empty has a least one. *)
LEMMA LeastNumber ==
    ASSUME NEW S, S \subseteq Nat, S # {}
    PROVE  \E n \in S : \A m \in S : n <= m
<1> DEFINE R == {pair \in Nat \X Nat : pair[1] < pair[2]}
<1>1. \A n, m \in Nat : <<m, n>> \in R <=> m < n
  OBVIOUS
<1>2. IsWellFoundedOn(R, Nat)
  BY NatWellFounded
<1> HIDE DEF R
<1>3. PICK n \in S : \A m \in S : ~ (<<m, n>> \in R)
  BY <1>2, WFMin
<1>4. \A m \in S : ~ (m < n)
  BY <1>1, <1>3
<1>. QED  BY <1>4

(* Induction, for a property that is given as the set of the numbers that  *)
(* have it.                                                                *)
LEMMA Induction ==
    ASSUME NEW S, 0 \in S, \A n \in Nat : n \in S => n + 1 \in S
    PROVE  \A n \in Nat : n \in S
<1>1. SUFFICES ASSUME Nat \ S # {} PROVE FALSE
  OBVIOUS
<1>2. PICK n \in Nat \ S : \A m \in Nat \ S : n <= m
  BY <1>1, LeastNumber
<1>3. n - 1 \in Nat /\ n - 1 \notin S
  BY <1>2
<1>. QED  BY <1>2, <1>3

-----------------------------------------------------------------------------
(* The runs of n turns of a loop that starts with x: turn k does g[k]. *)
Runs(x, g, n) == {h \in [0 .. n -> UNION {DOMAIN g[k] : k \in Nat}] :
                     h[0] = x /\ \A k \in 1 .. n : h[k] = g[k][h[k - 1]]}

(* However long it is run, a loop does the same on the turns that it       *)
(* takes.                                                                  *)
LEMMA RunsAgree ==
    ASSUME NEW x, NEW g
    PROVE  \A j \in Nat : \A m, n \in Nat : j <= m /\ j <= n =>
               \A h \in Runs(x, g, m), k \in Runs(x, g, n) : h[j] = k[j]
<1> DEFINE S == {j \in Nat : \A m, n \in Nat : j <= m /\ j <= n =>
                     \A h \in Runs(x, g, m), k \in Runs(x, g, n) : h[j] = k[j]}
<1>1. 0 \in S
  BY DEF Runs
<1>2. ASSUME NEW j \in Nat, j \in S  PROVE j + 1 \in S
  <2>1. ASSUME NEW m \in Nat, NEW n \in Nat, j + 1 <= m, j + 1 <= n,
                      NEW h \in Runs(x, g, m), NEW k \in Runs(x, g, n)
        PROVE  h[j + 1] = k[j + 1]
    <3>1. h[j] = k[j]
      BY <1>2, <2>1
    <3>2. j + 1 \in 1 .. m /\ j + 1 \in 1 .. n /\ (j + 1) - 1 = j
      BY <2>1
    <3>3. h[j + 1] = g[j + 1][h[j]] /\ k[j + 1] = g[j + 1][k[j]]
      BY <3>2 DEF Runs
    <3>. QED  BY <3>1, <3>3
  <2>. QED  BY <2>1
<1> HIDE DEF S
<1>3. \A j \in Nat : j \in S
  BY <1>1, <1>2, Induction
<1>. QED  BY <1>3 DEF S

(* A loop whose every turn takes values of D to values of D can be run for *)
(* n turns.                                                                *)
LEMMA RunsExist ==
    ASSUME NEW D, NEW x \in D, NEW g \in [Nat -> [D -> D]]
    PROVE  \A n \in Nat : \E h : h \in Runs(x, g, n)
<1>0. UNION {DOMAIN g[k] : k \in Nat} = D
  OBVIOUS
<1> DEFINE S == {n \in Nat : \E h : h \in Runs(x, g, n)}
<1>1. 0 \in S
  <2>1. [i \in 0 .. 0 |-> x] \in Runs(x, g, 0)
    BY <1>0 DEF Runs
  <2>. QED  BY <2>1
<1>2. ASSUME NEW n \in Nat, n \in S  PROVE n + 1 \in S
  <2>1. PICK h : h \in Runs(x, g, n)
    BY <1>2
  <2> DEFINE more == [i \in 0 .. (n + 1) |-> IF i = n + 1 THEN g[n + 1][h[n]] ELSE h[i]]
  <2>2. /\ h \in [0 .. n -> D] /\ h[0] = x
        /\ \A k \in 1 .. n : h[k] = g[k][h[k - 1]]
    BY <1>0, <2>1 DEF Runs
  <2>3. g[n + 1][h[n]] \in D
    BY <2>2
  <2>4. more \in [0 .. (n + 1) -> D] /\ more[0] = x
    BY <2>2, <2>3
  <2>5. ASSUME NEW k \in 1 .. (n + 1)  PROVE more[k] = g[k][more[k - 1]]
    <3>1. CASE k = n + 1
      BY <2>2, <3>1
    <3>2. CASE k # n + 1
      <4>1. k \in 1 .. n /\ k - 1 \in 0 .. n
        BY <3>2
      <4>. QED  BY <2>2, <4>1
    <3>. QED  BY <3>1, <3>2
  <2> HIDE DEF more
  <2>6. more \in Runs(x, g, n + 1)
    BY <1>0, <2>4, <2>5 DEF Runs
  <2>. QED  BY <2>6
<1> HIDE DEF S
<1>3. \A n \in Nat : n \in S
  BY <1>1, <1>2, Induction
<1>. QED  BY <1>3 DEF S

(* Loops over D whose turn n does g[n], as functions of the number of      *)
(* turns, which is in N.                                                   *)
Turns(N, D) == [N -> [D -> D]]
Loops(N, D, x, g) == {h \in [N -> D] : \A n \in N : h[n] = IF n = 0 THEN x ELSE g[n][h[n - 1]]}

(* The equation of a recursive function of the number of turns has a       *)
(* solution: the function that takes n to the end of the run of n turns.   *)
LEMMA Recursion ==
    ASSUME NEW D, NEW x \in D, NEW g \in Turns(Nat, D)
    PROVE  \E h : h \in Loops(Nat, D, x, g)
<1> USE DEF Turns
<1>0. UNION {DOMAIN g[k] : k \in Nat} = D
  OBVIOUS
<1> DEFINE of == [n \in Nat |-> CHOOSE h : h \in Runs(x, g, n)]
<1>1. \A n \in Nat : of[n] \in Runs(x, g, n)
  BY RunsExist
<1> DEFINE all == [n \in Nat |-> of[n][n]]
<1> HIDE DEF of
<1>2. ASSUME NEW n \in Nat  PROVE all[n] \in D /\ all[n] = IF n = 0 THEN x ELSE g[n][all[n - 1]]
  <2>1. of[n] \in [0 .. n -> D] /\ of[n][0] = x
    BY <1>0, <1>1 DEF Runs
  <2>2. CASE n = 0
    BY <2>1, <2>2
  <2>3. CASE n # 0
    <3>1. n - 1 \in Nat /\ n \in 1 .. n
      BY <2>3
    <3>2. of[n][n - 1] = of[n - 1][n - 1]
      <4>1. of[n - 1] \in Runs(x, g, n - 1) /\ of[n] \in Runs(x, g, n)
        BY <1>1, <3>1
      <4>2. n - 1 <= n /\ n - 1 <= n - 1
        OBVIOUS
      <4>3. \A h \in Runs(x, g, n), k \in Runs(x, g, n - 1) : h[n - 1] = k[n - 1]
        BY <3>1, <4>2, RunsAgree
      <4>. QED  BY <4>1, <4>3
    <3>3. of[n][n] = g[n][of[n][n - 1]]
      BY <1>1, <3>1 DEF Runs
    <3>4. all[n] = of[n][n] /\ all[n - 1] = of[n - 1][n - 1]
      BY <3>1
    <3>5. all[n] = g[n][all[n - 1]]
      BY <3>2, <3>3, <3>4
    <3>6. all[n] \in D
      BY <2>1, <3>1, <3>4
    <3> HIDE DEF all
    <3>. QED  BY <2>3, <3>5, <3>6
  <2>. QED  BY <2>2, <2>3
<1>3. all = [n \in Nat |-> all[n]]
  OBVIOUS
<1> HIDE DEF all
<1>4. all \in [Nat -> D]
  BY <1>2, <1>3
<1>. QED  BY <1>2, <1>4 DEF Loops

(* The same for a loop of R turns. *)
LEMMA BoundedRecursion ==
    ASSUME NEW D, NEW x \in D, NEW R \in Nat, NEW g \in Turns(0 .. R, D)
    PROVE  \E h : h \in Loops(0 .. R, D, x, g)
<1> DEFINE more == [n \in Nat |-> IF n \in 0 .. R THEN g[n] ELSE [d \in D |-> d]]
<1>0. more \in Turns(Nat, D)
  BY DEF Turns
<1>1. \A n \in 1 .. R : more[n] = g[n]
  OBVIOUS
<1> HIDE DEF more
<1>run. PICK h : h \in Loops(Nat, D, x, more)
  BY <1>0, Recursion
<1>2. h \in [Nat -> D] /\ \A n \in Nat : h[n] = IF n = 0 THEN x ELSE more[n][h[n - 1]]
  BY <1>run DEF Loops
<1> DEFINE part == [n \in 0 .. R |-> h[n]]
<1>3. ASSUME NEW n \in 0 .. R  PROVE part[n] = IF n = 0 THEN x ELSE g[n][part[n - 1]]
  <2>1. CASE n = 0
    BY <1>2, <2>1
  <2>2. CASE n # 0
    <3>1. n \in Nat /\ n \in 1 .. R /\ n - 1 \in 0 .. R
      BY <2>2
    <3>2. h[n] = more[n][h[n - 1]]
      BY <1>2, <2>2, <3>1
    <3>. QED  BY <1>1, <2>2, <3>1, <3>2
  <2>. QED  BY <2>1, <2>2
<1>4. part \in [0 .. R -> D]
  BY <1>2
<1> HIDE DEF part
<1>. QED  BY <1>3, <1>4 DEF Loops

(* What every turn keeps in D stays in D. *)
LEMMA LoopTyped ==
    ASSUME NEW D, NEW R \in Nat, NEW h, h = [n \in 0 .. R |-> h[n]], h[0] \in D,
           \A n \in 1 .. R : h[n - 1] \in D => h[n] \in D
    PROVE  h \in [0 .. R -> D]
<1> DEFINE S == {n \in Nat : n <= R => h[n] \in D}
<1>1. 0 \in S
  OBVIOUS
<1>2. ASSUME NEW n \in Nat, n \in S  PROVE n + 1 \in S
  <2>1. CASE n + 1 <= R
    <3>1. n + 1 \in 1 .. R /\ (n + 1) - 1 = n /\ h[n] \in D
      BY <1>2, <2>1
    <3>2. h[n + 1] \in D
      BY <3>1
    <3>. QED  BY <3>2
  <2>. QED  BY <2>1
<1> HIDE DEF S
<1>3. \A n \in Nat : n \in S
  BY <1>1, <1>2, Induction
<1>. QED  BY <1>3 DEF S

-----------------------------------------------------------------------------
(* Quotient and remainder are the only way to write a number. *)
LEMMA DivMod ==
    ASSUME NEW b \in Nat, b > 0
    PROVE  /\ \A n \in Nat : /\ n \div b \in Nat /\ n % b \in 0 .. (b - 1)
                             /\ n = (n \div b) * b + (n % b)
           /\ \A q \in Nat, r \in 0 .. (b - 1) :
                /\ q * b + r \in Nat
                /\ (q * b + r) \div b = q /\ (q * b + r) % b = r
  OBVIOUS

(* The quotient of a number below b * c is below c. *)
LEMMA QuotientBound ==
    ASSUME NEW b \in Nat, b > 0, NEW c \in Nat, NEW n \in 0 .. (b * c - 1)
    PROVE  n \div b \in 0 .. (c - 1)
<1>1. n \in Nat /\ n \div b \in Nat /\ n % b \in Nat /\ n = (n \div b) * b + (n % b)
  BY DivMod
<1> DEFINE q == n \div b
<1> HIDE DEF q
<1>2. q \in Nat /\ q * b <= n /\ n < b * c
  BY <1>1 DEF q
<1>3. q < c
  <2>1. SUFFICES ASSUME q >= c PROVE FALSE
    BY <1>2
  <2>2. q * b >= c * b
    BY <1>2, <2>1
  <2>. QED  BY <1>2, <2>2
<1>. QED  BY <1>2, <1>3 DEF q

(* Every quotient below c and remainder below b make a number below b * c. *)
LEMMA ProductBound ==
    ASSUME NEW b \in Nat, NEW c \in Nat, NEW q \in 0 .. (c - 1), NEW r \in 0 .. (b - 1)
    PROVE  q * b + r \in 0 .. (b * c - 1)
<1>1. (q + 1) * b <= c * b
  OBVIOUS
<1>2. (q + 1) * b = q * b + b /\ c * b = b * c /\ q * b \in Nat
  OBVIOUS
<1>. QED  BY <1>1, <1>2

-----------------------------------------------------------------------------
(* E and D map V to itself, and D undoes E. *)
Undoes(D, E, V) ==
    /\ E \in [V -> V] /\ D \in [V -> V]
    /\ \A v \in V : D[E[v]] = v

(* The values that come up when E is applied to v again and again. *)
IsPath(E, V, v, p) == p \in [Nat -> V] /\ p[0] = v /\ \A n \in Nat : p[n + 1] = E[p[n]]
Path(E, V, v) == CHOOSE p : IsPath(E, V, v, p)

(* There is such a path. *)
LEMMA PathIs ==
    ASSUME NEW V, NEW E \in [V -> V], NEW v \in V
    PROVE  IsPath(E, V, v, Path(E, V, v))
<1> DEFINE g == [n \in Nat |-> E]
<1>1. g \in Turns(Nat, V)
  BY DEF Turns
<1> HIDE DEF g
<1>2. PICK p : p \in Loops(Nat, V, v, g)
  BY <1>1, Recursion
<1>3. p \in [Nat -> V] /\ \A n \in Nat : p[n] = IF n = 0 THEN v ELSE g[n][p[n - 1]]
  BY <1>2 DEF Loops
<1>4. ASSUME NEW n \in Nat  PROVE p[n + 1] = E[p[n]]
  <2>1. n + 1 \in Nat /\ n + 1 # 0 /\ (n + 1) - 1 = n
    OBVIOUS
  <2>2. p[n + 1] = g[n + 1][p[n]]
    BY <1>3, <2>1
  <2>. QED  BY <2>1, <2>2 DEF g
<1>5. IsPath(E, V, v, p)
  BY <1>3, <1>4 DEF IsPath
<1>. QED  BY <1>5 DEF Path

(* There is only one. *)
LEMMA PathUnique ==
    ASSUME NEW V, NEW E \in [V -> V], NEW v \in V, NEW p, NEW q,
           IsPath(E, V, v, p), IsPath(E, V, v, q)
    PROVE  \A n \in Nat : p[n] = q[n]
<1> DEFINE S == {n \in Nat : p[n] = q[n]}
<1>1. 0 \in S /\ \A n \in Nat : n \in S => n + 1 \in S
  BY DEF IsPath
<1> HIDE DEF S
<1>2. \A n \in Nat : n \in S
  BY <1>1, Induction
<1>. QED  BY <1>2 DEF S

(* The path of the next value is the rest of the path. *)
LEMMA PathTail ==
    ASSUME NEW V, NEW E \in [V -> V], NEW v \in V
    PROVE  \A n \in Nat : Path(E, V, E[v])[n] = Path(E, V, v)[n + 1]
<1> DEFINE p == Path(E, V, v)
           q == [n \in Nat |-> p[n + 1]]
<1>0. IsPath(E, V, v, p)
  BY PathIs
<1> HIDE DEF p
<1>1. p \in [Nat -> V] /\ p[0] = v /\ \A n \in Nat : p[n + 1] = E[p[n]]
  BY <1>0 DEF IsPath
<1>2. IsPath(E, V, E[v], q)
  <2>1. q \in [Nat -> V]
    BY <1>1
  <2>2. q[0] = E[v]
    BY <1>1
  <2>3. ASSUME NEW n \in Nat  PROVE q[n + 1] = E[q[n]]
    <3>1. n + 1 \in Nat
      OBVIOUS
    <3>. QED  BY <1>1, <3>1
  <2> HIDE DEF q
  <2>. QED  BY <2>1, <2>2, <2>3 DEF IsPath
<1>3. E[v] \in V /\ IsPath(E, V, E[v], Path(E, V, E[v]))
  BY PathIs
<1> HIDE DEF q
<1>4. \A n \in Nat : Path(E, V, E[v])[n] = q[n]
  BY <1>2, <1>3, PathUnique
<1>. QED  BY <1>4 DEF q, p

(* The path of a permutation of finitely many values comes back to where   *)
(* it starts: two of its values are equal, and the first such pair starts  *)
(* with v, because equal values have equal predecessors.                   *)
LEMMA PathReturns ==
    ASSUME NEW N \in Nat, NEW E, NEW D, Undoes(D, E, 0 .. (N - 1)), NEW v \in 0 .. (N - 1)
    PROVE  \E n \in Nat \ {0} : Path(E, 0 .. (N - 1), v)[n] = v
<1> DEFINE V == 0 .. (N - 1)
           p == Path(E, V, v)
<1>1. /\ E \in [V -> V]
      /\ \A a, b \in V : E[a] = E[b] => a = b
  BY DEF Undoes
<1>0. IsPath(E, V, v, p)
  BY <1>1, PathIs
<1> HIDE DEF p
<1>2. p \in [Nat -> V] /\ p[0] = v /\ \A n \in Nat : p[n + 1] = E[p[n]]
  BY <1>0 DEF IsPath
<1>3. \E i, j \in 0 .. N : i # j /\ p[i] = p[j]
  <2> DEFINE f == [i \in 0 .. N |-> p[i]]
  <2>1. f \in [0 .. N -> V]
    <3> HIDE DEF V
    <3>1. \A i \in 0 .. N : p[i] \in V
      BY <1>2
    <3>. QED  BY <3>1
  <2>2. IsFiniteSet(0 .. N) /\ Cardinality(0 .. N) = N + 1
    BY FS_Interval
  <2>3. IsFiniteSet(V) /\ Cardinality(V) = N
    BY FS_Interval
  <2> HIDE DEF f, V
  <2>4. \E i, j \in 0 .. N : i # j /\ f[i] = f[j]
    BY <2>1, <2>2, <2>3, FS_PigeonHole
  <2>. QED  BY <2>4 DEF f
<1> DEFINE S == {i \in Nat : \E j \in Nat : i < j /\ p[i] = p[j]}
<1>4. S # {}
  BY <1>3
<1>5. PICK i \in S : \A m \in S : i <= m
  BY <1>4, LeastNumber
<1>6. PICK j \in Nat : i < j /\ p[i] = p[j]
  BY <1>5
<1>7. i = 0
  <2>1. SUFFICES ASSUME i # 0 PROVE FALSE
    OBVIOUS
  <2>2. i - 1 \in Nat /\ j - 1 \in Nat /\ (i - 1) + 1 = i /\ (j - 1) + 1 = j /\ i - 1 < j - 1
    BY <1>5, <1>6, <2>1
  <2>3. E[p[i - 1]] = E[p[j - 1]] /\ p[i - 1] \in V /\ p[j - 1] \in V
    BY <1>2, <1>6, <2>2
  <2>4. p[i - 1] = p[j - 1]
    BY <1>1, <2>3
  <2>5. i - 1 \in S
    BY <2>2, <2>4
  <2>. QED  BY <1>5, <2>2, <2>5
<1>8. j # 0 /\ p[j] = v
  BY <1>2, <1>6, <1>7
<1>. QED  BY <1>6, <1>8 DEF p

(* The inverse leads back by the same values. *)
LEMMA PathBack ==
    ASSUME NEW V, NEW E, NEW D, Undoes(D, E, V), NEW v \in V, NEW n \in Nat
    PROVE  /\ Path(E, V, v)[n] \in V
           /\ \A m \in 0 .. n : Path(D, V, Path(E, V, v)[n])[m] = Path(E, V, v)[n - m]
<1> DEFINE p == Path(E, V, v)
           q == Path(D, V, p[n])
<1>1. E \in [V -> V] /\ D \in [V -> V] /\ \A a \in V : D[E[a]] = a
  BY DEF Undoes
<1>2. IsPath(E, V, v, p)
  BY <1>1, PathIs
<1> HIDE DEF p
<1>3. p \in [Nat -> V] /\ \A m \in Nat : p[m + 1] = E[p[m]]
  BY <1>2 DEF IsPath
<1>4. p[n] \in V
  BY <1>3
<1>5. IsPath(D, V, p[n], q)
  BY <1>1, <1>4, PathIs
<1> HIDE DEF q
<1>6. q[0] = p[n] /\ \A m \in Nat : q[m + 1] = D[q[m]]
  BY <1>5 DEF IsPath
<1> DEFINE S == {m \in Nat : m <= n => q[m] = p[n - m]}
<1>7. 0 \in S
  BY <1>6
<1>8. ASSUME NEW m \in Nat, m \in S  PROVE m + 1 \in S
  <2>1. ASSUME m + 1 <= n  PROVE q[m + 1] = p[n - (m + 1)]
    <3>1. n - (m + 1) \in Nat /\ (n - (m + 1)) + 1 = n - m /\ m <= n
      BY <2>1
    <3>2. q[m] = p[n - m]
      BY <1>8, <3>1
    <3>3. p[n - m] = E[p[n - (m + 1)]] /\ p[n - (m + 1)] \in V
      BY <1>3, <3>1
    <3>. QED  BY <1>1, <1>6, <3>2, <3>3
  <2>. QED  BY <2>1
<1> HIDE DEF S
<1>9. \A m \in Nat : m \in S
  BY <1>7, <1>8, Induction
<1>10. \A m \in 0 .. n : q[m] = p[n - m]
  BY <1>9 DEF S
<1>. QED  BY <1>4, <1>10 DEF p, q

-----------------------------------------------------------------------------
(* free() answers AlreadyFree exactly for the ids that are free: looking   *)
(* at the entry to the left of the id is enough.                           *)
LEMMA ContainsIsFree ==
    ASSUME NEW tier, NEW capacity \in Nat, NEW id \in Nat,
           CanonicalTier(tier, capacity)
    PROVE  Contains(tier, id) <=> id \in FreeIds(tier)
<1>1. Contains(tier, id) => id \in FreeIds(tier)
  BY DEF Contains, Left, FreeIds, CanonicalTier
<1>2. ASSUME NEW s \in DOMAIN tier, id \in s .. tier[s]
      PROVE  s \in Left(tier, id)
  <2>1. \A t \in DOMAIN tier : t <= id => t <= s
    BY <1>2 DEF CanonicalTier
  <2>. QED  BY <2>1, <1>2 DEF Left, CanonicalTier
<1>3. id \in FreeIds(tier) => Contains(tier, id)
  BY <1>2 DEF Contains, FreeIds, CanonicalTier
<1>. QED  BY <1>1, <1>3

(* The run left of an id is adjacent to it exactly if some run is. *)
LEMMA LeftAdjacentRuns ==
    ASSUME NEW tier, NEW capacity \in Nat, NEW id \in Nat,
           CanonicalTier(tier, capacity)
    PROVE  LeftAdjacent(tier, id) = {s \in DOMAIN tier : tier[s] + 1 = id}
<1>1. ASSUME NEW s \in DOMAIN tier, tier[s] + 1 = id
      PROVE  s \in LeftAdjacent(tier, id)
  <2>1. \A t \in DOMAIN tier : t <= id => t <= s
    BY <1>1 DEF CanonicalTier
  <2>. QED  BY <2>1, <1>1 DEF Left, LeftAdjacent, CanonicalTier
<1>. QED  BY <1>1 DEF Left, LeftAdjacent

(* The two cases of MergedStart. *)
LEMMA MergedStartCases ==
    ASSUME NEW tier, NEW capacity \in Nat, NEW id \in Nat,
           CanonicalTier(tier, capacity)
    PROVE  \/ /\ MergedStart(tier, id) = id
              /\ \A s \in DOMAIN tier : tier[s] + 1 # id
           \/ /\ MergedStart(tier, id) \in DOMAIN tier
              /\ tier[MergedStart(tier, id)] + 1 = id
<1>1. CASE LeftAdjacent(tier, id) = {}
  BY <1>1, LeftAdjacentRuns DEF MergedStart
<1>2. CASE LeftAdjacent(tier, id) # {}
  <2>1. MergedStart(tier, id) \in LeftAdjacent(tier, id)
    BY <1>2 DEF MergedStart
  <2>. QED  BY <2>1, LeftAdjacentRuns
<1>. QED  BY <1>1, <1>2

(* Freeing an id adds it to the free ids, adds no other, and leaves a      *)
(* canonical tier: both neighbours are merged.                             *)
LEMMA MergeFreeIds ==
    ASSUME NEW tier, NEW capacity \in Nat, NEW id \in Nat,
           CanonicalTier(tier, capacity), id < capacity, id \notin FreeIds(tier)
    PROVE  /\ CanonicalTier(MergeFree(tier, id), capacity)
           /\ FreeIds(MergeFree(tier, id)) = FreeIds(tier) \cup {id}
<1> DEFINE a == MergedStart(tier, id)
           b == MergedEnd(tier, id)
           new == MergeFree(tier, id)
<1>1. /\ DOMAIN new = (DOMAIN tier \ {id + 1}) \cup {a}
      /\ new[a] = b
      /\ \A s \in DOMAIN tier : s # id + 1 /\ s # a => new[s] = tier[s]
  <2> DEFINE rest == Remove(tier, id + 1)
  <2>1. new = Insert(rest, a, b)
    BY DEF MergeFree
  <2>2. /\ DOMAIN rest = DOMAIN tier \ {id + 1}
        /\ \A s \in DOMAIN tier : s # id + 1 => rest[s] = tier[s]
    BY DEF Remove
  <2> HIDE DEF rest, a, b
  <2>3. /\ DOMAIN Insert(rest, a, b) = DOMAIN rest \cup {a}
        /\ Insert(rest, a, b)[a] = b
        /\ \A s \in DOMAIN rest : s # a => Insert(rest, a, b)[s] = rest[s]
    BY DEF Insert
  <2> HIDE DEF new
  <2>. QED  BY <2>1, <2>2, <2>3
<1>2. \/ a = id /\ \A s \in DOMAIN tier : tier[s] + 1 # id
      \/ a \in DOMAIN tier /\ tier[a] + 1 = id
  BY MergedStartCases
<1>3. \/ b = id /\ id + 1 \notin DOMAIN tier
      \/ id + 1 \in DOMAIN tier /\ b = tier[id + 1]
  BY DEF MergedEnd
<1>4. /\ \A s \in DOMAIN tier : s \in Nat /\ tier[s] \in Nat /\ s <= tier[s] /\ tier[s] < capacity
      /\ \A s, t \in DOMAIN tier : s < t => tier[s] + 1 < t
  BY DEF CanonicalTier
<1>5. \A s \in DOMAIN tier : id < s \/ tier[s] < id
  BY <1>4 DEF FreeIds
<1>6. a \in Nat /\ b \in Nat /\ a <= id /\ id <= b /\ b < capacity
  BY <1>2, <1>3, <1>4
<1> HIDE DEF a, b, new
<1>7. \A s \in DOMAIN tier : s # id + 1 /\ s # a => tier[s] + 1 < a \/ b + 1 < s
  BY <1>2, <1>3, <1>4, <1>5, <1>6
<1>8. CanonicalTier(new, capacity)
  <2>1. DOMAIN new \subseteq Nat
    BY <1>1, <1>4, <1>6
  <2>2. \A s \in DOMAIN new : new[s] \in s .. (capacity - 1)
    BY <1>1, <1>4, <1>6
  <2>3. \A s, t \in DOMAIN new : s < t => new[s] + 1 < t
    BY <1>1, <1>4, <1>6, <1>7
  <2>. QED  BY <2>1, <2>2, <2>3 DEF CanonicalTier
<1>9. ASSUME NEW x \in FreeIds(new)
      PROVE  x \in FreeIds(tier) \cup {id}
  <2>1. PICK s \in DOMAIN new : x \in s .. new[s]
    BY DEF FreeIds
  <2>2. CASE s = a
    <3>1. x \in Nat /\ a <= x /\ x <= b
      BY <2>1, <2>2, <1>1, <1>6
    <3>2. CASE x < id
      BY <3>1, <3>2, <1>2, <1>4, <1>6 DEF FreeIds
    <3>3. CASE id < x
      BY <3>1, <3>3, <1>3, <1>4, <1>6 DEF FreeIds
    <3>. QED  BY <3>1, <3>2, <3>3
  <2>3. CASE s # a
    BY <2>1, <2>3, <1>1 DEF FreeIds
  <2>. QED  BY <2>2, <2>3
<1>10. id \in FreeIds(new)
  BY <1>1, <1>6 DEF FreeIds
<1>11. ASSUME NEW x \in FreeIds(tier)
       PROVE  x \in FreeIds(new)
  <2>1. PICK s \in DOMAIN tier : x \in s .. tier[s]
    BY DEF FreeIds
  <2>2. CASE s = a
    BY <2>1, <2>2, <1>1, <1>2, <1>4, <1>6 DEF FreeIds
  <2>3. CASE s = id + 1
    BY <2>1, <2>3, <1>1, <1>3, <1>4, <1>6 DEF FreeIds
  <2>4. CASE s # a /\ s # id + 1
    BY <2>1, <2>4, <1>1 DEF FreeIds
  <2>. QED  BY <2>2, <2>3, <2>4
<1>. QED  BY <1>8, <1>9, <1>10, <1>11 DEF new

(* Giving out the first id of an interval removes that id and no other     *)
(* from the free ids and leaves a canonical tier.                          *)
LEMMA TakeFirstIds ==
    ASSUME NEW tier, NEW capacity \in Nat, NEW start \in DOMAIN tier,
           CanonicalTier(tier, capacity)
    PROVE  /\ CanonicalTier(TakeFirst(tier, start), capacity)
           /\ FreeIds(TakeFirst(tier, start)) = FreeIds(tier) \ {start}
<1> DEFINE new == TakeFirst(tier, start)
           end == tier[start]
<1>1. /\ \A s \in DOMAIN tier : s \in Nat /\ tier[s] \in Nat /\ s <= tier[s] /\ tier[s] < capacity
      /\ \A s, t \in DOMAIN tier : s < t => tier[s] + 1 < t
  BY DEF CanonicalTier
<1>2. CASE start < end
  <2>1. /\ DOMAIN new = (DOMAIN tier \ {start}) \cup {start + 1}
        /\ new[start + 1] = end
        /\ \A s \in DOMAIN tier : s # start /\ s # start + 1 => new[s] = tier[s]
    <3> DEFINE rest == Remove(tier, start)
    <3>1. new = Insert(rest, start + 1, end)
      BY <1>2 DEF TakeFirst
    <3>2. /\ DOMAIN rest = DOMAIN tier \ {start}
          /\ \A s \in DOMAIN tier : s # start => rest[s] = tier[s]
      BY DEF Remove
    <3> HIDE DEF rest, end
    <3>3. /\ DOMAIN Insert(rest, start + 1, end) = DOMAIN rest \cup {start + 1}
          /\ Insert(rest, start + 1, end)[start + 1] = end
          /\ \A s \in DOMAIN rest :
               s # start + 1 => Insert(rest, start + 1, end)[s] = rest[s]
      BY DEF Insert
    <3> HIDE DEF new
    <3>. QED  BY <3>1, <3>2, <3>3
  <2>2. start + 1 \notin DOMAIN tier
    BY <1>1, <1>2
  <2> HIDE DEF new
  <2>3. CanonicalTier(new, capacity)
    <3>1. DOMAIN new \subseteq Nat
      BY <2>1, <1>1
    <3>2. \A s \in DOMAIN new : new[s] \in s .. (capacity - 1)
      BY <2>1, <1>1, <1>2
    <3>3. \A s, t \in DOMAIN new : s < t => new[s] + 1 < t
      BY <2>1, <2>2, <1>1, <1>2
    <3>. QED  BY <3>1, <3>2, <3>3 DEF CanonicalTier
  <2>4. FreeIds(new) = FreeIds(tier) \ {start}
    <3>1. \A x \in FreeIds(new) : x \in FreeIds(tier) /\ x # start
      <4> SUFFICES ASSUME NEW s \in DOMAIN new, NEW x \in s .. new[s]
                   PROVE  x \in FreeIds(tier) /\ x # start
        BY DEF FreeIds
      <4>1. CASE s = start + 1
        BY <4>1, <2>1, <1>1 DEF FreeIds
      <4>2. CASE s # start + 1
        BY <4>2, <2>1, <1>1 DEF FreeIds
      <4>. QED  BY <4>1, <4>2
    <3>2. \A x \in FreeIds(tier) : x # start => x \in FreeIds(new)
      <4> SUFFICES ASSUME NEW s \in DOMAIN tier, NEW x \in s .. tier[s], x # start
                   PROVE  x \in FreeIds(new)
        BY DEF FreeIds
      <4>1. CASE s = start
        BY <4>1, <2>1, <1>1 DEF FreeIds
      <4>2. CASE s # start
        BY <4>2, <2>1, <2>2 DEF FreeIds
      <4>. QED  BY <4>1, <4>2
    <3>. QED  BY <3>1, <3>2
  <2>. QED  BY <2>3, <2>4 DEF new
<1>3. CASE ~(start < end)
  <2>1. /\ DOMAIN new = DOMAIN tier \ {start}
        /\ \A s \in DOMAIN tier : s # start => new[s] = tier[s]
    BY <1>3 DEF TakeFirst, Remove
  <2>2. end = start
    BY <1>1, <1>3
  <2> HIDE DEF new
  <2>3. CanonicalTier(new, capacity)
    BY <2>1, <1>1 DEF CanonicalTier
  <2>4. \A x \in FreeIds(new) : x \in FreeIds(tier) /\ x # start
    BY <2>1, <1>1 DEF FreeIds
  <2>5. \A x \in FreeIds(tier) : x # start => x \in FreeIds(new)
    BY <2>1, <2>2, <1>1 DEF FreeIds
  <2>. QED  BY <2>3, <2>4, <2>5 DEF new
<1>. QED  BY <1>2, <1>3

(* A tier has no entry exactly if it has no free id, and its first entry   *)
(* starts with its lowest free id.                                         *)
LEMMA FirstIsLowest ==
    ASSUME NEW tier, NEW capacity \in Nat, CanonicalTier(tier, capacity)
    PROVE  /\ FreeIds(tier) = {} <=> DOMAIN tier = {}
           /\ \A start \in First(tier) :
                start \in FreeIds(tier) /\ \A id \in FreeIds(tier) : start <= id
<1>1. DOMAIN tier \subseteq FreeIds(tier)
  BY DEF FreeIds, CanonicalTier
<1>2. DOMAIN tier = {} => FreeIds(tier) = {}
  BY DEF FreeIds
<1>3. \A start \in First(tier) : \A id \in FreeIds(tier) : start <= id
  BY DEF First, FreeIds, CanonicalTier
<1>. QED  BY <1>1, <1>2, <1>3 DEF First
=============================================================================
