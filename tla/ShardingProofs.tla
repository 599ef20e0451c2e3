--------------------------- MODULE ShardingProofs ---------------------------
(***************************************************************************)
(* Proofs about Sharding, for words and tags of any width and every        *)
(* capacity and number of shards that can be asked for.                    *)
(*                                                                         *)
(* Powers of two come first: Pow2 is defined by recursion, so what it is   *)
(* takes an induction, which is on a set of numbers.  Then what shifting   *)
(* a word does, and last the constructor and determine_shard.              *)
(***************************************************************************)
EXTENDS Sharding, WellFoundedInduction, TLAPS

-----------------------------------------------------------------------------
(* Induction, for a set of numbers.                                        *)

(* A set of numbers that is not empty has a least member.                  *)
LEMMA LeastMember ==
  ASSUME NEW T, T \subseteq Nat, T # {}
  PROVE  \E x \in T : \A y \in T : x <= y
<1>1. IsWellFoundedOn(OpToRel(<, Nat), Nat)
  BY NatLessThanWellFounded, Zenon
<1>2. PICK x \in T : \A y \in T : ~(<<y, x>> \in OpToRel(<, Nat))
  BY <1>1, WFMin, Zenon
<1>3. \A y \in T : ~(y < x)
  BY <1>2, Zenon DEF OpToRel
<1>. QED BY <1>3

(* A set with 0, and with the successor of each of its members, has every  *)
(* number.                                                                 *)
LEMMA Induction ==
  ASSUME NEW S, S \subseteq Nat, 0 \in S, \A n \in S : n + 1 \in S
  PROVE  S = Nat
<1>. DEFINE T == Nat \ S
<1>1. SUFFICES ASSUME T # {} PROVE FALSE
  BY Zenon
<1>2. PICK x \in T : \A y \in T : x <= y
  BY <1>1, LeastMember, Zenon
<1>3. x - 1 \in Nat /\ x - 1 \notin T
  BY <1>2
<1>. QED BY <1>3

-----------------------------------------------------------------------------
(* Powers of two.                                                          *)

(* g has the powers of two up to n.                                        *)
Table(g, n) == g[0] = 1 /\ \A i \in 1..n : g[i] = 2 * g[i - 1]

(* There is such a table for every n.                                      *)
LEMMA TableExists == \A n \in Nat : \E g \in [0..n -> Nat] : Table(g, n)
<1>. DEFINE S == {n \in Nat : \E g \in [0..n -> Nat] : Table(g, n)}
<1>1. 0 \in S
  <2>1. [i \in 0..0 |-> 1] \in [0..0 -> Nat] /\ Table([i \in 0..0 |-> 1], 0)
    BY DEF Table
  <2>. QED BY <2>1
<1>2. ASSUME NEW n \in S PROVE n + 1 \in S
  <2>1. PICK g \in [0..n -> Nat] : Table(g, n)
    OBVIOUS
  <2>. DEFINE h == [i \in 0..(n + 1) |-> IF i = n + 1 THEN 2 * g[n] ELSE g[i]]
  <2>2. h \in [0..(n + 1) -> Nat]
    OBVIOUS
  <2>3. Table(h, n + 1)
    <3>1. h[0] = 1
      BY <2>1 DEF Table
    <3>2. \A i \in 1..(n + 1) : h[i] = 2 * h[i - 1]
      <4>1. SUFFICES ASSUME NEW i \in 1..(n + 1) PROVE h[i] = 2 * h[i - 1]
        BY Zenon
      <4>2. CASE i = n + 1
        BY <4>2
      <4>3. CASE i \in 1..n
        <5>1. g[i] = 2 * g[i - 1]
          BY <2>1, <4>3 DEF Table
        <5>2. h[i] = g[i] /\ h[i - 1] = g[i - 1]
          BY <4>3
        <5>. QED BY <5>1, <5>2
      <4>. QED BY <4>2, <4>3
    <3>. QED BY <3>1, <3>2, Zenon DEF Table
  <2>. QED BY <2>2, <2>3
<1>3. S = Nat
  <2>. HIDE DEF S
  <2>1. S \subseteq Nat BY DEF S
  <2>. QED BY <1>1, <1>2, <2>1, Induction, Zenon
<1>. QED BY <1>3, Zenon

(* Two tables agree as far as both go.                                     *)
LEMMA TablesAgree ==
  ASSUME NEW m \in Nat, NEW n \in Nat, m <= n,
         NEW g \in [0..m -> Nat], NEW h \in [0..n -> Nat], Table(g, m), Table(h, n)
  PROVE  \A i \in 0..m : g[i] = h[i]
<1>. DEFINE S == {i \in Nat : i <= m => g[i] = h[i]}
<1>1. 0 \in S
  BY DEF Table
<1>2. ASSUME NEW i \in S PROVE i + 1 \in S
  <2>1. CASE i + 1 <= m
    <3>1. i + 1 \in 1..m /\ i + 1 \in 1..n
      BY <2>1
    <3>2. g[i + 1] = 2 * g[i] /\ h[i + 1] = 2 * h[i]
      <4>1. g[i + 1] = 2 * g[(i + 1) - 1] /\ h[i + 1] = 2 * h[(i + 1) - 1]
        BY <3>1, Zenon DEF Table
      <4>2. (i + 1) - 1 = i
        OBVIOUS
      <4> QED BY <4>1, <4>2, Zenon
    <3>3. g[i] = h[i]
      BY <2>1
    <3>4. i + 1 \in Nat
      OBVIOUS
    <3>5. g[i + 1] = h[i + 1]
      BY <3>2, <3>3, Zenon
    <3>. QED BY <3>4, <3>5
  <2>2. CASE ~(i + 1 <= m)
    BY <2>2
  <2>. QED BY <2>1, <2>2
<1>3. S = Nat
  <2>. HIDE DEF S
  <2>1. S \subseteq Nat BY DEF S
  <2>. QED BY <1>1, <1>2, <2>1, Induction, Zenon
<1>4. TAKE i \in 0..m
<1>5. i \in S /\ i <= m
  <2>. HIDE DEF S
  <2>. QED BY <1>3
<1>. QED BY <1>5

(* The recursion of Pow2 has a solution, so Pow2 is one.                   *)
LEMMA Pow2Def ==
  /\ Pow2[0] = 1
  /\ \A n \in Nat : Pow2[n + 1] = 2 * Pow2[n]
  /\ \A n \in Nat : Pow2[n] \in Nat \ {0}
<1>. DEFINE H == [n \in Nat |-> CHOOSE g \in [0..n -> Nat] : Table(g, n)]
            F == [n \in Nat |-> H[n][n]]
            R(f) == [b \in Nat |-> IF b = 0 THEN 1 ELSE 2 * f[b - 1]]
<1>1. \A n \in Nat : H[n] \in [0..n -> Nat] /\ Table(H[n], n)
  <2>1. SUFFICES ASSUME NEW n \in Nat PROVE H[n] \in [0..n -> Nat] /\ Table(H[n], n)
    BY Zenon
  <2>2. \E g \in [0..n -> Nat] : Table(g, n)
    BY TableExists, Zenon
  <2>3. H[n] = CHOOSE g \in [0..n -> Nat] : Table(g, n)
    OBVIOUS
  <2>. HIDE DEF H
  <2>. QED BY <2>2, <2>3
<1>. HIDE DEF H
<1>2. F[0] = 1
  BY <1>1 DEF Table
<1>3. \A n \in Nat : F[n + 1] = 2 * F[n]
  <2>1. SUFFICES ASSUME NEW n \in Nat PROVE F[n + 1] = 2 * F[n]
    BY Zenon
  <2>2. H[n + 1][n + 1] = 2 * H[n + 1][n]
    <3>1. Table(H[n + 1], n + 1)
      BY <1>1
    <3>2. n + 1 \in 1..(n + 1) /\ (n + 1) - 1 = n
      OBVIOUS
    <3>. QED BY <3>1, <3>2 DEF Table
  <2>3. H[n][n] = H[n + 1][n]
    <3>1. /\ n + 1 \in Nat /\ n <= n + 1 /\ n \in 0..n
          /\ H[n] \in [0..n -> Nat] /\ H[n + 1] \in [0..(n + 1) -> Nat]
          /\ Table(H[n], n) /\ Table(H[n + 1], n + 1)
      BY <1>1
    <3>2. \A i \in 0..n : H[n][i] = H[n + 1][i]
      BY <3>1, TablesAgree, Zenon
    <3>. QED BY <3>1, <3>2
  <2>. QED BY <2>2, <2>3
<1>4. F = R(F)
  <2>1. \A b \in Nat : F[b] = IF b = 0 THEN 1 ELSE 2 * F[b - 1]
    <3>1. TAKE b \in Nat
    <3>2. CASE b = 0
      BY <3>2, <1>2
    <3>3. CASE b # 0
      <4>1. b - 1 \in Nat /\ (b - 1) + 1 = b
        BY <3>3
      <4>. QED BY <3>3, <4>1, <1>3, Zenon
    <3>. QED BY <3>2, <3>3
  <2>2. F = [b \in Nat |-> F[b]]
    OBVIOUS
  <2>. HIDE DEF F
  <2>. QED BY <2>1, <2>2, Zenon
<1>5. Pow2 = R(Pow2)
  <2>1. Pow2 = CHOOSE f : f = R(f)
    BY DEF Pow2
  <2>. HIDE DEF F, R
  <2>. QED BY <1>4, <2>1
<1>6. Pow2[0] = 1 /\ \A n \in Nat : Pow2[n + 1] = 2 * Pow2[n]
  BY <1>5
<1>7. \A n \in Nat : Pow2[n] \in Nat \ {0}
  <2>. DEFINE S == {n \in Nat : Pow2[n] \in Nat \ {0}}
  <2>1. 0 \in S
    BY <1>6
  <2>2. ASSUME NEW n \in S PROVE n + 1 \in S
    BY <1>6
  <2>3. S \subseteq Nat
    OBVIOUS
  <2>. HIDE DEF S
  <2>4. S = Nat
    BY <2>1, <2>2, <2>3, Induction, Zenon
  <2>. QED BY <2>4 DEF S
<1>. QED BY <1>6, <1>7

(* Pow2 turns sums into products.                                          *)
LEMMA Pow2Sum == \A a, b \in Nat : Pow2[a + b] = Pow2[a] * Pow2[b]
<1>1. TAKE a \in Nat
<1>. DEFINE S == {b \in Nat : Pow2[a + b] = Pow2[a] * Pow2[b]}
<1>2. 0 \in S
  BY Pow2Def
<1>3. ASSUME NEW b \in S PROVE b + 1 \in S
  <2>1. b \in Nat /\ a + b \in Nat /\ a + (b + 1) = (a + b) + 1
    OBVIOUS
  <2>2. Pow2[a + (b + 1)] = 2 * Pow2[a + b] /\ Pow2[b + 1] = 2 * Pow2[b]
    BY <2>1, Pow2Def
  <2>3. Pow2[a] \in Nat /\ Pow2[b] \in Nat
    BY <2>1, Pow2Def
  <2>4. 2 * (Pow2[a] * Pow2[b]) = Pow2[a] * (2 * Pow2[b])
    BY <2>3
  <2>. QED BY <2>1, <2>2, <2>4
<1>4. S \subseteq Nat
  OBVIOUS
<1>5. S = Nat
  <2>. HIDE DEF S
  <2>. QED BY <1>2, <1>3, <1>4, Induction, Zenon
<1>. QED BY <1>5

(* Pow2 is strictly monotonic.                                             *)
LEMMA Pow2Monotonic == \A a, b \in Nat : a < b <=> Pow2[a] < Pow2[b]
<1>1. ASSUME NEW a \in Nat, NEW b \in Nat, a < b PROVE Pow2[a] < Pow2[b]
  <2>. DEFINE c == b - a - 1
  <2>1. c \in Nat /\ c + 1 \in Nat /\ a + (c + 1) = b
    BY <1>1
  <2>. HIDE DEF c
  <2>2. Pow2[b] = Pow2[a] * Pow2[c + 1] /\ Pow2[c + 1] = 2 * Pow2[c]
    BY <2>1, Pow2Sum, Pow2Def, Zenon
  <2>. DEFINE x == Pow2[a]
              y == Pow2[c]
  <2>3. x \in Nat \ {0} /\ y \in Nat \ {0}
    BY <2>1, Pow2Def
  <2>4. Pow2[b] = x * (2 * y)
    BY <2>2
  <2>. HIDE DEF x, y
  <2>5. x < x * (2 * y)
    BY <2>3
  <2>. QED BY <2>4, <2>5 DEF x
<1>2. \A a \in Nat : Pow2[a] \in Nat
  BY Pow2Def
<1>3. TAKE a, b \in Nat
<1>4. CASE a < b
  BY <1>1, <1>4
<1>5. CASE a = b
  BY <1>2, <1>5
<1>6. CASE b < a
  <2>1. Pow2[b] < Pow2[a]
    BY <1>1, <1>6
  <2>. QED BY <1>2, <1>6, <2>1
<1>. QED BY <1>4, <1>5, <1>6

(* A power of two has one exponent.                                        *)
LEMMA Log2Pow2 == \A b \in 0..(WordBits - 1) : Log2(Pow2[b]) = b
<1>1. TAKE b \in 0..(WordBits - 1)
<1>2. WordBits \in Nat
  BY ShardingAssumption
<1>3. \A a \in 0..(WordBits - 1) : Pow2[b] = Pow2[a] => a = b
  <2>1. TAKE a \in 0..(WordBits - 1)
  <2>2. a \in Nat /\ b \in Nat /\ Pow2[a] \in Nat /\ Pow2[b] \in Nat
    BY <1>2, Pow2Def
  <2>3. (a < b <=> Pow2[a] < Pow2[b]) /\ (b < a <=> Pow2[b] < Pow2[a])
    BY <2>2, Pow2Monotonic
  <2>. QED BY <2>2, <2>3
<1>. QED BY <1>3 DEF Log2

-----------------------------------------------------------------------------
(* Division and the shifts.                                                *)

(* What quotient and remainder are.                                        *)
LEMMA Division ==
  ASSUME NEW x \in Nat, NEW d \in Nat \ {0}
  PROVE  x \div d \in Int /\ x % d \in 0..(d - 1) /\ x = d * (x \div d) + (x % d)
OBVIOUS

(* Quotient and remainder are determined by what they add up to.           *)
LEMMA DivMod ==
  ASSUME NEW x \in Nat, NEW d \in Nat \ {0}, NEW q \in Nat, NEW r \in Nat,
         x = q * d + r, r < d
  PROVE  x \div d = q /\ x % d = r
<1>1. x \div d \in Int /\ x % d \in 0..(d - 1) /\ x = d * (x \div d) + (x % d)
  BY Division
<1>. DEFINE p == x \div d
            s == x % d
<1>2. p \in Int /\ s \in 0..(d - 1) /\ q * d + r = d * p + s
  BY <1>1
<1>. HIDE DEF p, s
<1>3. ~(p < q)
  BY <1>2
<1>4. ~(q < p)
  BY <1>2
<1>5. p = q
  BY <1>2, <1>3, <1>4
<1>. QED BY <1>2, <1>5 DEF p, s

(* A number below n * d has a quotient by d below n.                       *)
LEMMA DivBelow ==
  ASSUME NEW n \in Nat, NEW d \in Nat \ {0}, NEW x \in Nat, x < n * d
  PROVE  x \div d \in 0..(n - 1)
<1>1. x \div d \in Int /\ x % d \in 0..(d - 1) /\ x = d * (x \div d) + (x % d)
  BY Division
<1>. DEFINE p == x \div d
            s == x % d
<1>2. p \in Int /\ s \in 0..(d - 1) /\ x = d * p + s
  BY <1>1
<1>. HIDE DEF p, s
<1>3. ~(n <= p)
  BY <1>2
<1>4. ~(p < 0)
  BY <1>2
<1>. QED BY <1>2, <1>3, <1>4 DEF p

-----------------------------------------------------------------------------
(* The constructor.                                                        *)

(* next_power_of_two is a power of two, not below its argument, and no     *)
(* greater than any other such.                                            *)
LEMMA NextPowerOfTwoLeast ==
  ASSUME NEW n \in Nat, NEW b \in 0..(WordBits - 1), n <= Pow2[b]
  PROVE  /\ \E a \in 0..(WordBits - 1) : NextPowerOfTwo(n) = Pow2[a]
         /\ n <= NextPowerOfTwo(n)
         /\ NextPowerOfTwo(n) <= Pow2[b]
<1>. DEFINE P == {p \in {Pow2[a] : a \in 0..(WordBits - 1)} : p >= n}
<1>1. WordBits \in Nat
  BY ShardingAssumption
<1>2. P \subseteq Nat
  BY <1>1, Pow2Def
<1>3. Pow2[b] \in P
  BY <1>1, Pow2Def
<1>4. \E x \in P : \A y \in P : x <= y
  <2>. HIDE DEF P
  <2>1. P # {}
    BY <1>3
  <2>. QED BY <1>2, <2>1, LeastMember, Zenon
<1>5. Min(P) \in P /\ \A y \in P : Min(P) <= y
  <2>. HIDE DEF P
  <2>. QED BY <1>4 DEF Min
<1>6. NextPowerOfTwo(n) = Min(P)
  BY DEF NextPowerOfTwo
<1>7. Min(P) >= n /\ Min(P) <= Pow2[b] /\ \E a \in 0..(WordBits - 1) : Min(P) = Pow2[a]
  BY <1>3, <1>5
<1>. HIDE DEF P
<1>. QED BY <1>2, <1>5, <1>6, <1>7

(* The greater of two numbers.                                             *)
LEMMA MaxOfTwo ==
  ASSUME NEW a \in Nat, NEW b \in Nat
  PROVE  Max({a, b}) = IF a < b THEN b ELSE a
BY DEF Max

(* The number of shards is a power of two above one, and not above the     *)
(* number that was asked for.                                              *)
LEMMA ShardAmountSound ==
  ASSUME NEW capacity \in Nat, NEW b \in 1..(WordBits - 1)
  PROVE  /\ ShardAmount(capacity, Pow2[b]) <= Pow2[b]
         /\ \E a \in 1..(WordBits - 1) : ShardAmount(capacity, Pow2[b]) = Pow2[a]
<1>. DEFINE n == Pow2[b]
            m == capacity \div 4
<1>1. WordBits \in Nat /\ b \in Nat /\ b \in 0..(WordBits - 1)
  BY ShardingAssumption
<1>2. n \in Nat \ {0} /\ Pow2[0] = 1 /\ Pow2[1] = 2
  BY <1>1, Pow2Def
<1>3. 2 <= n
  <2>1. 0 < b <=> Pow2[0] < n
    BY <1>1, Pow2Monotonic
  <2>. QED BY <1>1, <1>2, <2>1
<1>4. CASE capacity > 0 /\ capacity \div n < 4
  <2>1. m \in Nat /\ m <= n
    <3>1. /\ capacity \div n \in Int /\ capacity % n \in 0..(n - 1)
          /\ capacity = n * (capacity \div n) + (capacity % n)
      BY <1>2, Division, Zenon
    <3>. DEFINE p == capacity \div n
                s == capacity % n
    <3>. HIDE DEF n, p, s
    <3>2. capacity < 4 * n
      BY <1>2, <1>4, <3>1 DEF p, s
    <3>. QED BY <1>2, <3>2
  <2>. DEFINE q == NextPowerOfTwo(m)
  <2>2. PICK a \in 0..(WordBits - 1) : q = Pow2[a]
    BY <1>1, <2>1, NextPowerOfTwoLeast
  <2>3. q <= n
    BY <1>1, <2>1, NextPowerOfTwoLeast
  <2>4. q \in Nat
    BY <1>1, <2>2, Pow2Def
  <2>5. ShardAmount(capacity, n) = IF q < 2 THEN 2 ELSE q
    <3>1. ShardAmount(capacity, n) = Max({q, 2})
      BY <1>4 DEF ShardAmount
    <3>. HIDE DEF q, n
    <3>. QED BY <2>4, <3>1, MaxOfTwo
  <2>6. CASE q < 2
    <3>1. 1 \in 1..(WordBits - 1)
      BY <1>1
    <3>. QED BY <1>2, <1>3, <2>5, <2>6, <3>1
  <2>7. CASE ~(q < 2)
    <3>1. a # 0
      BY <1>2, <2>2, <2>7
    <3>. QED BY <1>1, <2>2, <2>3, <2>5, <2>7, <3>1
  <2>. QED BY <2>6, <2>7
<1>5. CASE ~(capacity > 0 /\ capacity \div n < 4)
  <2>1. ShardAmount(capacity, n) = n
    BY <1>5 DEF ShardAmount
  <2>. QED BY <1>2, <2>1
<1>. QED BY <1>4, <1>5

-----------------------------------------------------------------------------
(* What the constructor leaves behind: b is the number of bits that select *)
(* a shard.                                                                *)
Sound ==
  Built =>
    /\ asked.capacity \in Nat
    /\ \E b \in 1..(WordBits - 1) :
         /\ cache.shards = Pow2[b]
         /\ cache.shift = WordBits - b
         /\ Pow2[b] <= asked.shards
    /\ asked.shards \in Nat
    /\ cache.shard_cap = ShardCap(asked.capacity, cache.shards)

(* Every cache that is built is built so.                                  *)
THEOREM SoundHolds == Spec => []Sound
<1>1. Init => Sound
  BY DEF Init, Sound, Built
<1>2. Sound /\ [Next]_vars => Sound'
  <2>1. SUFFICES ASSUME Sound, [Next]_vars PROVE Sound'
    OBVIOUS
  <2>2. CASE UNCHANGED vars
    BY <2>1, <2>2 DEF vars, Sound, Built
  <2>3. CASE Next
    <3>1. PICK capacity \in 0..MaxCapacity, n \in 0..MaxShards : New(capacity, n)
      BY <2>3 DEF Next
    <3>2. capacity \in Nat /\ n \in Nat /\ WordBits \in Nat
      <4>1. WordBits \in Nat /\ WordBits - 1 \in Nat
        BY ShardingAssumption
      <4>2. Pow2[WordBits] \in Nat /\ Pow2[WordBits - 1] \in Nat
        BY <4>1, Pow2Def
      <4>3. MaxCapacity \in Int /\ MaxShards \in Int
        BY <4>2, ShardingAssumption
      <4>. QED BY <4>1, <4>3
    <3>3. PICK b \in 0..(WordBits - 1) : n = Pow2[b]
      BY <3>1 DEF New, IsPowerOfTwo
    <3>4. b \in 1..(WordBits - 1)
      BY <3>1, <3>2, <3>3, Pow2Def DEF New
    <3>. DEFINE shards == ShardAmount(capacity, n)
    <3>5. PICK a \in 1..(WordBits - 1) : shards = Pow2[a]
      BY <3>2, <3>3, <3>4, ShardAmountSound
    <3>6. shards <= n
      BY <3>2, <3>3, <3>4, ShardAmountSound
    <3>7. Log2(shards) = a
      BY <3>2, <3>5, Log2Pow2
    <3>8. /\ asked' = [capacity |-> capacity, shards |-> n]
          /\ cache' = [shards |-> shards, shift |-> WordBits - Log2(shards),
                       shard_cap |-> ShardCap(capacity, shards)]
      BY <3>1 DEF New
    <3>. HIDE DEF shards
    <3>9. /\ asked'.capacity = capacity /\ asked'.shards = n
          /\ cache'.shards = Pow2[a] /\ cache'.shift = WordBits - a
          /\ cache'.shard_cap = ShardCap(asked'.capacity, cache'.shards)
      BY <3>5, <3>7, <3>8
    <3>. QED BY <3>2, <3>5, <3>6, <3>9 DEF Sound
  <2>. QED BY <2>1, <2>2, <2>3
<1>. QED BY <1>1, <1>2, PTL DEF Spec

-----------------------------------------------------------------------------
(* The properties.                                                         *)

(* determine_shard never leaves the array of shards, whatever the hash:    *)
(* the word that was shifted left is below 2^WordBits, so that WordBits - b *)
(* places to the right it is below the number of shards, which is 2^b.     *)
THEOREM ShardsInRange == Spec => []ShardInRange
<1>1. Sound => ShardInRange
  <2>1. SUFFICES ASSUME Sound, Built, NEW h \in Hash
                 PROVE  DetermineShard(h) \in 0..(cache.shards - 1)
    BY DEF ShardInRange
  <2>2. PICK b \in 1..(WordBits - 1) : cache.shards = Pow2[b] /\ cache.shift = WordBits - b
    BY <2>1 DEF Sound
  <2>3. /\ WordBits \in Nat /\ TagBits \in Nat /\ b \in Nat /\ WordBits - b \in Nat
        /\ b + (WordBits - b) = WordBits
    BY ShardingAssumption
  <2>4. /\ Pow2[WordBits] \in Nat \ {0} /\ Pow2[TagBits] \in Nat /\ Pow2[b] \in Nat
        /\ Pow2[WordBits - b] \in Nat \ {0}
    BY <2>3, Pow2Def
  <2>5. Pow2[WordBits] = Pow2[b] * Pow2[WordBits - b]
    BY <2>3, Pow2Sum
  <2>6. h \in Nat
    BY <2>4 DEF Hash
  <2>. DEFINE x == h * Pow2[TagBits]
              y == x % Pow2[WordBits]
  <2>7. x \in Nat
    BY <2>4, <2>6
  <2>8. y \in Nat /\ y < Pow2[b] * Pow2[WordBits - b]
    <3>. HIDE DEF x
    <3>. QED BY <2>4, <2>5, <2>7
  <2>9. DetermineShard(h) = y \div Pow2[WordBits - b]
    BY <2>2 DEF DetermineShard, Shl, Shr
  <2>. HIDE DEF y
  <2>. QED BY <2>2, <2>4, <2>8, <2>9, DivBelow
<1>. QED BY <1>1, SoundHolds, PTL

(* A hash with the tag and the shard one likes: the tag in its highest     *)
(* TagBits bits, the number of the shard in the b bits below them.         *)
THEOREM TagsAreIndependent == Spec => []TagIndependent
<1>1. Sound => TagIndependent
  <2>1. SUFFICES ASSUME Sound, Built, cache.shards <= Pow2[WordBits - TagBits],
                        NEW s \in 0..(cache.shards - 1), NEW tag \in 0..(Pow2[TagBits] - 1)
                 PROVE  \E h \in Hash : DetermineShard(h) = s /\ TagOf(h) = tag
    BY DEF TagIndependent
  <2>2. PICK b \in 1..(WordBits - 1) : cache.shards = Pow2[b] /\ cache.shift = WordBits - b
    BY <2>1 DEF Sound
  <2>. DEFINE rest == WordBits - TagBits - b
  <2>3. /\ WordBits \in Nat /\ TagBits \in Nat /\ b \in Nat
        /\ WordBits - TagBits \in Nat /\ WordBits - b \in Nat
    BY ShardingAssumption
  <2>4. rest \in Nat
    <3>1. ~(Pow2[WordBits - TagBits] < Pow2[b])
      BY <2>1, <2>2, <2>3, Pow2Def
    <3>2. ~(WordBits - TagBits < b)
      BY <2>3, <3>1, Pow2Monotonic
    <3>. QED BY <2>3, <3>2
  <2>5. /\ b + rest = WordBits - TagBits /\ rest + TagBits = WordBits - b
        /\ TagBits + (WordBits - TagBits) = WordBits /\ b + (WordBits - b) = WordBits
    BY <2>3
  <2>. HIDE DEF rest
  <2>. DEFINE B == Pow2[b]
              R == Pow2[rest]
              T == Pow2[TagBits]
  <2>6. B \in Nat \ {0} /\ R \in Nat \ {0} /\ T \in Nat \ {0}
    BY <2>3, <2>4, Pow2Def
  <2>7. Pow2[WordBits - TagBits] = B * R
    BY <2>3, <2>4, <2>5, Pow2Sum, Zenon
  <2>8. Pow2[WordBits - b] = R * T
    BY <2>3, <2>4, <2>5, Pow2Sum, Zenon
  <2>9. Pow2[WordBits] = T * (B * R)
    <3>1. Pow2[WordBits] = T * Pow2[WordBits - TagBits]
      BY <2>3, <2>5, Pow2Sum, Zenon
    <3>. QED BY <2>7, <3>1
  <2>10. s \in Nat /\ s < B /\ tag \in Nat /\ tag < T
    BY <2>1, <2>2, <2>6
  <2>. HIDE DEF B, R, T
  <2>. DEFINE h == tag * (B * R) + s * R
  <2>11. s * R \in Nat /\ s * R < B * R /\ B * R \in Nat \ {0}
    BY <2>6, <2>10
  <2>12. h \in Nat /\ h < T * (B * R)
    <3>. DEFINE d == B * R
                r == s * R
    <3>1. d \in Nat \ {0} /\ r \in Nat /\ r < d
      BY <2>11
    <3>. HIDE DEF d, r
    <3>2. tag * d + r \in Nat /\ tag * d + r < T * d
      BY <2>6, <2>10, <3>1
    <3>. QED BY <3>2 DEF d, r
  <2>13. TagOf(h) = tag
    <3>1. h \div (B * R) = tag
      BY <2>10, <2>11, <2>12, DivMod
    <3>. HIDE DEF h
    <3>. QED BY <2>7, <3>1 DEF TagOf, Shr
  <2>14. Shl(h, TagBits) = s * (R * T)
    <3>1. h * T = tag * (T * (B * R)) + s * (R * T)
      BY <2>6, <2>10
    <3>2. s * (R * T) \in Nat /\ s * (R * T) < T * (B * R)
      <4>. DEFINE d == R * T
      <4>1. d \in Nat \ {0} /\ T * (B * R) = B * d
        BY <2>6
      <4>. HIDE DEF d
      <4>2. s * d \in Nat /\ s * d < B * d
        BY <2>6, <2>10, <4>1
      <4>. QED BY <4>1, <4>2 DEF d
    <3>3. h * T \in Nat /\ T * (B * R) \in Nat \ {0}
      BY <2>6, <2>12
    <3>. HIDE DEF h
    <3>4. (h * T) % (T * (B * R)) = s * (R * T)
      BY <2>10, <3>1, <3>2, <3>3, DivMod
    <3>. QED BY <2>9, <3>4 DEF Shl, T
  <2>15. DetermineShard(h) = s
    <3>1. s * (R * T) \in Nat /\ R * T \in Nat \ {0} /\ s * (R * T) = s * (R * T) + 0
      BY <2>6, <2>10
    <3>2. (s * (R * T)) \div (R * T) = s
      BY <2>10, <3>1, DivMod
    <3>. HIDE DEF h
    <3>. QED BY <2>2, <2>8, <2>14, <3>2 DEF DetermineShard, Shr
  <2>16. h \in Hash
    BY <2>6, <2>9, <2>12 DEF Hash
  <2>. QED BY <2>13, <2>15, <2>16
<1>. QED BY <1>1, SoundHolds, PTL

(* The shards together have the capacity asked for, rounded up by less     *)
(* than their number.                                                      *)
THEOREM CapacityIsCovered == Spec => []CapacityCovered
<1>1. Sound => CapacityCovered
  <2>1. SUFFICES ASSUME Sound, Built, asked.capacity > 0
                 PROVE  /\ asked.capacity <= cache.shards * cache.shard_cap
                        /\ cache.shards * cache.shard_cap < asked.capacity + cache.shards
    BY DEF CapacityCovered
  <2>. DEFINE c == asked.capacity
              n == cache.shards
              d == (c + n - 1) \div n
  <2>2. c \in Nat \ {0} /\ n \in Nat \ {0}
    BY <2>1, ShardingAssumption, Pow2Def DEF Sound
  <2>3. /\ d \in Int /\ (c + n - 1) % n \in 0..(n - 1)
        /\ c + n - 1 = n * d + ((c + n - 1) % n)
    <3>1. c + n - 1 \in Nat
      BY <2>2
    <3>. HIDE DEF c, n
    <3>. QED BY <2>2, <3>1, Division
  <2>. DEFINE r == (c + n - 1) % n
  <2>4. cache.shard_cap = Max({d, 1})
    BY <2>1, <2>2 DEF Sound, ShardCap, DivCeil
  <2>. HIDE DEF c, n, d, r
  <2>5. d \in Nat \ {0}
    <3>1. ~(d < 1)
      BY <2>2, <2>3 DEF r
    <3>. QED BY <2>3, <3>1
  <2>6. cache.shard_cap = d
    BY <2>4, <2>5, MaxOfTwo
  <2>7. c <= n * d /\ n * d < c + n
    BY <2>2, <2>3, <2>5
  <2>. QED BY <2>6, <2>7 DEF c, n
<1>. QED BY <1>1, SoundHolds, PTL

(* A small capacity leaves fewer shards than asked for, but at least two,  *)
(* and always a power of two.                                              *)
THEOREM ShardsAreAsAsked == Spec => []ShardsAsAsked
<1>1. Sound => ShardsAsAsked
  <2>1. SUFFICES ASSUME Sound, Built
                 PROVE  cache.shards \in 2..asked.shards /\ IsPowerOfTwo(cache.shards)
    BY DEF ShardsAsAsked
  <2>2. PICK b \in 1..(WordBits - 1) : cache.shards = Pow2[b] /\ Pow2[b] <= asked.shards
    BY <2>1 DEF Sound
  <2>3. b \in Nat /\ 0 < b /\ b \in 0..(WordBits - 1)
    BY ShardingAssumption
  <2>4. Pow2[b] \in Nat /\ Pow2[0] = 1 /\ Pow2[0] < Pow2[b]
    BY <2>3, Pow2Def, Pow2Monotonic
  <2>5. asked.shards \in Nat
    BY <2>1 DEF Sound
  <2>. QED BY <2>2, <2>3, <2>4, <2>5 DEF IsPowerOfTwo
<1>. QED BY <1>1, SoundHolds, PTL
=============================================================================
