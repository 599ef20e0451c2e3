------------------------------ MODULE Sharding ------------------------------
(***************************************************************************)
(* How a NeoCache is divided into shards (src/src/lib.rs): the constructor *)
(* with_capacity_and_hasher_and_shard_amount settles the number of shards  *)
(* and their capacity, determine_shard sends a hash to its shard.          *)
(*                                                                         *)
(* Words have WordBits bits, of which hashbrown takes the TagBits highest  *)
(* bits of a hash for its tag.                                             *)
(***************************************************************************)
EXTENDS Integers, FiniteSets, FiniteSetsExt

CONSTANTS
  WordBits,      \* util::ptr_size_bits(): 64
  TagBits,       \* the bits determine_shard leaves to hashbrown: 7
  MaxCapacity,   \* bound of the model: the capacities asked for
  MaxShards      \* bound of the model: the numbers of shards asked for

(* 1 << b                                                                  *)
Pow2[b \in Nat] == IF b = 0 THEN 1 ELSE 2 * Pow2[b - 1]

ASSUME ShardingAssumption ==
  /\ WordBits \in Nat /\ TagBits \in Nat /\ TagBits < WordBits
  /\ MaxCapacity \in 0..(Pow2[WordBits] - 1)
  /\ MaxShards \in 2..(Pow2[WordBits - 1])

NoCache == [shards |-> 0]

VARIABLES
  asked,   \* the arguments of the constructor: [capacity, shards]
  cache    \* the fields shift and shards, and shard_cap of each shard; or NoCache

vars == <<asked, cache>>

-----------------------------------------------------------------------------
Hash == 0..(Pow2[WordBits] - 1)

IsPowerOfTwo(n) == \E b \in 0..(WordBits - 1) : n = Pow2[b]
Log2(n) == CHOOSE b \in 0..(WordBits - 1) : n = Pow2[b]
NextPowerOfTwo(n) == Min({p \in {Pow2[b] : b \in 0..(WordBits - 1)} : p >= n})
DivCeil(n, d) == (n + d - 1) \div d

(* The shift operators of usize.                                           *)
Shl(h, b) == (h * Pow2[b]) % Pow2[WordBits]
Shr(h, b) == h \div Pow2[b]

(* Small caches get fewer shards than asked for.                           *)
Mut_ShardAmountHalved(capacity, n) ==
  IF capacity > 0 /\ capacity \div n < 4 THEN NextPowerOfTwo(capacity \div 4) ELSE n
ShardAmount(capacity, n) ==
  IF capacity > 0 /\ capacity \div n < 4
    THEN Max({NextPowerOfTwo(capacity \div 4), 2})
    ELSE n

Mut_ShardCapRoundedDown(capacity, n) ==
  IF capacity = 0 THEN 0 ELSE Max({capacity \div n, 1})
ShardCap(capacity, n) ==
  IF capacity = 0 THEN 0 ELSE Max({DivCeil(capacity, n), 1})

(* The constructor; its assertions on shard_amount are the guard.          *)
New(capacity, n) ==
  /\ cache = NoCache
  /\ n > 1
  /\ IsPowerOfTwo(n)
  /\ asked' = [capacity |-> capacity, shards |-> n]
  /\ LET shards == ShardAmount(capacity, n)
     IN  cache' = [shards |-> shards,
                   shift |-> WordBits - Log2(shards),
                   shard_cap |-> ShardCap(capacity, shards)]

Mut_DetermineShardByTag(h) == Shr(h, cache.shift)
Mut_DetermineShardShiftedLess(h) == Shr(Shl(h, TagBits), cache.shift - 1)
DetermineShard(h) == Shr(Shl(h, TagBits), cache.shift)

Init == asked = [capacity |-> 0, shards |-> 0] /\ cache = NoCache
Next == \E capacity \in 0..MaxCapacity, n \in 0..MaxShards : New(capacity, n)
Spec == Init /\ [][Next]_vars

-----------------------------------------------------------------------------
(* Properties.                                                             *)

Built == cache # NoCache

(* Every hash has a shard: the index determine_shard computes, with which   *)
(* the code goes into the array unchecked, is in range.                     *)
ShardInRange ==
  Built => \A h \in Hash : DetermineShard(h) \in 0..(cache.shards - 1)

(* A hash reaches every shard, whatever its tag: the tag says nothing of    *)
(* the shard, so within a shard it still tells entries apart.               *)
TagOf(h) == Shr(h, WordBits - TagBits)
TagIndependent ==
  Built /\ cache.shards <= Pow2[WordBits - TagBits] =>
    \A s \in 0..(cache.shards - 1), tag \in 0..(Pow2[TagBits] - 1) :
      \E h \in Hash : DetermineShard(h) = s /\ TagOf(h) = tag

(* Together the shards can hold what was asked for, and the rounding adds   *)
(* less than one entry for each shard.                                      *)
CapacityCovered ==
  Built /\ asked.capacity > 0 =>
    LET all == cache.shards * cache.shard_cap
    IN  asked.capacity <= all /\ all < asked.capacity + cache.shards

(* Never more shards than asked for, and always a power of two above one,   *)
(* on which shift depends.                                                  *)
ShardsAsAsked ==
  Built => cache.shards \in 2..asked.shards /\ IsPowerOfTwo(cache.shards)

(* What README.md says: the number of shards is reduced so that each shard  *)
(* holds at least four entries; with two shards, the fewest there are, that *)
(* takes a capacity of eight.                                               *)
AtLeastFour == Built /\ asked.capacity >= 8 => cache.shard_cap >= 4
=============================================================================
