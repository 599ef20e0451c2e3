---------------------------- MODULE ShardProofs ----------------------------
(***************************************************************************)
(* Proofs about a shard (module Shard), for any set of keys, any hash      *)
(* function and any capacity: the invariants that the runs check on small  *)
(* instances hold in every reachable state.  Inv is the inductive          *)
(* invariant; there is one lemma per action, and the theorems come last.   *)
(***************************************************************************)
EXTENDS Shard, FiniteSetTheorems, TLAPS

(* The rounded-up quotient of ShardData::new lies between 1 and shard_cap. *)
LEMMA CeilingBounds ==
  ASSUME NEW c \in Nat \ {0}, NEW d \in Nat \ {0}
  PROVE  (c + d - 1) \div d \in 1..c
<1> DEFINE q == (c + d - 1) \div d
           r == (c + d - 1) % d
<1>1. q \in Nat /\ r \in 0..(d - 1) /\ c + d - 1 = d * q + r
  OBVIOUS
<1>2. q >= 1
  BY <1>1
<1>3. q <= c
  <2> SUFFICES ASSUME q >= c + 1 PROVE FALSE
    BY <1>1
  <2>1. d * q >= d * (c + 1)
    BY <1>1
  <2>2. d * (c + 1) = d * c + d
    OBVIOUS
  <2>3. d * c >= c
    OBVIOUS
  <2> QED BY <1>1, <2>1, <2>2, <2>3
<1> QED BY <1>1, <1>2, <1>3

(* small_cap of a bounded shard is at least 1 and at most shard_cap.        *)
LEMMA SmallCapBounds ==
  /\ small_cap \in Nat
  /\ ShardCap > 0 => small_cap \in 1..ShardCap
BY ShardAssumption, CeilingBounds DEF small_cap, AtLeast

-----------------------------------------------------------------------------
(* Queues.                                                                 *)

(* push_back adds one slot to a queue.                                     *)
LEMMA SlotsAppend ==
  ASSUME NEW q \in Seq(Key), NEW k \in Key
  PROVE  Append(q, k) \in Seq(Key) /\ Slots(Append(q, k)) = Slots(q) \cup {k}
<1>1. /\ Append(q, k) \in Seq(Key)
      /\ Len(Append(q, k)) = Len(q) + 1
      /\ \A i \in 1..Len(q) : Append(q, k)[i] = q[i]
      /\ Append(q, k)[Len(q) + 1] = k
  OBVIOUS
<1>2. Len(q) \in Nat
  OBVIOUS
<1>3. ASSUME NEW x \in Slots(Append(q, k)) PROVE x \in Slots(q) \cup {k}
  BY <1>1, <1>2 DEF Slots
<1>4. ASSUME NEW x \in Slots(q) \cup {k} PROVE x \in Slots(Append(q, k))
  BY <1>1, <1>2 DEF Slots
<1> QED BY <1>1, <1>3, <1>4

(* pop_front takes the slot at the head and no other.                      *)
LEMMA SlotsTail ==
  ASSUME NEW q \in Seq(Key), q # <<>>
  PROVE  /\ Head(q) \in Key
         /\ Tail(q) \in Seq(Key)
         /\ Slots(q) = Slots(Tail(q)) \cup {Head(q)}
<1>1. /\ Head(q) \in Key
      /\ Head(q) = q[1]
      /\ Tail(q) \in Seq(Key)
      /\ Len(q) \in Nat \ {0}
      /\ Len(Tail(q)) = Len(q) - 1
      /\ \A i \in 1..Len(Tail(q)) : Tail(q)[i] = q[i + 1]
  OBVIOUS
<1>2. ASSUME NEW x \in Slots(q) PROVE x \in Slots(Tail(q)) \cup {Head(q)}
  <2>1. PICK i \in 1..Len(q) : x = q[i]
    BY DEF Slots
  <2>2. CASE i = 1
    BY <1>1, <2>1, <2>2
  <2>3. CASE i # 1
    <3>1. i - 1 \in 1..Len(Tail(q)) /\ Tail(q)[i - 1] = x
      BY <1>1, <2>1, <2>3
    <3> QED BY <3>1 DEF Slots
  <2> QED BY <2>2, <2>3
<1>3. ASSUME NEW x \in Slots(Tail(q)) \cup {Head(q)} PROVE x \in Slots(q)
  BY <1>1 DEF Slots
<1> QED BY <1>1, <1>2, <1>3

-----------------------------------------------------------------------------
(* The inductive invariant.                                                *)

(* What the eviction loop may rely on about the counters: they cover the   *)
(* table, they stay within the capacity, and they drift only so far.       *)
CountInv ==
  /\ IsFiniteSet(Live)
  /\ Cardinality(Live) <= total_live
  /\ ShardCap > 0 => total_live <= ShardCap
  /\ DriftBounded

(* What is known at each point of an insertion.                            *)
SweepInv ==
  /\ pc = "evict_from_small" => MustEvict /\ small_live >= small_cap
  /\ pc = "evict_from_main" => MustEvict /\ small_live < small_cap
  /\ pc # "idle" => op.key \notin Live
  /\ evicted # {} => /\ pc \in {"insert", "unwinding"}
                     /\ ~MustEvict
                     /\ ShardCap > 0
                     /\ \E x \in Key \ Live : x # op.key /\ evicted = {x}

GhostInv ==
  /\ IsFiniteSet(ghost)
  /\ Cardinality(ghost) <= ghost_cap
  /\ HashInjective => /\ \A k \in Live : Hash[k] \notin ghost
                      /\ pc # "idle" => Hash[op.key] \notin ghost

Inv == TypeOK /\ LiveQueued /\ CountInv /\ SweepInv /\ GhostInv

-----------------------------------------------------------------------------
(* Counting entries.                                                       *)

(* The entries in a finite part of the table split into the two locations. *)
LEMMA Split ==
  ASSUME TypeOK, IsFiniteSet(Live), NEW S \in SUBSET Live
  PROVE  /\ \A loc : IsFiniteSet(In(loc, S)) /\ Cardinality(In(loc, S)) \in Nat
         /\ IsFiniteSet(S)
         /\ Cardinality(S) = Cardinality(In(LOC_SMALL, S)) + Cardinality(In(LOC_MAIN, S))
<1>1. IsFiniteSet(S)
  BY FS_Subset
<1>2. \A loc : In(loc, S) \in SUBSET S
  BY DEF In
<1>3. \A loc : IsFiniteSet(In(loc, S))
  BY <1>1, <1>2, FS_Subset
<1>4. \A loc : Cardinality(In(loc, S)) \in Nat
  BY <1>3, FS_CardinalityType
<1>5. S = In(LOC_SMALL, S) \cup In(LOC_MAIN, S)
  BY DEF In, TypeOK, CacheEntry, Loc
<1>6. In(LOC_SMALL, S) \cap In(LOC_MAIN, S) = {}
  BY DEF In, LOC_SMALL, LOC_MAIN
<1>7. Cardinality(S) = Cardinality(In(LOC_SMALL, S)) + Cardinality(In(LOC_MAIN, S)) - 0
  BY <1>3, <1>5, <1>6, FS_Union, FS_EmptySet
<1> QED BY <1>1, <1>3, <1>4, <1>7

(* The sweep always has an entry to take from the queue it turned to, and  *)
(* a count to take it from.                                                *)
LEMMA SweepFinds ==
  ASSUME Inv
  PROVE  /\ pc = "evict_from_small" => /\ In(LOC_SMALL, Live) # {}
                                       /\ small # <<>>
                                       /\ small_live > 0
         /\ pc = "evict_from_main" => /\ In(LOC_MAIN, Live) # {}
                                      /\ main # <<>>
                                      /\ main_live > 0
<1> USE DEF Inv
<1>1. \A loc : Cardinality(In(loc, Live)) \in Nat
  BY Split DEF CountInv
<1>2. \A loc : Cardinality(In(loc, Live)) # 0 => In(loc, Live) # {}
  BY FS_EmptySet
<1>3. \A loc \in Loc : In(loc, Live) # {} => QueueOf(loc) # <<>>
  <2> SUFFICES ASSUME NEW loc \in Loc, NEW k \in In(loc, Live) PROVE QueueOf(loc) # <<>>
    OBVIOUS
  <2>1. k \in Slots(QueueOf(loc))
    BY DEF In, LiveQueued
  <2>2. Slots(<<>>) = {}
    BY DEF Slots
  <2> QED BY <2>1, <2>2
<1>4. CASE pc = "evict_from_small"
  <2>1. small_live >= small_cap /\ ShardCap > 0
    BY <1>4 DEF SweepInv, MustEvict
  <2>2. Cardinality(In(LOC_SMALL, Live)) # 0
    BY <1>1, <2>1, SmallCapBounds DEF CountInv, DriftBounded, TypeOK
  <2> QED BY <1>2, <1>3, <1>4, <2>1, <2>2, SmallCapBounds
      DEF TypeOK, QueueOf, Loc
<1>5. CASE pc = "evict_from_main"
  <2>1. small_live < small_cap /\ ShardCap > 0 /\ small_live + main_live >= ShardCap
    BY <1>5 DEF SweepInv, MustEvict, total_live
  <2>2. Cardinality(In(LOC_MAIN, Live)) # 0 /\ main_live > 0
    BY <1>1, <2>1, SmallCapBounds, ShardAssumption DEF CountInv, DriftBounded, TypeOK
  <2> QED BY <1>2, <1>3, <1>5, <2>2 DEF QueueOf, Loc, LOC_SMALL, LOC_MAIN
<1> QED BY <1>4, <1>5

-----------------------------------------------------------------------------
(* One lemma per kind of step: it preserves the invariant.                 *)

(* A step that changes values and frequencies only, and drops at most      *)
(* stale slots.                                                            *)
LEMMA InPlaceStep ==
  ASSUME Inv,
         map' \in [Live -> CacheEntry],
         \A k \in Live : map'[k].loc = map[k].loc,
         small' \in Seq(Key), Slots(small) \cap Live \subseteq Slots(small'),
         main' \in Seq(Key), Slots(main) \cap Live \subseteq Slots(main'),
         UNCHANGED <<ghost, counters, insertion>>
  PROVE  Inv'
<1> USE DEF Inv
<1>1. Live' = Live
  BY DEF Live
<1>2. UNCHANGED <<ghost, small_live, main_live, pc, op, evicted, total_live, MustEvict>>
  BY DEF counters, insertion, total_live, MustEvict
<1>3. TypeOK'
  BY <1>1, <1>2 DEF TypeOK
<1>4. LiveQueued'
  BY <1>1 DEF LiveQueued, QueueOf
<1>5. \A loc : In(loc, Live)' = In(loc, Live)
  BY <1>1 DEF In
<1>6. CountInv'
  BY <1>1, <1>2, <1>5 DEF CountInv, DriftBounded
<1>7. SweepInv'
  BY <1>1, <1>2 DEF SweepInv
<1>8. GhostInv'
  BY <1>1, <1>2 DEF GhostInv
<1> QED BY <1>3, <1>4, <1>6, <1>7, <1>8

(* A bump, and a store of a value, leave an entry in its queue.            *)
LEMMA EntryChanges ==
  ASSUME NEW e \in CacheEntry, NEW v \in Value
  PROVE  /\ Bumped(e) \in CacheEntry /\ Bumped(e).loc = e.loc
         /\ [e EXCEPT !.value = v] \in CacheEntry
         /\ [e EXCEPT !.value = v].loc = e.loc
BY DEF CacheEntry, Bumped, MAX_FREQ

(* A read bumps a frequency and changes nothing else.                      *)
LEMMA GetStep ==
  ASSUME Inv, NEW k \in Key, Get(k)
  PROVE  Inv'
<1>1. Bumped(map[k]) \in CacheEntry /\ Bumped(map[k]).loc = map[k].loc
  BY DEF Get, Inv, TypeOK, Bumped, CacheEntry, MAX_FREQ
<1>2. /\ map' \in [Live -> CacheEntry]
      /\ \A j \in Live : map'[j].loc = map[j].loc
  BY <1>1 DEF Get, Inv, TypeOK, Live
<1> QED BY <1>2, InPlaceStep DEF Get, queues, Inv, TypeOK

(* A read for writing bumps a frequency and stores a value.                *)
LEMMA GetMutStep ==
  ASSUME Inv, NEW k \in Key, NEW v \in Value, GetMut(k, v)
  PROVE  Inv'
<1>1. PICK b \in CacheEntry : b = Bumped(map[k]) /\ b.loc = map[k].loc
  BY EntryChanges, Zenon DEF GetMut, Inv, TypeOK
<1> DEFINE e == [b EXCEPT !.value = v]
<1>2. e \in CacheEntry /\ e.loc = map[k].loc
  BY <1>1, EntryChanges
<1> HIDE DEF e
<1>3. map' = [map EXCEPT ![k] = e]
  BY <1>1 DEF GetMut, e
<1>4. /\ map' \in [Live -> CacheEntry]
      /\ \A j \in Live : map'[j].loc = map[j].loc
  BY <1>2, <1>3, Zenon DEF GetMut, Inv, TypeOK, Live
<1> QED BY <1>4, InPlaceStep DEF GetMut, queues, Inv, TypeOK

(* An overwrite stores a value.                                            *)
LEMMA ReplaceStep ==
  ASSUME Inv, NEW k \in Key, NEW v \in Value, Replace(k, v)
  PROVE  Inv'
<1>1. map \in [Live -> CacheEntry] /\ map' = [map EXCEPT ![k].value = v] /\ k \in Live
  BY DEF Replace, Inv, TypeOK
<1>2. /\ map' \in [Live -> CacheEntry]
      /\ \A j \in Live : map'[j].loc = map[j].loc
  BY <1>1 DEF CacheEntry
<1> QED BY <1>2, InPlaceStep DEF Replace, queues, Inv, TypeOK

(* A second chance moves a live entry's slot to the back of main.          *)
LEMMA SecondChanceStep ==
  ASSUME Inv, SecondChance
  PROVE  Inv'
<1>1. /\ MainSlot \in Key
      /\ Tail(main) \in Seq(Key)
      /\ Slots(main) = Slots(Tail(main)) \cup {MainSlot}
  BY SlotsTail DEF SecondChance, PopMain, MainSlot, Inv, TypeOK
<1>2. main' \in Seq(Key) /\ Slots(main') = Slots(main)
  BY <1>1, SlotsAppend, Zenon DEF SecondChance
<1>3. /\ map' \in [Live -> CacheEntry]
      /\ \A j \in Live : map'[j].loc = map[j].loc
  BY DEF SecondChance, Inv, TypeOK, Live, CacheEntry, MAX_FREQ
<1> QED BY <1>2, <1>3, InPlaceStep DEF SecondChance, Inv, TypeOK

(* The sweep never meets the end of a queue, so skipping drops a stale     *)
(* slot and does nothing else.                                             *)
LEMMA SkipStep ==
  ASSUME Inv, SkipSmall \/ SkipMain
  PROVE  Inv'
<1>1. CASE SkipSmall
  <2>1. small # <<>> /\ SmallSlot \notin Live /\ small' = Tail(small) /\ pc' = pc
    BY <1>1, SweepFinds DEF SkipSmall
  <2>2. small' \in Seq(Key) /\ Slots(small) \cap Live \subseteq Slots(small')
    BY <2>1, SlotsTail DEF SmallSlot, Inv, TypeOK
  <2> QED BY <1>1, <2>1, <2>2, InPlaceStep DEF SkipSmall, Inv, TypeOK, insertion
<1>2. CASE SkipMain
  <2>1. main # <<>> /\ MainSlot \notin Live /\ main' = Tail(main) /\ pc' = pc
    BY <1>2, SweepFinds DEF SkipMain
  <2>2. main' \in Seq(Key) /\ Slots(main) \cap Live \subseteq Slots(main')
    BY <2>1, SlotsTail DEF MainSlot, Inv, TypeOK
  <2> QED BY <1>2, <2>1, <2>2, InPlaceStep DEF SkipMain, Inv, TypeOK, insertion
<1> QED BY <1>1, <1>2

(* Removals: the counters shrink by no more than the table does.           *)
LEMMA EraseStep ==
  ASSUME Inv, pc = "idle", NEW S \in SUBSET Live,
         map' \in [Live \ S -> CacheEntry],
         \A k \in Live \ S : map'[k].loc = map[k].loc,
         CountOut(S),
         UNCHANGED <<queues, ghost, insertion>>
  PROVE  Inv'
<1> USE DEF Inv
<1> DEFINE a == Cardinality(In(LOC_SMALL, S))
           b == Cardinality(In(LOC_MAIN, S))
<1>1. Live' = Live \ S
  BY DEF Live
<1>2. UNCHANGED <<small, main, ghost, pc, op, evicted>>
  BY DEF queues, insertion
<1>3. a \in Nat /\ b \in Nat /\ IsFiniteSet(S) /\ Cardinality(S) = a + b
  BY Split DEF CountInv
<1>4. /\ small_live' = IF small_live < a THEN 0 ELSE small_live - a
      /\ main_live' = IF main_live < b THEN 0 ELSE main_live - b
  BY DEF CountOut, SaturatingSub
<1>5. small_live' \in Nat /\ main_live' \in Nat
  BY <1>3, <1>4 DEF TypeOK
<1>6. TypeOK'
  BY <1>1, <1>2, <1>5 DEF TypeOK
<1>7. LiveQueued'
  BY <1>1, <1>2 DEF LiveQueued, QueueOf
<1>8. /\ IsFiniteSet(Live')
      /\ Cardinality(Live') = Cardinality(Live) - Cardinality(S)
  <2>1. Live \cap S = S
    OBVIOUS
  <2> QED BY <1>1, <2>1, FS_Difference DEF CountInv
<1>9. \A loc : /\ Cardinality(In(loc, Live)) \in Nat
               /\ Cardinality(In(loc, Live)') \in Nat
               /\ Cardinality(In(loc, Live)') =
                    Cardinality(In(loc, Live)) - Cardinality(In(loc, S))
  <2> TAKE loc
  <2>1. In(loc, Live)' = In(loc, Live) \ In(loc, S)
    BY <1>1 DEF In
  <2>2. In(loc, Live) \cap In(loc, S) = In(loc, S)
    BY DEF In
  <2>3. IsFiniteSet(In(loc, Live))
    BY Split DEF CountInv
  <2> QED BY <2>1, <2>2, <2>3, FS_Difference, FS_CardinalityType, ZenonT(60)
<1>10. CountInv'
  <2> DEFINE n == Cardinality(Live)
             ns == Cardinality(In(LOC_SMALL, Live))
             nm == Cardinality(In(LOC_MAIN, Live))
             n1 == Cardinality(Live')
             ns1 == Cardinality(In(LOC_SMALL, Live)')
             nm1 == Cardinality(In(LOC_MAIN, Live)')
  <2>1. /\ n \in Nat /\ ns \in Nat /\ nm \in Nat /\ ns1 \in Nat /\ nm1 \in Nat
        /\ n1 = n - (a + b) /\ ns1 = ns - a /\ nm1 = nm - b
        /\ n <= small_live + main_live
        /\ ShardCap > 0 => small_live < ns + small_cap
        /\ ShardCap > 0 => main_live <= nm + ShardCap - small_cap
    BY <1>3, <1>8, <1>9, FS_CardinalityType DEF CountInv, total_live, DriftBounded
  <2> HIDE DEF a, b, n, ns, nm, n1, ns1, nm1
  <2>2. Cardinality(Live') <= total_live'
    <3>1. small_live \in Nat /\ main_live \in Nat
      BY DEF TypeOK
    <3>2. small_live' >= small_live - a /\ main_live' >= main_live - b
      BY <1>3, <1>4, <3>1
    <3>3. /\ n \in Nat /\ n <= small_live + main_live /\ n1 = n - (a + b)
          /\ a \in Nat /\ b \in Nat
      BY <1>3, <2>1
    <3>4. n1 <= (small_live - a) + (main_live - b)
      BY <3>1, <3>3
    <3>5. n1 <= small_live' + main_live'
      BY <1>5, <3>1, <3>2, <3>3, <3>4
    <3> QED BY <3>5 DEF total_live, n1
  <2>3. ShardCap > 0 => total_live' <= ShardCap
    BY <1>3, <1>4, ShardAssumption DEF CountInv, total_live, TypeOK
  <2>4. DriftBounded'
    <3>1. ShardCap > 0 => /\ small_live' < ns1 + small_cap
                          /\ main_live' <= nm1 + ShardCap - small_cap
      BY <1>3, <1>4, <2>1, SmallCapBounds, ShardAssumption DEF TypeOK
    <3> QED BY <3>1 DEF DriftBounded, ns1, nm1
  <2> QED BY <1>8, <2>2, <2>3, <2>4 DEF CountInv
<1>11. SweepInv'
  BY <1>1, <1>2 DEF SweepInv
<1>12. GhostInv'
  BY <1>1, <1>2 DEF GhostInv
<1> QED BY <1>6, <1>7, <1>10, <1>11, <1>12

(* _remove and its kin erase one entry.                                    *)
LEMMA RemoveStep ==
  ASSUME Inv, NEW k \in Key, Remove(k)
  PROVE  Inv'
BY EraseStep DEF Remove, Without, Inv, TypeOK

(* _retain erases some entries and may store values in the others.         *)
LEMMA RetainStep ==
  ASSUME Inv, NEW S \in SUBSET Live, NEW w \in [Live -> Value], Retain(S, w)
  PROVE  Inv'
<1>1. \A k \in Live \ S : /\ [map[k] EXCEPT !.value = w[k]] \in CacheEntry
                          /\ [map[k] EXCEPT !.value = w[k]].loc = map[k].loc
  BY EntryChanges DEF Inv, TypeOK
<1>2. /\ map' \in [Live \ S -> CacheEntry]
      /\ \A k \in Live \ S : map'[k].loc = map[k].loc
  BY <1>1, Zenon DEF Retain
<1> QED BY <1>2, EraseStep, Zenon DEF Retain

(* clear_all empties everything.                                           *)
LEMMA ClearAllStep ==
  ASSUME Inv, ClearAll
  PROVE  Inv'
<1> USE DEF Inv, ClearAll
<1>1. Live' = {}
  BY DEF Without, Live
<1>2. UNCHANGED <<pc, op, evicted>>
  BY DEF insertion
<1>3. TypeOK'
  BY <1>1, <1>2 DEF TypeOK, Without, Live
<1>4. LiveQueued'
  BY <1>1 DEF LiveQueued
<1>5. CountInv'
  <2>1. \A loc : In(loc, Live)' = {}
    BY <1>1 DEF In
  <2>2. \A loc : Cardinality(In(loc, Live)') = 0
    BY <2>1, FS_EmptySet
  <2>3. DriftBounded'
    BY <2>2, SmallCapBounds, ShardAssumption DEF DriftBounded
  <2> QED BY <1>1, <2>3, FS_EmptySet, ShardAssumption DEF CountInv, total_live
<1>6. SweepInv'
  BY <1>1, <1>2 DEF SweepInv
<1>7. GhostInv'
  BY <1>1, <1>2, FS_EmptySet, ShardAssumption DEF GhostInv, ghost_cap
<1> QED BY <1>3, <1>4, <1>5, <1>6, <1>7

(* Before its eviction loop an insertion takes the key's own mark away.    *)
LEMMA BeginInsertStep ==
  ASSUME Inv, NEW k \in Key, NEW v \in Value, BeginInsert(k, v)
  PROVE  Inv'
<1> USE DEF Inv, BeginInsert
<1>1. evicted = {}
  BY DEF SweepInv
<1>2. UNCHANGED <<map, small, main, small_live, main_live, evicted, Live,
                  total_live, MustEvict>>
  BY DEF queues, counters, Live, total_live, MustEvict
<1>3. op' \in [key : Key, value : Value, loc : Loc] /\ op'.key = k
  BY DEF Loc
<1>4. TypeOK'
  BY <1>2, <1>3 DEF TypeOK
<1>5. LiveQueued'
  BY <1>2 DEF LiveQueued, QueueOf
<1>6. CountInv'
  BY <1>2 DEF CountInv, DriftBounded, In
<1>7. SweepInv'
  BY <1>1, <1>2, <1>3 DEF SweepInv
<1>8. GhostInv'
  <2>1. IsFiniteSet(ghost') /\ Cardinality(ghost') <= Cardinality(ghost)
    BY FS_Subset DEF GhostInv
  <2>2. Cardinality(ghost') <= ghost_cap
    BY <2>1, FS_CardinalityType, ShardAssumption DEF GhostInv, ghost_cap
  <2> QED BY <1>2, <1>3, <2>1, <2>2 DEF GhostInv
<1> QED BY <1>4, <1>5, <1>6, <1>7, <1>8

(* evict_one only chooses a queue; no victim has been taken when it does.  *)
LEMMA EvictOneStep ==
  ASSUME Inv, EvictOne
  PROVE  Inv'
<1> USE DEF Inv, EvictOne
<1>1. evicted = {}
  BY DEF SweepInv
<1>2. UNCHANGED <<map, small, main, ghost, small_live, main_live, op, evicted, Live,
                  total_live, MustEvict>>
  BY DEF queues, counters, Live, total_live, MustEvict
<1>3. TypeOK'
  BY <1>2 DEF TypeOK
<1>4. LiveQueued'
  BY <1>2 DEF LiveQueued, QueueOf
<1>5. CountInv'
  BY <1>2 DEF CountInv, DriftBounded, In
<1>6. SweepInv'
  BY <1>1, <1>2, SmallCapBounds DEF SweepInv, TypeOK
<1>7. GhostInv'
  BY <1>2 DEF GhostInv
<1> QED BY <1>3, <1>4, <1>5, <1>6, <1>7

(* A panic ends the insertion and leaves the shard as it is.               *)
LEMMA PanicStep ==
  ASSUME Inv, ClonePanics \/ Unwind
  PROVE  Inv'
<1> USE DEF Inv, ClonePanics, Unwind
<1>1. UNCHANGED <<map, small, main, ghost, small_live, main_live, Live, total_live,
                  MustEvict>>
  BY DEF queues, counters, Live, total_live, MustEvict
<1>2. pc' = "idle" /\ evicted' = {}
  BY DEF EndInsert
<1>3. TypeOK'
  BY <1>1, <1>2 DEF TypeOK
<1>4. LiveQueued'
  BY <1>1 DEF LiveQueued, QueueOf
<1>5. CountInv'
  BY <1>1 DEF CountInv, DriftBounded, In
<1>6. SweepInv'
  BY <1>1, <1>2 DEF SweepInv
<1>7. GhostInv'
  BY <1>1, <1>2 DEF GhostInv
<1> QED BY <1>3, <1>4, <1>5, <1>6, <1>7

(* The new entry is queued where its loc says, and the room is there.      *)
LEMMA FinishInsertStep ==
  ASSUME Inv, FinishInsert
  PROVE  Inv'
<1> USE DEF Inv, FinishInsert
<1> DEFINE k == op.key
<1>1. k \in Key /\ k \notin Live /\ op.value \in Value /\ op.loc \in Loc
  BY DEF TypeOK, SweepInv
<1>2. pc' = "idle" /\ evicted' = {} /\ ghost' = ghost
  BY DEF EndInsert
<1>3. NewEntry(op.value, op.loc) \in CacheEntry /\ NewEntry(op.value, op.loc).loc = op.loc
  BY <1>1 DEF NewEntry, CacheEntry, MAX_FREQ
<1>4. /\ Live' = Live \cup {k}
      /\ map' \in [Live' -> CacheEntry]
      /\ map'[k].loc = op.loc
      /\ \A j \in Live : map'[j] = map[j]
  BY <1>1, <1>3 DEF With, Live, TypeOK
<1> HIDE DEF k
<1>5. /\ small' \in Seq(Key) /\ Slots(small) \subseteq Slots(small')
      /\ main' \in Seq(Key) /\ Slots(main) \subseteq Slots(main')
      /\ op.loc = LOC_SMALL => k \in Slots(small')
      /\ op.loc = LOC_MAIN => k \in Slots(main')
  <2>1. \A q \in {small, main} : /\ Append(q, k) \in Seq(Key)
                                 /\ Slots(Append(q, k)) = Slots(q) \cup {k}
    BY <1>1, SlotsAppend DEF TypeOK, k
  <2>2. CASE op.loc = LOC_MAIN
    <3>1. main' = Append(main, k) /\ small' = small /\ op.loc # LOC_SMALL
      BY <2>2 DEF k, LOC_SMALL, LOC_MAIN
    <3> QED BY <2>1, <3>1 DEF TypeOK
  <2>3. CASE op.loc = LOC_SMALL
    <3>1. small' = Append(small, k) /\ main' = main /\ op.loc # LOC_MAIN
      BY <2>3 DEF k, LOC_SMALL, LOC_MAIN
    <3> QED BY <2>1, <3>1 DEF TypeOK
  <2> QED BY <2>2, <2>3
<1>6. TypeOK'
  BY <1>1, <1>2, <1>4, <1>5 DEF TypeOK
<1>7. LiveQueued'
  BY <1>1, <1>4, <1>5 DEF LiveQueued, QueueOf, Loc
<1>8. /\ IsFiniteSet(Live')
      /\ Cardinality(Live') = Cardinality(Live) + 1
      /\ Cardinality(Live) \in Nat
  BY <1>1, <1>4, FS_AddElement, FS_CardinalityType DEF CountInv
<1>9. \A loc : /\ Cardinality(In(loc, Live)) \in Nat
               /\ Cardinality(In(loc, Live)') =
                    Cardinality(In(loc, Live)) + (IF loc = op.loc THEN 1 ELSE 0)
  <2> TAKE loc
  <2>1. IsFiniteSet(In(loc, Live)) /\ Cardinality(In(loc, Live)) \in Nat
    BY Split DEF CountInv
  <2>2. CASE loc = op.loc
    <3>1. In(loc, Live)' = In(loc, Live) \cup {k} /\ k \notin In(loc, Live)
      BY <1>1, <1>4, <2>2 DEF In, k
    <3> QED BY <2>1, <2>2, <3>1, FS_AddElement, ZenonT(60)
  <2>3. CASE loc # op.loc
    <3>1. In(loc, Live)' = In(loc, Live)
      BY <1>4, <2>3 DEF In
    <3> QED BY <2>1, <2>3, <3>1
  <2> QED BY <2>2, <2>3
<1>10. CountInv'
  <2> DEFINE ns == Cardinality(In(LOC_SMALL, Live))
             nm == Cardinality(In(LOC_MAIN, Live))
             ns1 == Cardinality(In(LOC_SMALL, Live)')
             nm1 == Cardinality(In(LOC_MAIN, Live)')
  <2>1. \/ /\ main_live' = main_live + 1 /\ small_live' = small_live
           /\ nm1 = nm + 1 /\ ns1 = ns
        \/ /\ small_live' = small_live + 1 /\ main_live' = main_live
           /\ ns1 = ns + 1 /\ nm1 = nm
    BY <1>9 DEF LOC_SMALL, LOC_MAIN
  <2>2. /\ ns \in Nat /\ nm \in Nat
        /\ ShardCap > 0 => small_live < ns + small_cap
        /\ ShardCap > 0 => main_live <= nm + ShardCap - small_cap
    BY <1>9 DEF CountInv, DriftBounded
  <2> HIDE DEF ns, nm, ns1, nm1
  <2>3. /\ Cardinality(Live') <= total_live'
        /\ ShardCap > 0 => total_live' <= ShardCap
    BY <1>8, <2>1, ShardAssumption DEF CountInv, TypeOK, total_live, MustEvict
  <2>4. ShardCap > 0 => /\ small_live' < ns1 + small_cap
                        /\ main_live' <= nm1 + ShardCap - small_cap
    BY <2>1, <2>2, SmallCapBounds, ShardAssumption DEF TypeOK
  <2> QED BY <1>8, <2>3, <2>4 DEF CountInv, DriftBounded, ns1, nm1
<1>11. SweepInv'
  BY <1>2 DEF SweepInv
<1>12. GhostInv'
  BY <1>1, <1>2, <1>4 DEF GhostInv, k
<1> QED BY <1>6, <1>7, <1>10, <1>11, <1>12

(* What is left to count when the sweep evicts k.                          *)
LEMMA EvictCounts ==
  ASSUME Inv, NEW k \in Live, map' = Without({k})
  PROVE  /\ Live' = Live \ {k}
         /\ map' \in [Live' -> CacheEntry]
         /\ \A j \in Live' : map'[j] = map[j]
         /\ IsFiniteSet(Live')
         /\ Cardinality(Live) \in Nat
         /\ Cardinality(Live') = Cardinality(Live) - 1
         /\ \A loc : /\ Cardinality(In(loc, Live)) \in Nat
                     /\ Cardinality(In(loc, Live)') \in Nat
                     /\ Cardinality(In(loc, Live)') = Cardinality(In(loc, Live))
                          - (IF loc = map[k].loc THEN 1 ELSE 0)
<1> USE DEF Inv
<1>1. /\ Live' = Live \ {k}
      /\ map' \in [Live' -> CacheEntry]
      /\ \A j \in Live' : map'[j] = map[j]
  BY DEF Without, Live, TypeOK
<1>2. /\ IsFiniteSet(Live')
      /\ Cardinality(Live) \in Nat
      /\ Cardinality(Live') = Cardinality(Live) - 1
  BY <1>1, FS_RemoveElement, FS_CardinalityType DEF CountInv
<1>3. ASSUME NEW loc
      PROVE  /\ Cardinality(In(loc, Live)) \in Nat
             /\ Cardinality(In(loc, Live)') \in Nat
             /\ Cardinality(In(loc, Live)') = Cardinality(In(loc, Live))
                  - (IF loc = map[k].loc THEN 1 ELSE 0)
  <2>1. IsFiniteSet(In(loc, Live)) /\ Cardinality(In(loc, Live)) \in Nat
    BY Split DEF CountInv
  <2>2. CASE loc = map[k].loc
    <3>1. In(loc, Live)' = In(loc, Live) \ {k} /\ k \in In(loc, Live)
      BY <1>1, <2>2 DEF In
    <3> QED BY <2>1, <2>2, <3>1, FS_RemoveElement, FS_CardinalityType
  <2>3. CASE loc # map[k].loc
    <3>1. In(loc, Live)' = In(loc, Live)
      BY <1>1, <2>3 DEF In
    <3> QED BY <2>1, <2>3, <3>1
  <2> QED BY <2>2, <2>3
<1> QED BY <1>1, <1>2, <1>3

(* The key being inserted is not in the table, so a victim is another key; *)
(* one victim is enough to make room.                                      *)
LEMMA VictimSweepInv ==
  ASSUME Inv, pc \in {"evict_from_small", "evict_from_main"}, NEW k \in Live,
         Live' = Live \ {k}, pc' \in {"insert", "unwinding"}, op' = op, evicted' = evicted \cup {k},
         total_live' = total_live - 1
  PROVE  SweepInv'
<1> USE DEF Inv
<1>1. evicted' = {k} /\ k # op.key /\ k \in Key
  BY DEF SweepInv, TypeOK
<1>2. ~MustEvict' /\ ShardCap > 0
  BY ShardAssumption DEF SweepInv, CountInv, MustEvict, total_live, TypeOK
<1> QED BY <1>1, <1>2 DEF SweepInv

(* Promotion takes a slot from small whose entry may be in main already;   *)
(* the small counter being at its limit keeps the drift of main in bounds. *)
LEMMA PromoteStep ==
  ASSUME Inv, Promote
  PROVE  Inv'
<1> USE DEF Inv, Promote, PopSmall
<1> DEFINE k == SmallSlot
<1>1. /\ k \in Key /\ small' \in Seq(Key)
      /\ Slots(small) = Slots(small') \cup {k}
  BY SlotsTail DEF SmallSlot, TypeOK
<1>2. main' \in Seq(Key) /\ Slots(main') = Slots(main) \cup {k}
  BY <1>1, SlotsAppend DEF TypeOK
<1>3. /\ Live' = Live
      /\ map' \in [Live -> CacheEntry]
      /\ map'[k].loc = LOC_MAIN
      /\ \A j \in Live \ {k} : map'[j] = map[j]
  BY Zenon DEF Live, TypeOK, CacheEntry, Loc
<1>4. small_live' = small_live - 1 /\ main_live' = main_live + 1 /\ small_live > 0
  BY SweepFinds DEF TypeOK
<1>5. UNCHANGED total_live
  BY <1>4 DEF total_live, TypeOK
<1>6. /\ k \in Live /\ pc = "evict_from_small" /\ pc' = "insert"
      /\ evicted = {} /\ UNCHANGED <<ghost, op, evicted>>
  BY DEF SweepInv
<1> HIDE DEF k, Promote, PopSmall
<1>7. TypeOK'
  BY <1>1, <1>2, <1>3, <1>4, <1>6 DEF TypeOK
<1>8. LiveQueued'
  BY <1>1, <1>2, <1>3 DEF LiveQueued, QueueOf, LOC_SMALL, LOC_MAIN
<1>9. CountInv'
  <2> DEFINE ns == Cardinality(In(LOC_SMALL, Live))
             nm == Cardinality(In(LOC_MAIN, Live))
             ns1 == Cardinality(In(LOC_SMALL, Live)')
             nm1 == Cardinality(In(LOC_MAIN, Live)')
  <2>1. /\ IsFiniteSet(In(LOC_SMALL, Live)) /\ ns \in Nat
        /\ IsFiniteSet(In(LOC_MAIN, Live)) /\ nm \in Nat
    BY Split DEF CountInv
  <2>2. \/ ns1 = ns - 1 /\ nm1 = nm + 1
        \/ ns1 = ns /\ nm1 = nm /\ nm > 0
    <3>2. CASE map[k].loc = LOC_SMALL
      <4>1. /\ In(LOC_SMALL, Live)' = In(LOC_SMALL, Live) \ {k}
            /\ k \in In(LOC_SMALL, Live)
            /\ In(LOC_MAIN, Live)' = In(LOC_MAIN, Live) \cup {k}
            /\ k \notin In(LOC_MAIN, Live)
        BY <1>3, <1>6, <3>2 DEF In, LOC_SMALL, LOC_MAIN
      <4>2. ns1 = ns - 1
        BY <2>1, <4>1, FS_RemoveElement, Zenon
      <4>3. nm1 = nm + 1
        BY <2>1, <4>1, FS_AddElement, Zenon
      <4> QED BY <4>2, <4>3
    <3>3. CASE map[k].loc = LOC_MAIN
      <4>1. /\ In(LOC_SMALL, Live)' = In(LOC_SMALL, Live)
            /\ In(LOC_MAIN, Live)' = In(LOC_MAIN, Live)
            /\ In(LOC_MAIN, Live) # {}
        BY <1>3, <1>6, <3>3 DEF In, LOC_SMALL, LOC_MAIN
      <4> QED BY <2>1, <4>1, FS_EmptySet
    <3> QED BY <1>6, <3>2, <3>3 DEF TypeOK, CacheEntry, Loc
  <2>3. /\ ShardCap > 0 /\ small_live < ns + small_cap
        /\ main_live <= nm + ShardCap - small_cap
        /\ small_live >= small_cap /\ small_live + main_live <= ShardCap
    BY <1>6 DEF CountInv, DriftBounded, SweepInv, MustEvict, total_live
  <2> HIDE DEF ns, nm, ns1, nm1
  <2>4. small_live' < ns1 + small_cap /\ main_live' <= nm1 + ShardCap - small_cap
    BY <1>4, <2>1, <2>2, <2>3, SmallCapBounds, ShardAssumption DEF TypeOK
  <2> QED BY <1>3, <1>5, <2>4 DEF CountInv, DriftBounded, ns1, nm1
<1>10. SweepInv'
  BY <1>3, <1>6 DEF SweepInv
<1>11. GhostInv'
  BY <1>3, <1>6 DEF GhostInv
<1> QED BY <1>7, <1>8, <1>9, <1>10, <1>11

(* An entry evicted from small, which leaves its mark in the ghost set     *)
(* unless its drop panics.                                                 *)
LEMMA EvictFromSmallStep ==
  ASSUME Inv, EvictFromSmall \/ DropSmallPanics
  PROVE  Inv'
<1> USE DEF Inv
<1> DEFINE k == SmallSlot
<1>1. /\ k \in Live /\ pc = "evict_from_small" /\ pc' \in {"insert", "unwinding"}
      /\ map' = Without({k}) /\ ghost' \in {AddedToGhost(Hash[k]), ghost}
      /\ evicted' = evicted \cup {k}
      /\ UNCHANGED <<main, main_live, op>>
  BY DEF EvictFromSmall, DropSmallPanics, PopSmall
<1>2. /\ k \in Key /\ small' \in Seq(Key)
      /\ Slots(small) = Slots(small') \cup {k}
  BY SlotsTail, Zenon DEF EvictFromSmall, DropSmallPanics, PopSmall, SmallSlot, TypeOK
<1>3. /\ small_live \in Nat /\ main_live \in Nat
      /\ small_live' = small_live - 1 /\ small_live' \in Nat /\ main_live' = main_live
  BY SweepFinds DEF EvictFromSmall, DropSmallPanics, PopSmall, TypeOK
<1> HIDE DEF k
<1>4. Live' = Live \ {k} /\ map' \in [Live' -> CacheEntry]
      /\ \A j \in Live' : map'[j] = map[j]
  BY <1>1, EvictCounts, Zenon
<1>5. GhostInv' /\ ghost' \subseteq {Hash[j] : j \in Key}
  <2>1. IsFiniteSet(ghost') /\ Cardinality(ghost') <= ghost_cap
    <3>1. ghost_cap \in Nat /\ ghost_cap > 0
      BY <1>1, ShardAssumption DEF SweepInv, MustEvict, ghost_cap
    <3>2. CASE ghost' # ghost /\ Cardinality(ghost) >= ghost_cap
      <4>1. ghost' = {Hash[k]}
        BY <1>1, <3>2 DEF AddedToGhost
      <4>2. IsFiniteSet(ghost') /\ Cardinality(ghost') = 1
        BY <4>1, FS_Singleton, Zenon
      <4> QED BY <3>1, <4>2
    <3>3. CASE ghost' # ghost /\ ~(Cardinality(ghost) >= ghost_cap)
      <4>1. ghost' = ghost \cup {Hash[k]}
        BY <1>1, <3>3 DEF AddedToGhost
      <4>2. IsFiniteSet(ghost') /\ Cardinality(ghost') <= Cardinality(ghost) + 1
        <5>1. IsFiniteSet(ghost) /\ Cardinality(ghost) \in Nat
          BY FS_CardinalityType DEF GhostInv
        <5> QED BY <4>1, <5>1, FS_AddElement
      <4> QED BY <3>1, <3>3, <4>2, FS_CardinalityType DEF GhostInv
    <3>4. CASE ghost' = ghost
      BY <3>4 DEF GhostInv
    <3> QED BY <3>2, <3>3, <3>4
  <2>2. ghost' \subseteq ghost \cup {Hash[k]}
    BY <1>1 DEF AddedToGhost
  <2>3. op.key \in Key /\ op.key # k
    BY <1>1 DEF TypeOK, SweepInv
  <2>4. HashInjective => \A j \in Key \ {k} : Hash[j] # Hash[k]
    BY <1>2 DEF HashInjective
  <2> QED BY <1>1, <1>2, <1>4, <2>1, <2>2, <2>3, <2>4 DEF GhostInv, TypeOK
<1>6. TypeOK'
  BY <1>1, <1>2, <1>3, <1>4, <1>5, Zenon DEF TypeOK
<1>7. LiveQueued'
  BY <1>1, <1>2, <1>4, Zenon DEF LiveQueued, QueueOf
<1>8. CountInv'
  <2> DEFINE n == Cardinality(Live)
             ns == Cardinality(In(LOC_SMALL, Live))
             nm == Cardinality(In(LOC_MAIN, Live))
             n1 == Cardinality(Live')
             ns1 == Cardinality(In(LOC_SMALL, Live)')
             nm1 == Cardinality(In(LOC_MAIN, Live)')
  <2>1. /\ IsFiniteSet(Live') /\ n \in Nat /\ n1 = n - 1
        /\ ns \in Nat /\ nm \in Nat /\ ns1 \in Nat /\ nm1 \in Nat
        /\ ns1 = ns - (IF LOC_SMALL = map[k].loc THEN 1 ELSE 0)
        /\ nm1 = nm - (IF LOC_MAIN = map[k].loc THEN 1 ELSE 0)
    BY <1>1, EvictCounts
  <2>2. (ns1 = ns - 1 /\ nm1 = nm) \/ (ns1 = ns /\ nm1 = nm - 1)
    BY <1>1, <2>1 DEF TypeOK, CacheEntry, Loc, LOC_SMALL, LOC_MAIN
  <2>3. /\ ShardCap > 0 /\ small_live < ns + small_cap
        /\ main_live <= nm + ShardCap - small_cap
        /\ small_live >= small_cap /\ small_live + main_live <= ShardCap
        /\ n <= small_live + main_live
    BY <1>1 DEF CountInv, DriftBounded, SweepInv, MustEvict, total_live
  <2> HIDE DEF n, ns, nm, n1, ns1, nm1
  <2>4. /\ n1 <= small_live' + main_live' /\ small_live' + main_live' <= ShardCap
        /\ small_live' < ns1 + small_cap /\ main_live' <= nm1 + ShardCap - small_cap
    BY <1>3, <2>1, <2>2, <2>3, SmallCapBounds, ShardAssumption
  <2> QED BY <2>1, <2>4 DEF CountInv, DriftBounded, total_live, n1, ns1, nm1
<1>9. SweepInv'
  <2>1. total_live' = total_live - 1
    BY <1>3 DEF total_live
  <2> QED BY <1>1, <1>4, <2>1, VictimSweepInv, Zenon
<1> QED BY <1>5, <1>6, <1>7, <1>8, <1>9

(* An entry evicted from main, which leaves no mark.                       *)
LEMMA EvictFromMainStep ==
  ASSUME Inv, EvictFromMain \/ DropMainPanics
  PROVE  Inv'
<1> USE DEF Inv
<1> DEFINE k == MainSlot
<1>1. /\ k \in Live /\ pc = "evict_from_main" /\ pc' \in {"insert", "unwinding"}
      /\ map' = Without({k}) /\ evicted' = evicted \cup {k}
      /\ UNCHANGED <<small, ghost, small_live, op>>
  <2>1. CASE EvictFromMain
    BY <2>1 DEF EvictFromMain, PopMain
  <2>2. CASE DropMainPanics
    BY <2>2 DEF DropMainPanics, PopMain
  <2> QED BY <2>1, <2>2
<1>2. /\ k \in Key /\ main' \in Seq(Key)
      /\ Slots(main) = Slots(main') \cup {k}
  BY SlotsTail, Zenon DEF EvictFromMain, DropMainPanics, PopMain, MainSlot, TypeOK
<1>3. /\ small_live \in Nat /\ main_live \in Nat
      /\ main_live' = main_live - 1 /\ main_live' \in Nat /\ small_live' = small_live
  BY SweepFinds DEF EvictFromMain, DropMainPanics, PopMain, TypeOK
<1> HIDE DEF k
<1>4. Live' = Live \ {k} /\ map' \in [Live' -> CacheEntry]
      /\ \A j \in Live' : map'[j] = map[j]
  BY <1>1, EvictCounts, Zenon
<1>5. GhostInv'
  BY <1>1, <1>4 DEF GhostInv
<1>6. TypeOK'
  BY <1>1, <1>2, <1>3, <1>4, Zenon DEF TypeOK
<1>7. LiveQueued'
  BY <1>1, <1>2, <1>4, Zenon DEF LiveQueued, QueueOf
<1>8. CountInv'
  <2> DEFINE n == Cardinality(Live)
             ns == Cardinality(In(LOC_SMALL, Live))
             nm == Cardinality(In(LOC_MAIN, Live))
             n1 == Cardinality(Live')
             ns1 == Cardinality(In(LOC_SMALL, Live)')
             nm1 == Cardinality(In(LOC_MAIN, Live)')
  <2>1. /\ IsFiniteSet(Live') /\ n \in Nat /\ n1 = n - 1
        /\ ns \in Nat /\ nm \in Nat /\ ns1 \in Nat /\ nm1 \in Nat
        /\ ns1 = ns - (IF LOC_SMALL = map[k].loc THEN 1 ELSE 0)
        /\ nm1 = nm - (IF LOC_MAIN = map[k].loc THEN 1 ELSE 0)
    BY <1>1, EvictCounts
  <2>2. (ns1 = ns - 1 /\ nm1 = nm) \/ (ns1 = ns /\ nm1 = nm - 1)
    BY <1>1, <2>1 DEF TypeOK, CacheEntry, Loc, LOC_SMALL, LOC_MAIN
  <2>3. /\ ShardCap > 0
        /\ main_live <= nm + ShardCap - small_cap
        /\ small_live < small_cap /\ small_live + main_live <= ShardCap
        /\ n <= small_live + main_live
    BY <1>1 DEF CountInv, DriftBounded, SweepInv, MustEvict, total_live
  <2> HIDE DEF n, ns, nm, n1, ns1, nm1
  <2>4. /\ n1 <= small_live' + main_live' /\ small_live' + main_live' <= ShardCap
        /\ small_live' < ns1 + small_cap /\ main_live' <= nm1 + ShardCap - small_cap
    BY <1>3, <2>1, <2>2, <2>3, SmallCapBounds, ShardAssumption
  <2> QED BY <2>1, <2>4 DEF CountInv, DriftBounded, total_live, n1, ns1, nm1
<1>9. SweepInv'
  <2>1. total_live' = total_live - 1
    BY <1>3 DEF total_live
  <2> QED BY <1>1, <1>4, <2>1, VictimSweepInv, Zenon
<1> QED BY <1>5, <1>6, <1>7, <1>8, <1>9

-----------------------------------------------------------------------------
(* The theorems, for any keys, values, hash function and capacity.         *)

(* A new shard (ShardData::new) satisfies the invariant.                   *)
LEMMA InitInv == Init => Inv
<1> SUFFICES ASSUME Init PROVE Inv
  OBVIOUS
<1> USE DEF Init
<1>1. Live = {}
  BY DEF Live
<1>2. TypeOK
  BY <1>1 DEF TypeOK, Live
<1>3. LiveQueued
  BY <1>1 DEF LiveQueued
<1>4. CountInv
  <2>1. \A loc : Cardinality(In(loc, Live)) = 0
    BY <1>1, FS_EmptySet DEF In
  <2>2. DriftBounded
    BY <2>1, SmallCapBounds, ShardAssumption DEF DriftBounded
  <2> QED BY <1>1, <2>2, FS_EmptySet, ShardAssumption DEF CountInv, total_live
<1>5. SweepInv
  BY DEF SweepInv
<1>6. GhostInv
  BY <1>1, FS_EmptySet, ShardAssumption DEF GhostInv, ghost_cap
<1> QED BY <1>2, <1>3, <1>4, <1>5, <1>6 DEF Inv

(* Every operation of the shard, and every pass of its eviction loop,      *)
(* preserves the invariant.                                                *)
LEMMA StepInv == Inv /\ [Next]_vars => Inv'
<1> SUFFICES ASSUME Inv, [Next]_vars PROVE Inv'
  OBVIOUS
<1>1. ASSUME InsertStep PROVE Inv'
  BY <1>1, EvictOneStep, FinishInsertStep, PanicStep, SkipStep, PromoteStep,
     EvictFromSmallStep, SecondChanceStep, EvictFromMainStep DEF InsertStep
<1>2. ASSUME NextKeeping PROVE Inv'
  BY <1>1, <1>2, GetStep, GetMutStep, ReplaceStep, BeginInsertStep, ClearAllStep
    DEF NextKeeping
<1>3. ASSUME Next PROVE Inv'
  BY <1>2, <1>3, RemoveStep, RetainStep DEF Next
<1>4. CASE UNCHANGED vars
  <2>1. UNCHANGED <<map, small, main, ghost, small_live, main_live, pc, op, evicted>>
    BY <1>4 DEF vars, queues, counters, insertion
  <2>2. UNCHANGED <<Live, total_live, MustEvict>>
    BY <2>1 DEF Live, total_live, MustEvict
  <2>3. TypeOK' /\ LiveQueued' /\ SweepInv' /\ GhostInv'
    BY <2>1, <2>2 DEF Inv, TypeOK, LiveQueued, QueueOf, SweepInv, GhostInv
  <2>4. CountInv'
    BY <2>1, <2>2 DEF Inv, CountInv, DriftBounded, In
  <2> QED BY <2>3, <2>4 DEF Inv
<1> QED BY <1>3, <1>4

(* The invariant holds in every reachable state of the shard.              *)
THEOREM InvHolds == Spec => []Inv
BY InitInv, StepInv, PTL DEF Spec

(* The state keeps its shape; above all the counters the eviction loop     *)
(* decrements without saturation never underflow.                          *)
THEOREM TypeCorrect == Spec => []TypeOK
<1>1. Inv => TypeOK
  BY DEF Inv
<1> QED BY <1>1, InvHolds, PTL

(* A bounded shard never holds more than shard_cap entries, although the   *)
(* insertion trusts counters that removals may have left wrong.            *)
THEOREM CapacityHolds == Spec => []CapacityBound
<1>1. Inv => CapacityBound
  BY FS_CardinalityType, ShardAssumption
    DEF Inv, CountInv, CapacityBound, total_live, TypeOK
<1> QED BY <1>1, InvHolds, PTL

(* Every live entry keeps a slot in the queue its loc names.               *)
THEOREM LiveStaysQueued == Spec => []LiveQueued
<1>1. Inv => LiveQueued
  BY DEF Inv
<1> QED BY <1>1, InvHolds, PTL

(* small_live and main_live drift from the table only within bounds.       *)
THEOREM DriftStaysBounded == Spec => []DriftBounded
<1>1. Inv => DriftBounded
  BY DEF Inv, CountInv
<1> QED BY <1>1, InvHolds, PTL

(* The queue evict_one turns to always holds a live entry.                 *)
THEOREM EvictionAlwaysProgresses == Spec => []EvictionProgress
<1>1. Inv => EvictionProgress
  <2> SUFFICES ASSUME Inv PROVE EvictionProgress
    OBVIOUS
  <2>1. \A k \in In(LOC_SMALL, Live) : k \in Slots(small) \cap Live
    BY DEF Inv, LiveQueued, QueueOf, In
  <2>2. \A k \in In(LOC_MAIN, Live) : k \in Slots(main) \cap Live
    BY DEF Inv, LiveQueued, QueueOf, In, LOC_SMALL, LOC_MAIN
  <2> QED BY <2>1, <2>2, SweepFinds DEF EvictionProgress
<1> QED BY <1>1, InvHolds, PTL

(* One insertion evicts at most one entry, never the key it inserts.       *)
THEOREM OneVictimPerInsert == Spec => []OneVictim
<1>1. Inv => OneVictim
  <2> SUFFICES ASSUME Inv PROVE OneVictim
    OBVIOUS
  <2>1. CASE evicted = {}
    BY <2>1, FS_EmptySet DEF OneVictim
  <2>2. CASE evicted # {}
    <3>1. PICK x \in Key : x # op.key /\ evicted = {x}
      BY <2>2 DEF Inv, SweepInv
    <3>2. Cardinality(evicted) = 1
      BY <3>1, FS_Singleton
    <3> QED BY <3>1, <3>2 DEF OneVictim
  <2> QED BY <2>1, <2>2
<1> QED BY <1>1, InvHolds, PTL

(* The ghost set keeps to ghost_cap and, where the hash tells keys apart,  *)
(* marks no live key.                                                      *)
THEOREM GhostStaysSound == Spec => []GhostSound
<1>1. Inv => GhostSound
  BY DEF Inv, GhostInv, GhostSound
<1> QED BY <1>1, InvHolds, PTL

-----------------------------------------------------------------------------
(* An insertion as a whole.                                                *)

(* While an insertion is under way, only its own steps are taken.          *)
LEMMA OnlyTheInsertion ==
  ASSUME Next, pc # "idle"
  PROVE  InsertStep
BY Zenon DEF Next, NextKeeping, Get, GetMut, Replace, BeginInsert, ClearAll, Remove, Retain

(* A table with no new entry and no raised frequency has no more chances.  *)
LEMMA ChancesNeverGrow ==
  ASSUME Inv, Live' \subseteq Live,
         \A k \in Live' : /\ map[k].freq \in Int /\ map'[k].freq \in Int
                          /\ map'[k].freq <= map[k].freq
  PROVE  /\ Chances' \subseteq Chances
         /\ IsFiniteSet(Chances)
         /\ Cardinality(Chances) \in Nat /\ Cardinality(Chances') \in Nat
         /\ Cardinality(Chances') <= Cardinality(Chances)
<1>1. IsFiniteSet(Live) /\ IsFiniteSet(1..MAX_FREQ)
  <2>1. IsFiniteSet(Live)
    BY DEF Inv, CountInv
  <2>2. 1 \in Int /\ MAX_FREQ \in Int
    BY DEF MAX_FREQ
  <2>3. IsFiniteSet(1..MAX_FREQ)
    BY <2>2, FS_Interval, Zenon
  <2> QED BY <2>1, <2>3
<1>2. IsFiniteSet(Live \X (1..MAX_FREQ))
  BY <1>1, FS_Product, Zenon
<1>3. IsFiniteSet(Chances)
  BY <1>2, FS_Subset DEF Chances
<1>4. Chances' \subseteq Chances
  <2> SUFFICES ASSUME NEW c \in Chances' PROVE c \in Chances
    OBVIOUS
  <2>1. c \in Live' \X (1..MAX_FREQ) /\ c[2] <= map'[c[1]].freq
    BY DEF Chances
  <2>2. c[1] \in Live' /\ c[2] \in Int /\ c \in Live \X (1..MAX_FREQ)
    BY <2>1
  <2>3. c[2] <= map[c[1]].freq
    BY <2>1, <2>2
  <2> QED BY <2>2, <2>3 DEF Chances
<1> QED BY <1>3, <1>4, FS_Subset, FS_CardinalityType

(* pop_front makes a queue one slot shorter, push_back one longer.         *)
LEMMA QueueLengths ==
  ASSUME NEW q \in Seq(Key)
  PROVE  /\ Len(q) \in Nat
         /\ \A k \in Key : Len(Append(q, k)) = Len(q) + 1
         /\ q # <<>> => Tail(q) \in Seq(Key) /\ Len(Tail(q)) = Len(q) - 1
OBVIOUS

(* A step of the eviction loop leaves less to do, whichever it is.         *)
LEMMA LoopStepShrinks ==
  ASSUME Inv, InsertStep, pc' # "idle"
  PROVE  Work' < Work
<1> USE DEF Inv
<1> DEFINE n == Cardinality(Chances)
           n1 == Cardinality(Chances')
           a == Len(small)
           a1 == Len(small')
           b == Len(main)
           b1 == Len(main')
           turn == IF pc = "insert" THEN 1 ELSE 0
           turn1 == IF pc' = "insert" THEN 1 ELSE 0
<1>1. small \in Seq(Key) /\ main \in Seq(Key)
  BY DEF TypeOK
<1>2. a \in Nat /\ b \in Nat
  BY <1>1, QueueLengths
<1>3. \A k \in Live : map[k] \in CacheEntry
  BY DEF TypeOK
<1>4. \A k \in Live : map[k].freq \in 0..MAX_FREQ
  BY <1>3 DEF CacheEntry
<1>5. \A k \in Live : map[k].freq \in Int
  BY <1>4 DEF MAX_FREQ
<1>6. ASSUME map' = map
      PROVE  n1 = n /\ n \in Nat
  <2>1. Live' = Live
    BY <1>6 DEF Live
  <2>2. n \in Nat
    BY <1>5, <1>6, <2>1, ChancesNeverGrow
  <2>3. Chances' = Chances
    BY <1>6, <2>1 DEF Chances
  <2> QED BY <2>2, <2>3
<1>7. ASSUME NEW k \in Live, map' = Without({k})
      PROVE  n1 \in Nat /\ n \in Nat /\ n1 <= n
  <2>1. Live' = Live \ {k} /\ \A j \in Live' : map'[j] = map[j]
    BY <1>7, EvictCounts
  <2> QED BY <1>5, <2>1, ChancesNeverGrow
<1> SUFFICES n1 + 4 * a1 + 2 * b1 + turn1 < n + 4 * a + 2 * b + turn
  BY DEF Work
<1> HIDE DEF n, n1
<1>8. CASE EvictOne
  <2>1. map' = map /\ small' = small /\ main' = main /\ turn = 1 /\ turn1 = 0
    BY <1>8 DEF EvictOne, queues
  <2> QED BY <1>2, <1>6, <2>1
<1>9. CASE FinishInsert \/ ClonePanics \/ Unwind
  BY <1>9 DEF FinishInsert, ClonePanics, Unwind, EndInsert
<1>10. CASE SkipSmall
  <2>1. small # <<>> /\ small' = Tail(small) /\ pc' = pc /\ map' = map /\ main' = main
    BY <1>10, SweepFinds DEF SkipSmall
  <2>2. a1 = a - 1
    BY <1>1, <2>1, QueueLengths
  <2> QED BY <1>2, <1>6, <2>1, <2>2
<1>11. CASE Promote
  <2>1. /\ small # <<>> /\ small' = Tail(small) /\ main' = Append(main, SmallSlot)
        /\ SmallSlot \in Live /\ turn = 0 /\ turn1 = 1
        /\ map' = [map EXCEPT ![SmallSlot].loc = LOC_MAIN]
    BY <1>11 DEF Promote, PopSmall
  <2>2. SmallSlot \in Key
    BY <2>1 DEF TypeOK
  <2>3. a1 = a - 1 /\ b1 = b + 1
    BY <1>1, <2>1, <2>2, QueueLengths
  <2>4. Live' = Live /\ \A k \in Live : map'[k].freq = map[k].freq
    BY <1>3, <2>1 DEF Live, CacheEntry
  <2>5. n1 \in Nat /\ n \in Nat /\ n1 <= n
    BY <1>5, <2>4, ChancesNeverGrow DEF n, n1
  <2> QED BY <1>2, <2>1, <2>3, <2>5
<1>12. CASE EvictFromSmall \/ DropSmallPanics
  <2>1. /\ small # <<>> /\ small' = Tail(small) /\ main' = main
        /\ SmallSlot \in Live /\ turn = 0 /\ turn1 \in {0, 1}
        /\ map' = Without({SmallSlot})
    BY <1>12 DEF EvictFromSmall, DropSmallPanics, PopSmall
  <2>2. a1 = a - 1
    BY <1>1, <2>1, QueueLengths
  <2> QED BY <1>2, <1>7, <2>1, <2>2
<1>13. CASE SkipMain
  <2>1. main # <<>> /\ main' = Tail(main) /\ pc' = pc /\ map' = map /\ small' = small
    BY <1>13, SweepFinds DEF SkipMain
  <2>2. b1 = b - 1
    BY <1>1, <2>1, QueueLengths
  <2> QED BY <1>2, <1>6, <2>1, <2>2
<1>14. CASE SecondChance
  <2> DEFINE k == MainSlot
             f == map[k].freq
  <2>1. /\ main # <<>> /\ main' = Append(Tail(main), k) /\ small' = small
        /\ k \in Live /\ f > 0 /\ pc' = pc
        /\ map' = [map EXCEPT ![k].freq = @ - 1]
    BY <1>14 DEF SecondChance, PopMain, insertion
  <2>2. k \in Key
    BY <2>1 DEF TypeOK
  <2>3. Tail(main) \in Seq(Key) /\ Len(Tail(main)) = b - 1
    BY <1>1, <2>1, QueueLengths
  <2>4. b1 = b
    BY <1>2, <2>1, <2>2, <2>3, QueueLengths
  <2>5. /\ Live' = Live
        /\ map'[k].freq = f - 1
        /\ \A j \in Live \ {k} : map'[j].freq = map[j].freq
    BY <1>3, <2>1 DEF Live, CacheEntry
  <2>6. f \in 1..MAX_FREQ
    BY <1>4, <2>1 DEF MAX_FREQ
  <2>7. \A j \in Live' : /\ map[j].freq \in Int /\ map'[j].freq \in Int
                         /\ map'[j].freq <= map[j].freq
    BY <1>5, <2>1, <2>5
  <2>8. /\ Chances' \subseteq Chances /\ IsFiniteSet(Chances)
        /\ n \in Nat /\ n1 \in Nat
    BY <2>5, <2>7, ChancesNeverGrow DEF n, n1
  <2>9. <<k, f>> \in Chances
    BY <2>1, <2>6 DEF Chances, MAX_FREQ
  <2>10. <<k, f>> \notin Chances'
    <3>1. ~(f <= map'[k].freq)
      BY <2>5, <2>6 DEF MAX_FREQ
    <3> QED BY <3>1 DEF Chances
  <2>11. n1 < n
    <3>1. Chances' \in SUBSET (Chances \ {<<k, f>>})
      BY <2>8, <2>10
    <3>2. /\ IsFiniteSet(Chances \ {<<k, f>>})
          /\ Cardinality(Chances \ {<<k, f>>}) = n - 1
      BY <2>8, <2>9, FS_RemoveElement, Zenon DEF n
    <3>3. n1 <= n - 1
      BY <3>1, <3>2, FS_Subset DEF n1
    <3> QED BY <2>8, <3>3
  <2> QED BY <1>2, <2>1, <2>4, <2>8, <2>11
<1>15. CASE EvictFromMain \/ DropMainPanics
  <2>1. /\ main # <<>> /\ main' = Tail(main) /\ small' = small
        /\ MainSlot \in Live /\ turn = 0 /\ turn1 \in {0, 1}
        /\ map' = Without({MainSlot})
    BY <1>15 DEF EvictFromMain, DropMainPanics, PopMain
  <2>2. b1 = b - 1
    BY <1>1, <2>1, QueueLengths
  <2> QED BY <1>2, <1>7, <2>1, <2>2
<1> QED BY <1>8, <1>9, <1>10, <1>11, <1>12, <1>13, <1>14, <1>15 DEF InsertStep

(* No insertion loops for ever: each step of it that is not its last uses  *)
(* up some of the finite work it began with, for any capacity and queues   *)
(* of any length.                                                          *)
THEOREM WorkAlwaysShrinks == Spec => WorkShrinks
<1>1. Inv /\ [Next]_vars => [pc # "idle" /\ pc' # "idle" => Work' < Work]_vars
  BY OnlyTheInsertion, LoopStepShrinks
<1> QED BY <1>1, InvHolds, PTL DEF Spec, WorkShrinks

(* A step that does not end an insertion keeps the keys it began with.     *)
LEMMA LoopStepKeepsBefore ==
  ASSUME Inv, InsertStep, pc' # "idle"
  PROVE  Before' = Before /\ op' = op
<1> USE DEF Inv
<1>1. CASE EvictOne \/ SkipSmall \/ SkipMain
  BY <1>1 DEF EvictOne, SkipSmall, SkipMain, Before, Live
<1>2. CASE FinishInsert \/ ClonePanics \/ Unwind
  BY <1>2 DEF FinishInsert, ClonePanics, Unwind, EndInsert
<1>3. CASE Promote
  <2>1. Live' = Live
    BY <1>3 DEF Promote, Live
  <2> QED BY <1>3, <2>1 DEF Promote, Before
<1>4. CASE SecondChance
  <2>1. Live' = Live
    BY <1>4 DEF SecondChance, Live
  <2> QED BY <1>4, <2>1 DEF SecondChance, insertion, Before
<1>5. ASSUME NEW k \in Live, map' = Without({k}), evicted' = evicted \cup {k}
      PROVE  Before' = Before
  <2>1. Live' = Live \ {k}
    BY <1>5, EvictCounts
  <2> QED BY <1>5, <2>1 DEF Before
<1>6. CASE EvictFromSmall \/ DropSmallPanics
  BY <1>5, <1>6 DEF EvictFromSmall, DropSmallPanics
<1>7. CASE EvictFromMain \/ DropMainPanics
  BY <1>5, <1>7 DEF EvictFromMain, DropMainPanics
<1> QED BY <1>1, <1>2, <1>3, <1>4, <1>6, <1>7 DEF InsertStep

(* What is in the table during an insertion is what was there before it,   *)
(* but for at most one victim, which only a bounded shard has.             *)
LEMMA LiveIsAfterEviction ==
  ASSUME Inv
  PROVE  Live \in AfterEviction
<1> USE DEF Inv
<1>1. CASE evicted = {}
  <2>1. Live = Before \ {}
    BY <1>1 DEF Before
  <2> QED BY <2>1, Zenon DEF AfterEviction
<1>2. CASE evicted # {}
  <2>1. ShardCap > 0
    BY <1>2 DEF SweepInv
  <2>2. PICK x \in Key \ Live : evicted = {x}
    BY <1>2 DEF SweepInv
  <2>3. x \in Before /\ Live = Before \ {x}
    BY <2>2 DEF Before
  <2>4. {x} \in IF ShardCap = 0 THEN {} ELSE {{k} : k \in Before}
    BY <2>1, <2>3
  <2> QED BY <2>3, <2>4, Zenon DEF AfterEviction
<1> QED BY <1>1, <1>2

(* The last step of an insertion has one of the two outcomes.              *)
LEMMA LastStepOutcome ==
  ASSUME Inv, InsertStep, pc' = "idle"
  PROVE  Live' \in AfterInsert \cup AfterEviction
<1>1. Live \in AfterEviction
  BY LiveIsAfterEviction
<1>2. CASE ClonePanics \/ Unwind
  <2>1. Live' = Live
    BY <1>2 DEF ClonePanics, Unwind, Live
  <2> QED BY <1>1, <2>1
<1>3. CASE FinishInsert
  <2>1. Live' = Live \cup {op.key}
    BY <1>3 DEF FinishInsert, With, Live
  <2>2. ShardCap > 0 => total_live < ShardCap
    BY <1>3, ShardAssumption DEF FinishInsert, MustEvict, total_live, Inv, TypeOK
  <2>3. Cardinality(Live) <= total_live /\ Cardinality(Live) \in Nat /\ total_live \in Nat
    BY FS_CardinalityType DEF Inv, CountInv, TypeOK, total_live
  <2>4. ShardCap > 0 => Cardinality(Live) < ShardCap
    BY <2>2, <2>3, ShardAssumption
  <2> QED BY <1>1, <2>1, <2>4 DEF AfterInsert
<1>4. CASE EvictOne \/ SkipSmall \/ Promote \/ EvictFromSmall \/ DropSmallPanics
  BY <1>4 DEF EvictOne, SkipSmall, Promote, EvictFromSmall, DropSmallPanics, PopSmall
<1>5. CASE SkipMain \/ SecondChance \/ EvictFromMain \/ DropMainPanics
  BY <1>5 DEF SkipMain, SecondChance, EvictFromMain, DropMainPanics, PopMain, insertion
<1> QED BY <1>2, <1>3, <1>4, <1>5 DEF InsertStep

(* Whatever the eviction loop does on the way, an insertion comes to what  *)
(* NeoCache takes it for: one step to a table with the key and without at  *)
(* most one other, or, if it panics, to one without at most one key.       *)
THEOREM InsertHasOutcome == Spec => InsertOutcome
<1>1. Inv /\ [Next]_vars =>
        [pc # "idle" => IF pc' = "idle" THEN Live' \in AfterInsert \cup AfterEviction
                        ELSE Before' = Before /\ op' = op]_vars
  BY OnlyTheInsertion, LoopStepKeepsBefore, LastStepOutcome
<1> QED BY <1>1, InvHolds, PTL DEF Spec, InsertOutcome
=============================================================================
