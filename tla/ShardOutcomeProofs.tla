------------------------- MODULE ShardOutcomeProofs -------------------------
(***************************************************************************)
(* What users of a shard rely on, for any keys, values, hash function and  *)
(* capacity; both rest on the invariant of ShardProofs.                    *)
(*                                                                         *)
(* While the program removes no entry singly (SpecKeeping), the queues and *)
(* the counters describe the table exactly: KeepingInv adds to Inv that    *)
(* each queue is, slot for slot, the set of entries whose loc names it.    *)
(*                                                                         *)
(* A shard implements a bounded map.  Each step of the shard is a step of  *)
(* the map or leaves it alone; Inv supplies what the map's guards ask.     *)
(***************************************************************************)
EXTENDS ShardRefinement, ShardProofs

-----------------------------------------------------------------------------
(* A program that removes no entry singly.                                 *)

Distinct(q) == \A i, j \in 1..Len(q) : q[i] = q[j] => i = j

(* Queue q and counter n describe the entries in S: no stale slot, no      *)
(* second slot, no miscount.                                               *)
Tracks(q, n, S) ==
  /\ Distinct(q)
  /\ Slots(q) = S
  /\ IsFiniteSet(S)
  /\ Len(q) = Cardinality(S)
  /\ n = Cardinality(S)

KeepingInv ==
  /\ Inv
  /\ Tracks(small, small_live, In(LOC_SMALL, Live))
  /\ Tracks(main, main_live, In(LOC_MAIN, Live))

(* push_back and a count of one more keep up with an entry that is new.    *)
LEMMA TracksPush ==
  ASSUME NEW q \in Seq(Key), NEW n, NEW S, Tracks(q, n, S), NEW k \in Key, k \notin S
  PROVE  Tracks(Append(q, k), n + 1, S \cup {k})
<1>1. /\ Len(q) \in Nat
      /\ Len(Append(q, k)) = Len(q) + 1
      /\ \A i \in 1..Len(q) : Append(q, k)[i] = q[i]
      /\ Append(q, k)[Len(q) + 1] = k
  OBVIOUS
<1>2. \A i \in 1..Len(q) : q[i] # k
  BY DEF Tracks, Slots
<1>3. Distinct(Append(q, k))
  BY <1>1, <1>2 DEF Tracks, Distinct
<1>4. Slots(Append(q, k)) = S \cup {k}
  BY SlotsAppend DEF Tracks
<1>5. IsFiniteSet(S \cup {k}) /\ Cardinality(S \cup {k}) = Cardinality(S) + 1
  BY FS_AddElement DEF Tracks
<1> QED BY <1>1, <1>3, <1>4, <1>5 DEF Tracks

(* pop_front and a count of one less keep up with an entry that leaves.    *)
LEMMA TracksPop ==
  ASSUME NEW q \in Seq(Key), q # <<>>, NEW n, NEW S, Tracks(q, n, S)
  PROVE  Head(q) \in S /\ Tracks(Tail(q), n - 1, S \ {Head(q)})
<1>1. /\ Head(q) = q[1]
      /\ Len(q) \in Nat \ {0}
      /\ Len(Tail(q)) = Len(q) - 1
      /\ \A i \in 1..Len(Tail(q)) : Tail(q)[i] = q[i + 1]
  OBVIOUS
<1>2. Distinct(Tail(q))
  BY <1>1 DEF Tracks, Distinct
<1>3. Head(q) \notin Slots(Tail(q))
  BY <1>1 DEF Tracks, Distinct, Slots
<1>4. Head(q) \in S /\ Slots(Tail(q)) = S \ {Head(q)}
  BY <1>3, SlotsTail DEF Tracks
<1>5. /\ IsFiniteSet(S \ {Head(q)})
      /\ Cardinality(S \ {Head(q)}) = Cardinality(S) - 1
  BY <1>4, FS_RemoveElement DEF Tracks
<1> QED BY <1>1, <1>2, <1>4, <1>5 DEF Tracks

(* A queue with nothing in it describes no entries.                        *)
LEMMA TracksNothing == Tracks(<<>>, 0, {})
BY FS_EmptySet DEF Tracks, Distinct, Slots

-----------------------------------------------------------------------------
(* Where the entries are after a step.                                     *)

(* A step that moves no entry between the queues and erases none.          *)
LEMMA KeepsPlaces ==
  ASSUME Live' = Live, \A k \in Live : map'[k].loc = map[k].loc
  PROVE  \A loc : In(loc, Live)' = In(loc, Live)
BY DEF In

(* An eviction takes its victim out of the queue that its loc names.       *)
LEMMA ErasedFrom ==
  ASSUME NEW k \in Live, map' = Without({k})
  PROVE  \A loc : In(loc, Live)' = In(loc, Live) \ {k}
BY DEF In, Without, Live

(* The victim of the sweep is in the queue it was popped from.             *)
LEMMA SmallSlotPlace ==
  ASSUME KeepingInv, small # <<>>
  PROVE  /\ SmallSlot \in Key /\ SmallSlot \in Live
         /\ SmallSlot \in In(LOC_SMALL, Live) /\ SmallSlot \notin In(LOC_MAIN, Live)
<1>1. small \in Seq(Key)
  BY DEF KeepingInv, Inv, TypeOK
<1>2. SmallSlot \in Key
  BY <1>1, SlotsTail DEF SmallSlot
<1>3. SmallSlot \in In(LOC_SMALL, Live)
  BY <1>1, TracksPop, Zenon DEF KeepingInv, SmallSlot
<1> QED BY <1>2, <1>3 DEF In, LOC_SMALL, LOC_MAIN

(* The same for main.                                                      *)
LEMMA MainSlotPlace ==
  ASSUME KeepingInv, main # <<>>
  PROVE  /\ MainSlot \in Key /\ MainSlot \in Live
         /\ MainSlot \in In(LOC_MAIN, Live) /\ MainSlot \notin In(LOC_SMALL, Live)
<1>1. main \in Seq(Key)
  BY DEF KeepingInv, Inv, TypeOK
<1>2. MainSlot \in Key
  BY <1>1, SlotsTail DEF MainSlot
<1>3. MainSlot \in In(LOC_MAIN, Live)
  BY <1>1, TracksPop, Zenon DEF KeepingInv, MainSlot
<1> QED BY <1>2, <1>3 DEF In, LOC_SMALL, LOC_MAIN

-----------------------------------------------------------------------------
(* One lemma per kind of step.                                             *)

(* Steps that touch neither queues nor counters nor any loc.               *)
LEMMA KeepingInPlace ==
  ASSUME KeepingInv, Inv', Live' = Live, \A k \in Live : map'[k].loc = map[k].loc,
         UNCHANGED <<small, main, small_live, main_live>>
  PROVE  KeepingInv'
BY KeepsPlaces DEF KeepingInv

(* A new entry gets the one slot that it needs.                            *)
LEMMA KeepingFinish ==
  ASSUME KeepingInv, Inv', FinishInsert
  PROVE  KeepingInv'
<1> DEFINE k == op.key
           e == NewEntry(op.value, op.loc)
<1>1. k \in Key /\ op.loc \in Loc /\ k \notin Live /\ small \in Seq(Key) /\ main \in Seq(Key)
  BY DEF FinishInsert, KeepingInv, Inv, TypeOK, SweepInv
<1>2. map' = With(k, e) /\ e.loc = op.loc
  BY DEF FinishInsert, NewEntry
<1>3. \A loc : In(loc, Live)' = IF loc = op.loc THEN In(loc, Live) \cup {k} ELSE In(loc, Live)
  BY <1>1, <1>2 DEF In, With, Live
<1>4. \A loc : k \notin In(loc, Live)
  BY <1>1 DEF In
<1>5. CASE op.loc = LOC_MAIN
  <2>1. main' = Append(main, k) /\ main_live' = main_live + 1 /\ UNCHANGED <<small, small_live>>
    BY <1>5 DEF FinishInsert, LOC_SMALL, LOC_MAIN
  <2>2. In(LOC_MAIN, Live)' = In(LOC_MAIN, Live) \cup {k} /\ In(LOC_SMALL, Live)' = In(LOC_SMALL, Live)
    BY <1>3, <1>5 DEF LOC_SMALL, LOC_MAIN
  <2> QED BY <1>1, <1>4, <2>1, <2>2, TracksPush DEF KeepingInv
<1>6. CASE op.loc = LOC_SMALL
  <2>1. small' = Append(small, k) /\ small_live' = small_live + 1 /\ UNCHANGED <<main, main_live>>
    BY <1>6 DEF FinishInsert, LOC_SMALL, LOC_MAIN
  <2>2. In(LOC_SMALL, Live)' = In(LOC_SMALL, Live) \cup {k} /\ In(LOC_MAIN, Live)' = In(LOC_MAIN, Live)
    BY <1>3, <1>6 DEF LOC_SMALL, LOC_MAIN
  <2> QED BY <1>1, <1>4, <2>1, <2>2, TracksPush DEF KeepingInv
<1> QED BY <1>1, <1>5, <1>6 DEF Loc

(* Without removals a popped slot is never stale.                          *)
LEMMA KeepingSkip ==
  ASSUME KeepingInv, Inv', SkipSmall \/ SkipMain
  PROVE  KeepingInv'
<1>1. UNCHANGED <<map, small, main, small_live, main_live>>
  BY SmallSlotPlace, MainSlotPlace DEF SkipSmall, SkipMain, counters
<1> QED BY <1>1, KeepingInPlace DEF Live

(* Promotion moves the slot and the count along with the entry.            *)
LEMMA KeepingPromote ==
  ASSUME KeepingInv, Inv', Promote
  PROVE  KeepingInv'
<1> DEFINE k == SmallSlot
<1>1. /\ small # <<>> /\ small' = Tail(small) /\ main' = Append(main, k)
      /\ small_live' = small_live - 1 /\ main_live' = main_live + 1
      /\ map' = [map EXCEPT ![k].loc = LOC_MAIN]
  BY DEF Promote, PopSmall
<1>2. /\ k \in Key /\ k \in Live /\ k \in In(LOC_SMALL, Live) /\ k \notin In(LOC_MAIN, Live)
      /\ small \in Seq(Key) /\ main \in Seq(Key) /\ map \in [Live -> CacheEntry]
  BY <1>1, SmallSlotPlace DEF KeepingInv, Inv, TypeOK
<1>3. Live' = Live /\ \A x \in Live : map'[x].loc = IF x = k THEN LOC_MAIN ELSE map[x].loc
  BY <1>1, <1>2 DEF Live, CacheEntry
<1>4. /\ In(LOC_SMALL, Live)' = In(LOC_SMALL, Live) \ {k}
      /\ In(LOC_MAIN, Live)' = In(LOC_MAIN, Live) \cup {k}
  BY <1>2, <1>3 DEF In, LOC_SMALL, LOC_MAIN
<1>5. Tracks(small, small_live, In(LOC_SMALL, Live))'
  BY <1>1, <1>2, <1>4, TracksPop DEF KeepingInv, SmallSlot
<1>6. Tracks(main, main_live, In(LOC_MAIN, Live))'
  BY <1>1, <1>2, <1>4, TracksPush DEF KeepingInv
<1> QED BY <1>5, <1>6 DEF KeepingInv

(* An eviction, panicking or not, pops the only slot of its victim.        *)
LEMMA KeepingEvict ==
  ASSUME KeepingInv, Inv',
         EvictFromSmall \/ DropSmallPanics \/ EvictFromMain \/ DropMainPanics
  PROVE  KeepingInv'
<1>1. small \in Seq(Key) /\ main \in Seq(Key)
  BY DEF KeepingInv, Inv, TypeOK
<1>2. CASE EvictFromSmall \/ DropSmallPanics
  <2>1. /\ small # <<>> /\ small' = Tail(small) /\ small_live' = small_live - 1
        /\ map' = Without({SmallSlot}) /\ UNCHANGED <<main, main_live>>
    BY <1>2 DEF EvictFromSmall, DropSmallPanics, PopSmall
  <2>2. SmallSlot \in Live /\ SmallSlot \notin In(LOC_MAIN, Live)
    BY <2>1, SmallSlotPlace
  <2>3. \A loc : In(loc, Live)' = In(loc, Live) \ {SmallSlot}
    BY <2>1, <2>2, ErasedFrom
  <2>4. /\ In(LOC_SMALL, Live)' = In(LOC_SMALL, Live) \ {SmallSlot}
        /\ In(LOC_MAIN, Live)' = In(LOC_MAIN, Live)
    BY <2>2, <2>3
  <2> QED BY <1>1, <2>1, <2>4, TracksPop DEF KeepingInv, SmallSlot
<1>3. CASE EvictFromMain \/ DropMainPanics
  <2>1. /\ main # <<>> /\ main' = Tail(main) /\ main_live' = main_live - 1
        /\ map' = Without({MainSlot}) /\ UNCHANGED <<small, small_live>>
    BY <1>3 DEF EvictFromMain, DropMainPanics, PopMain
  <2>2. MainSlot \in Live /\ MainSlot \notin In(LOC_SMALL, Live)
    BY <2>1, MainSlotPlace
  <2>3. \A loc : In(loc, Live)' = In(loc, Live) \ {MainSlot}
    BY <2>1, <2>2, ErasedFrom
  <2>4. /\ In(LOC_MAIN, Live)' = In(LOC_MAIN, Live) \ {MainSlot}
        /\ In(LOC_SMALL, Live)' = In(LOC_SMALL, Live)
    BY <2>2, <2>3
  <2> QED BY <1>1, <2>1, <2>4, TracksPop DEF KeepingInv, MainSlot
<1> QED BY <1>2, <1>3

(* A second chance moves a slot to the back of main.                       *)
LEMMA KeepingSecondChance ==
  ASSUME KeepingInv, Inv', SecondChance
  PROVE  KeepingInv'
<1> DEFINE k == MainSlot
<1>1. /\ main # <<>> /\ main' = Append(Tail(main), k)
      /\ map' = [map EXCEPT ![k].freq = @ - 1] /\ UNCHANGED <<small, small_live, main_live>>
  BY DEF SecondChance, PopMain, counters
<1>2. /\ k \in Key /\ k \in Live /\ k \in In(LOC_MAIN, Live)
      /\ main \in Seq(Key) /\ Tail(main) \in Seq(Key) /\ map \in [Live -> CacheEntry]
      /\ main_live \in Nat
  BY <1>1, MainSlotPlace, SlotsTail DEF KeepingInv, Inv, TypeOK
<1>3. Live' = Live /\ \A x \in Live : map'[x].loc = map[x].loc
  BY <1>1, <1>2 DEF Live, CacheEntry
<1>4. \A loc : In(loc, Live)' = In(loc, Live)
  BY <1>3, KeepsPlaces
<1>5. Tracks(Tail(main), main_live - 1, In(LOC_MAIN, Live) \ {k})
  BY <1>1, <1>2, TracksPop DEF KeepingInv, MainSlot
<1>6. Tracks(Append(Tail(main), k), (main_live - 1) + 1, (In(LOC_MAIN, Live) \ {k}) \cup {k})
  BY <1>2, <1>5, TracksPush, Zenon
<1>7. (main_live - 1) + 1 = main_live /\ (In(LOC_MAIN, Live) \ {k}) \cup {k} = In(LOC_MAIN, Live)
  BY <1>2
<1> QED BY <1>1, <1>4, <1>6, <1>7, Zenon DEF KeepingInv

(* clear_all resets table, queues and counters together.                   *)
LEMMA KeepingClear ==
  ASSUME KeepingInv, Inv', ClearAll
  PROVE  KeepingInv'
<1>1. small' = <<>> /\ main' = <<>> /\ small_live' = 0 /\ main_live' = 0
  BY DEF ClearAll
<1>2. \A loc : In(loc, Live)' = {}
  BY DEF ClearAll, Without, In, Live
<1> QED BY <1>1, <1>2, TracksNothing, Zenon DEF KeepingInv

-----------------------------------------------------------------------------
(* A new shard is empty throughout.                                        *)
LEMMA KeepingInit == Init => KeepingInv
<1> SUFFICES ASSUME Init PROVE KeepingInv
  OBVIOUS
<1>1. small = <<>> /\ main = <<>> /\ small_live = 0 /\ main_live = 0
  BY DEF Init
<1>2. \A loc : In(loc, Live) = {}
  BY DEF Init, In, Live
<1> QED BY <1>1, <1>2, InitInv, TracksNothing, Zenon DEF KeepingInv

(* Every step of a program that removes no entry singly.                   *)
LEMMA KeepingStep == KeepingInv /\ [NextKeeping]_vars => KeepingInv'
<1> SUFFICES ASSUME KeepingInv, [NextKeeping]_vars PROVE KeepingInv'
  OBVIOUS
<1>1. Inv'
  BY StepInv DEF KeepingInv, Next
<1>2. map \in [Live -> CacheEntry]
  BY DEF KeepingInv, Inv, TypeOK
<1>3. ASSUME NEW k \in Key, NEW v \in Value, Get(k) \/ GetMut(k, v) \/ Replace(k, v)
      PROVE  KeepingInv'
  <2>1. Live' = Live /\ \A x \in Live : map'[x].loc = map[x].loc
    <3>1. CASE Get(k)
      BY <1>2, <3>1 DEF Get, Bumped, Live, CacheEntry
    <3>2. CASE GetMut(k, v)
      BY <1>2, <3>2 DEF GetMut, Bumped, Live, CacheEntry
    <3>3. CASE Replace(k, v)
      BY <1>2, <3>3 DEF Replace, Live, CacheEntry
    <3> QED BY <1>3, <3>1, <3>2, <3>3
  <2>2. UNCHANGED <<small, main, small_live, main_live>>
    BY <1>3 DEF Get, GetMut, Replace, queues, counters
  <2> QED BY <1>1, <2>1, <2>2, KeepingInPlace
<1>4. ASSUME NEW k \in Key, Get(k) PROVE KeepingInv'
  <2>1. Live' = Live /\ \A x \in Live : map'[x].loc = map[x].loc
    BY <1>2, <1>4 DEF Get, Bumped, Live, CacheEntry
  <2>2. UNCHANGED <<small, main, small_live, main_live>>
    BY <1>4 DEF Get, queues, counters
  <2> QED BY <1>1, <2>1, <2>2, KeepingInPlace
<1>5. ASSUME UNCHANGED <<map, small, main, small_live, main_live>> PROVE KeepingInv'
  BY <1>1, <1>5, KeepingInPlace DEF Live
<1>6. ASSUME NEW k \in Key, NEW v \in Value, BeginInsert(k, v) PROVE KeepingInv'
  BY <1>5, <1>6 DEF BeginInsert, queues, counters
<1>7. ASSUME InsertStep PROVE KeepingInv'
  <2>1. CASE EvictOne \/ ClonePanics \/ Unwind
    BY <1>5, <2>1 DEF EvictOne, ClonePanics, Unwind, queues, counters
  <2> QED BY <1>1, <1>7, <2>1, KeepingFinish, KeepingSkip, KeepingPromote, KeepingEvict,
             KeepingSecondChance DEF InsertStep
<1>8. CASE UNCHANGED vars
  BY <1>5, <1>8 DEF vars, queues, counters
<1> QED BY <1>1, <1>3, <1>4, <1>6, <1>7, <1>8, KeepingClear DEF NextKeeping

(* Queues and counters describe the table exactly in every reachable state *)
(* of a shard whose program removes no entry singly.                       *)
THEOREM KeepingInvHolds == SpecKeeping => []KeepingInv
BY KeepingInit, KeepingStep, PTL DEF SpecKeeping

(* Without removals small_live and main_live are what the documentation of *)
(* the fields says they are, through promotions, second chances, clears    *)
(* and panics.                                                             *)
THEOREM CountsStayExact == SpecKeeping => []LiveCountsExact
<1>1. KeepingInv => LiveCountsExact
  BY DEF KeepingInv, Tracks, LiveCountsExact
<1> QED BY <1>1, KeepingInvHolds, PTL

(* And the queues hold one slot per live entry and nothing else, so their  *)
(* memory is bounded by shard_cap.                                         *)
THEOREM NoSlotGoesStale == SpecKeeping => []NoStaleSlots
<1>1. KeepingInv => NoStaleSlots
  BY DEF KeepingInv, Tracks, NoStaleSlots, QueueOf, Loc, LOC_SMALL, LOC_MAIN
<1> QED BY <1>1, KeepingInvHolds, PTL

(* And an entry is evicted only when the shard really is full: the counters *)
(* that evict_one is called by do not run ahead of the table.              *)
THEOREM OnlyAFullShardEvicts == SpecKeeping => EvictsOnlyWhenFull
<1>1. ASSUME KeepingInv, [NextKeeping]_vars
      PROVE  [evicted' \subseteq evicted \/ Cardinality(Live) = ShardCap]_vars
  <2>1. ASSUME MustEvict PROVE Cardinality(Live) = ShardCap
    <3>1. total_live \in Nat /\ total_live >= ShardCap /\ total_live <= ShardCap
      BY <1>1, <2>1, ShardAssumption
        DEF MustEvict, KeepingInv, Inv, CountInv, TypeOK, total_live
    <3>2. Cardinality(Live) = Cardinality(In(LOC_SMALL, Live)) + Cardinality(In(LOC_MAIN, Live))
      BY <1>1, Split DEF KeepingInv, Inv, CountInv
    <3>3. Cardinality(Live) = total_live
      BY <1>1, <3>2 DEF KeepingInv, Tracks, total_live
    <3> QED BY <3>1, <3>3, ShardAssumption
  <2>2. CASE EvictFromSmall \/ DropSmallPanics \/ EvictFromMain \/ DropMainPanics
    <3>1. pc = "evict_from_small" \/ pc = "evict_from_main"
      BY <2>2 DEF EvictFromSmall, DropSmallPanics, EvictFromMain, DropMainPanics,
                  PopSmall, PopMain
    <3> QED BY <1>1, <2>1, <3>1 DEF KeepingInv, Inv, SweepInv
  <2>3. CASE evicted' \in {evicted, {}}
    BY <2>3
  <2>4. \/ UNCHANGED vars \/ evicted' \in {evicted, {}}
        \/ EvictFromSmall \/ DropSmallPanics \/ EvictFromMain \/ DropMainPanics
    BY <1>1 DEF NextKeeping, Get, GetMut, Replace, BeginInsert, ClearAll, InsertStep,
      EvictOne, FinishInsert, ClonePanics, Unwind, EndInsert, SkipSmall, Promote,
      SkipMain, SecondChance, insertion
  <2> QED BY <2>2, <2>3, <2>4
<1> QED BY <1>1, KeepingInvHolds, PTL DEF SpecKeeping, EvictsOnlyWhenFull

-----------------------------------------------------------------------------
(* The steps of the shard as steps of the map.                             *)

(* A step that keeps the values and the insertion in progress is none of   *)
(* the map's.                                                              *)
LEMMA Stutters ==
  ASSUME Live' = Live, \A k \in Live : map'[k].value = map[k].value, Pending' = Pending
  PROVE  UNCHANGED Map!bvars
BY DEF Map!bvars, Content

(* The operations on entries, and the beginning of an insertion.           *)
LEMMA WritesRefine ==
  ASSUME Inv, NEW k \in Key, NEW v \in Value,
         GetMut(k, v) \/ Replace(k, v) \/ BeginInsert(k, v)
  PROVE  Map!BNext
<1>1. map \in [Live -> CacheEntry] /\ Pending = <<>>
  BY DEF Inv, TypeOK, Pending, GetMut, Replace, BeginInsert
<1>2. CASE GetMut(k, v) \/ Replace(k, v)
  <2>1. /\ k \in Live /\ Live' = Live
        /\ \A x \in Live : map'[x].value = IF x = k THEN v ELSE map[x].value
    BY <1>1, <1>2, Zenon DEF GetMut, Replace, Bumped, Live, CacheEntry
  <2>2. Content' = [Content EXCEPT ![k] = v]
    BY <2>1, Zenon DEF Content
  <2>3. Pending' = Pending
    BY <1>2 DEF GetMut, Replace, insertion, Pending
  <2>4. Map!Write(k, v)
    BY <1>1, <2>1, <2>2, <2>3 DEF Map!Write, Map!Present, Content
  <2> QED BY <2>4 DEF Map!BNext
<1>3. CASE BeginInsert(k, v)
  <2>1. /\ k \notin Live /\ map' = map /\ pc' = "insert" /\ evicted' = evicted
        /\ op'.key = k /\ op'.value = v
    BY <1>3 DEF BeginInsert
  <2>2. evicted = {}
    BY <1>3 DEF BeginInsert, Inv, SweepInv
  <2>3. Pending' = <<k, v, 1>>
    BY <2>1, <2>2 DEF Pending
  <2>4. Content' = Content
    BY <2>1 DEF Content, Live
  <2>5. Map!Begin(k, v)
    BY <1>1, <2>1, <2>3, <2>4 DEF Map!Begin, Map!Present, Content
  <2> QED BY <2>5 DEF Map!BNext
<1> QED BY <1>2, <1>3

(* Removing, retaining and clearing are filters.                           *)
LEMMA FilterRefines ==
  ASSUME Inv, pc = "idle", Pending' = Pending, NEW S \in SUBSET Live, NEW w \in [Live -> Value],
         Live' = Live \ S, \A x \in Live \ S : map'[x].value = w[x]
  PROVE  Map!BNext
<1>1. DOMAIN Content = Live /\ Pending = <<>>
  BY DEF Content, Pending
<1>2. Content' = [x \in Live \ S |-> w[x]]
  BY DEF Content
<1>3. Map!Filter(S, w)
  BY <1>1, <1>2 DEF Map!Filter, Map!Present
<1> QED BY <1>1, <1>3 DEF Map!BNext, Map!Present

(* Removal of one key, and clear_all.                                      *)
LEMMA ErasureRefines ==
  ASSUME Inv, pc = "idle", Pending' = Pending, NEW S \in SUBSET Live, map' = Without(S)
  PROVE  Map!BNext
<1> DEFINE w == [x \in Live |-> map[x].value]
<1>1. w \in [Live -> Value]
  BY DEF Inv, TypeOK, CacheEntry
<1>2. Live' = Live \ S /\ \A x \in Live \ S : map'[x].value = w[x]
  BY DEF Without, Live
<1> HIDE DEF w
<1> QED BY <1>1, <1>2, FilterRefines, Zenon

(* The entry that the sweep evicts is the one that the insertion gives up. *)
LEMMA VictimRefines ==
  ASSUME Inv, pc \in {"evict_from_small", "evict_from_main"}, NEW k \in Live,
         map' = Without({k}), evicted' = evicted \cup {k}, op' = op,
         pc' \in {"insert", "unwinding"}
  PROVE  Map!BNext
<1>1. evicted = {} /\ ShardCap > 0
  BY DEF Inv, SweepInv, MustEvict
<1>2. Pending = <<op.key, op.value, 1>> /\ Pending' = <<op.key, op.value, 0>>
  BY <1>1 DEF Pending
<1>3. Content' = [x \in Live \ {k} |-> Content[x]]
  BY DEF Content, Without, Live
<1>4. DOMAIN Content = Live
  BY DEF Content
<1>5. Map!GiveUp(k)
  BY <1>1, <1>2, <1>3, <1>4 DEF Map!GiveUp, Map!Present
<1> QED BY <1>4, <1>5 DEF Map!BNext, Map!Present

(* The end of an insertion, with or without a panic.                       *)
LEMMA EndRefines ==
  ASSUME Inv, FinishInsert \/ ClonePanics \/ Unwind
  PROVE  Map!BNext
<1>1. Pending # <<>> /\ Pending' = <<>>
  BY DEF FinishInsert, ClonePanics, Unwind, EndInsert, Pending
<1>2. DOMAIN Content = Live
  BY DEF Content
<1>3. CASE FinishInsert
  <2>1. ShardCap > 0 => Cardinality(Live) < ShardCap
    BY <1>3, ShardAssumption, FS_CardinalityType
      DEF FinishInsert, MustEvict, Inv, CountInv, TypeOK, total_live
  <2>2. Pending[1] = op.key /\ Pending[2] = op.value
    BY <1>3 DEF FinishInsert, Pending
  <2>3. map' = With(op.key, NewEntry(op.value, op.loc))
    BY <1>3 DEF FinishInsert
  <2>4. Content' = [x \in Live \cup {op.key} |-> IF x = op.key THEN op.value ELSE Content[x]]
    BY <2>3 DEF Content, With, NewEntry, Live
  <2>5. Map!Cardinality(Live) = Cardinality(Live)
    BY DEF Map!Cardinality, Cardinality
  <2>6. Map!Commit
    BY <1>1, <1>2, <2>1, <2>2, <2>4, <2>5 DEF Map!Commit, Map!Present
  <2> QED BY <2>6 DEF Map!BNext
<1>4. CASE ClonePanics \/ Unwind
  <2>1. Map!Abandon
    BY <1>1, <1>4 DEF Map!Abandon, ClonePanics, Unwind, Content, Live
  <2> QED BY <2>1 DEF Map!BNext
<1> QED BY <1>3, <1>4

(* Steps of the sweep that only move slots and counts.                     *)
LEMMA SweepStutters ==
  ASSUME Inv, EvictOne \/ SkipSmall \/ SkipMain \/ Promote \/ SecondChance
  PROVE  UNCHANGED Map!bvars
<1>1. map \in [Live -> CacheEntry]
  BY DEF Inv, TypeOK
<1>2. Live' = Live /\ \A k \in Live : map'[k].value = map[k].value
  <2>1. EvictOne \/ SkipSmall \/ SkipMain => map' = map
    BY DEF EvictOne, SkipSmall, SkipMain
  <2>2. Promote => Live' = Live /\ \A k \in Live : map'[k].value = map[k].value
    BY <1>1 DEF Promote, Live, CacheEntry
  <2>3. SecondChance => Live' = Live /\ \A k \in Live : map'[k].value = map[k].value
    BY <1>1 DEF SecondChance, Live, CacheEntry
  <2> QED BY <2>1, <2>2, <2>3 DEF Live
<1>3. pc # "idle" /\ pc' # "idle" /\ op' = op /\ evicted' = evicted
  BY DEF EvictOne, SkipSmall, SkipMain, Promote, SecondChance, PopSmall, PopMain, insertion
<1>4. Pending' = Pending
  BY <1>3 DEF Pending
<1> QED BY <1>2, <1>4, Stutters

-----------------------------------------------------------------------------
(* Every step of the eviction loop.                                        *)
LEMMA InsertStepRefines ==
  ASSUME Inv, InsertStep
  PROVE  [Map!BNext]_(Map!bvars)
<1>1. CASE EvictFromSmall \/ DropSmallPanics
  BY <1>1, VictimRefines DEF EvictFromSmall, DropSmallPanics, PopSmall
<1>2. CASE EvictFromMain \/ DropMainPanics
  BY <1>2, VictimRefines DEF EvictFromMain, DropMainPanics, PopMain
<1> QED BY <1>1, <1>2, EndRefines, SweepStutters DEF InsertStep

(* Every step of a shard.                                                  *)
LEMMA StepRefines == Inv /\ [Next]_vars => [Map!BNext]_(Map!bvars)
<1> SUFFICES ASSUME Inv, [Next]_vars PROVE [Map!BNext]_(Map!bvars)
  OBVIOUS
<1>1. ASSUME NEW k \in Key, Get(k) PROVE UNCHANGED Map!bvars
  <2>1. map \in [Live -> CacheEntry]
    BY DEF Inv, TypeOK
  <2>2. Live' = Live /\ \A x \in Live : map'[x].value = map[x].value
    BY <1>1, <2>1 DEF Get, Bumped, Live, CacheEntry
  <2>3. Pending' = Pending
    BY <1>1 DEF Get, insertion, Pending
  <2> QED BY <2>2, <2>3, Stutters
<1>2. ASSUME ClearAll PROVE Map!BNext
  BY <1>2, ErasureRefines DEF ClearAll, insertion, Pending
<1>3. ASSUME NEW k \in Key, Remove(k) PROVE Map!BNext
  BY <1>3, ErasureRefines DEF Remove, insertion, Pending
<1>4. ASSUME NEW S \in SUBSET Live, NEW w \in [Live -> Value], Retain(S, w) PROVE Map!BNext
  <2>1. map \in [Live -> CacheEntry]
    BY DEF Inv, TypeOK
  <2>2. Live' = Live \ S /\ \A x \in Live \ S : map'[x].value = w[x]
    BY <1>4, <2>1 DEF Retain, Live, CacheEntry
  <2>3. pc = "idle" /\ Pending' = Pending
    BY <1>4 DEF Retain, insertion, Pending
  <2> QED BY <2>2, <2>3, FilterRefines
<1>5. CASE UNCHANGED vars
  BY <1>5 DEF vars, insertion, Map!bvars, Content, Pending, Live
<1> QED BY <1>1, <1>2, <1>3, <1>4, <1>5, WritesRefine, InsertStepRefines DEF Next, NextKeeping

(* A shard is a bounded map: no operation, eviction, clear or panic in an  *)
(* insertion loses a value it should keep or invents one, and an insertion *)
(* costs at most one entry.                                                *)
THEOREM ShardIsBoundedMap == Spec => ImplementsBoundedMap
<1>1. Init => Map!BInit
  BY DEF Init, Map!BInit, Content, Pending, Live
<1> QED BY <1>1, StepRefines, InvHolds, PTL DEF Spec, ImplementsBoundedMap, Map!BSpec
=============================================================================
