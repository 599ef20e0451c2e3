------------------------------- MODULE Shard -------------------------------
(***************************************************************************)
(* One shard of the cache: ShardData (src/src/shard.rs) with the           *)
(* operations that NeoCache (src/src/lib.rs) and the entry API             *)
(* (src/src/mapref/entry.rs) run on it while they hold the shard's lock.   *)
(*                                                                         *)
(* An operation is one atomic step: it runs under the shard's write lock,  *)
(* or it only bumps an atomic counter under the read lock.  The insertion  *)
(* of a new key is the exception: its eviction loop is modelled pop by     *)
(* pop, with pc telling where the inserting thread is.  Nothing else is    *)
(* enabled meanwhile, for the inserting thread has the write lock.         *)
(*                                                                         *)
(* The code keeps a queue as two parallel VecDeques, of hashes and of      *)
(* keys, that it pushes and pops together.  The model keeps the keys; Hash *)
(* gives the hash of a key.  RawTable::find compares keys, so it is        *)
(* membership in the domain of map.                                        *)
(***************************************************************************)
EXTENDS Integers, Sequences, FiniteSets

CONSTANTS
  Key,        \* the keys whose hash selects this shard
  Value,      \* the values stored
  Hash,       \* Hash[k] is the 64-bit hash of key k
  ShardCap,   \* shard_cap: live entries allowed; 0 switches eviction off
  SmallDiv,   \* small_cap is shard_cap / SmallDiv, rounded up: 10 in the code
  MaxSlots    \* bound of the model: queue slots an insertion may start from

ASSUME ShardAssumption ==
  /\ ShardCap \in Nat
  /\ SmallDiv \in Nat \ {0}
  /\ MaxSlots \in Nat
  /\ DOMAIN Hash = Key

VARIABLES
  map,         \* the hashbrown table: live key -> CacheEntry
  small,       \* small_hashes, small_keys: FIFO of slots, stale ones included
  main,        \* main_hashes, main_keys: likewise
  ghost,       \* ghost_set: hashes of keys evicted from small
  small_live,  \* the counter small_live
  main_live,   \* the counter main_live
  pc,          \* where the inserting thread is; "idle" when there is none
  op,          \* the insertion in progress: key, value, and the queue it is for
  evicted      \* history: the keys the insertion in progress has evicted

queues == <<small, main>>
counters == <<small_live, main_live>>
insertion == <<pc, op, evicted>>
vars == <<map, queues, ghost, counters, insertion>>

-----------------------------------------------------------------------------
(* Entries, counters and limits.                                           *)

MAX_FREQ == 3
LOC_SMALL == 0
LOC_MAIN == 1
Loc == {LOC_SMALL, LOC_MAIN}

(* The limits ShardData::new derives from shard_cap.  There is a main_cap  *)
(* too, which no code reads.                                               *)
AtLeast(n, floor) == IF n < floor THEN floor ELSE n
small_cap ==
  IF ShardCap = 0 THEN 0 ELSE AtLeast((ShardCap + SmallDiv - 1) \div SmallDiv, 1)
ghost_cap == ShardCap

CacheEntry == [value : Value, freq : 0..MAX_FREQ, loc : Loc]

(* CacheEntry::new                                                         *)
NewEntry(v, loc) == [value |-> v, freq |-> 0, loc |-> loc]

(* CacheEntry::bump_freq: an atomic increment that saturates.              *)
Mut_BumpedPast(e) == [e EXCEPT !.freq = @ + 1]
Bumped(e) == [e EXCEPT !.freq = IF @ < MAX_FREQ THEN @ + 1 ELSE @]

Live == DOMAIN map
In(loc, S) == {k \in S : map[k].loc = loc}
Slots(queue) == {queue[i] : i \in 1..Len(queue)}

total_live == small_live + main_live

(* usize::saturating_sub                                                   *)
SaturatingSub(n, d) == IF n < d THEN 0 ELSE n - d

Without(S) == [k \in Live \ S |-> map[k]]
With(k, e) == [x \in Live \cup {k} |-> IF x = k THEN e ELSE map[x]]

-----------------------------------------------------------------------------
(* Operations on entries that are there.                                   *)

(* _get, _try_get, _view, _contains_key: the frequency goes up and the     *)
(* value is read.                                                          *)
Get(k) ==
  /\ pc = "idle"
  /\ k \in Live
  /\ map' = [map EXCEPT ![k] = Bumped(@)]
  /\ UNCHANGED <<queues, ghost, counters, insertion>>

(* _get_mut, _try_get_mut, _alter: as Get, and the caller stores a value.  *)
GetMut(k, v) ==
  /\ pc = "idle"
  /\ k \in Live
  /\ map' = [map EXCEPT ![k] = [Bumped(@) EXCEPT !.value = v]]
  /\ UNCHANGED <<queues, ghost, counters, insertion>>

(* _insert of a key that is there; OccupiedEntry::{get_mut, insert,        *)
(* replace_entry}; a write through IterMut; a closure of _remove_if_mut    *)
(* that keeps the entry and changes it.  Neither freq nor loc changes.     *)
Replace(k, v) ==
  /\ pc = "idle"
  /\ k \in Live
  /\ map' = [map EXCEPT ![k].value = v]
  /\ UNCHANGED <<queues, ghost, counters, insertion>>

(* Erased entries are counted out of the queue their loc names.            *)
CountOut(S) ==
  /\ small_live' = SaturatingSub(small_live, Cardinality(In(LOC_SMALL, S)))
  /\ main_live' = SaturatingSub(main_live, Cardinality(In(LOC_MAIN, S)))

(* _remove, _remove_if, _remove_if_mut, OccupiedEntry::{remove,            *)
(* remove_entry}.  The slot stays in its queue.                            *)
Remove(k) ==
  /\ pc = "idle"
  /\ k \in Live
  /\ map' = Without({k})
  /\ CountOut({k})
  /\ UNCHANGED <<queues, ghost, insertion>>

(* _retain on this shard: the closure rejects the keys in S and leaves     *)
(* value w[k] in each other entry.                                         *)
Retain(S, w) ==
  /\ pc = "idle"
  /\ map' = [k \in Live \ S |-> [map[k] EXCEPT !.value = w[k]]]
  /\ CountOut(S)
  /\ UNCHANGED <<queues, ghost, insertion>>

(* ShardData::clear_all                                                    *)
ClearAll ==
  /\ pc = "idle"
  /\ map' = Without(Live)
  /\ small' = <<>>
  /\ main' = <<>>
  /\ ghost' = {}
  /\ small_live' = 0
  /\ main_live' = 0
  /\ UNCHANGED insertion

-----------------------------------------------------------------------------
(* Insertion of a new key: _insert and VacantEntry::{insert, insert_entry}.*)

NoOp == <<>>

(* A ghost hit sends the key to main and uses the mark up.                 *)
Mut_BeginInsertKeepsMark(k, v) ==
  /\ pc = "idle"
  /\ k \notin Live
  /\ Len(small) + Len(main) < MaxSlots
  /\ op' = [key |-> k, value |-> v,
            loc |-> IF Hash[k] \in ghost THEN LOC_MAIN ELSE LOC_SMALL]
  /\ pc' = "insert"
  /\ UNCHANGED <<map, queues, counters, ghost, evicted>>
BeginInsert(k, v) ==
  /\ pc = "idle"
  /\ k \notin Live
  /\ Len(small) + Len(main) < MaxSlots
  /\ op' = [key |-> k, value |-> v,
            loc |-> IF Hash[k] \in ghost THEN LOC_MAIN ELSE LOC_SMALL]
  /\ ghost' = ghost \ {Hash[k]}
  /\ pc' = "insert"
  /\ UNCHANGED <<map, queues, counters, evicted>>

(* The condition of the eviction loop.                                     *)
Mut_MustEvictLate == ShardCap > 0 /\ total_live > ShardCap
Mut_MustEvictEarly == ShardCap > 0 /\ total_live + 1 >= ShardCap
MustEvict == ShardCap > 0 /\ total_live >= ShardCap

(* evict_one                                                               *)
Mut_EvictOneOverLimit ==
  /\ pc = "insert"
  /\ MustEvict
  /\ pc' = IF small_live > small_cap THEN "evict_from_small" ELSE "evict_from_main"
  /\ UNCHANGED <<map, queues, ghost, counters, op, evicted>>
Mut_EvictOneSmallFirst ==
  /\ pc = "insert"
  /\ MustEvict
  /\ pc' = IF small # <<>> THEN "evict_from_small" ELSE "evict_from_main"
  /\ UNCHANGED <<map, queues, ghost, counters, op, evicted>>
EvictOne ==
  /\ pc = "insert"
  /\ MustEvict
  /\ pc' = IF small_live >= small_cap THEN "evict_from_small" ELSE "evict_from_main"
  /\ UNCHANGED <<map, queues, ghost, counters, op, evicted>>

EndInsert ==
  /\ pc' = "idle"
  /\ op' = NoOp
  /\ evicted' = {}

(* There is room: store the entry, push its slot, count it.                *)
FinishInsert ==
  /\ pc = "insert"
  /\ ~MustEvict
  /\ map' = With(op.key, NewEntry(op.value, op.loc))
  /\ \/ /\ op.loc = LOC_MAIN
        /\ main' = Append(main, op.key)
        /\ main_live' = main_live + 1
        /\ UNCHANGED <<small, small_live>>
     \/ /\ op.loc = LOC_SMALL
        /\ small' = Append(small, op.key)
        /\ small_live' = small_live + 1
        /\ UNCHANGED <<main, main_live>>
  /\ EndInsert
  /\ UNCHANGED ghost

(* K::clone panics after the eviction loop: the ghost mark is used up, the *)
(* victim is gone, and nothing is inserted.                                *)
ClonePanics ==
  /\ pc = "insert"
  /\ ~MustEvict
  /\ EndInsert
  /\ UNCHANGED <<map, queues, ghost, counters>>

(* The insertion unwinds after the drop of its victim has panicked.        *)
Unwind ==
  /\ pc = "unwinding"
  /\ EndInsert
  /\ UNCHANGED <<map, queues, ghost, counters>>

-----------------------------------------------------------------------------
(* evict_from_small: pop slots until one is live.                          *)

SmallSlot == Head(small)
PopSmall == pc = "evict_from_small" /\ small # <<>> /\ small' = Tail(small)

(* A stale slot is dropped; on an empty queue the sweep turns to main.      *)
SkipSmall ==
  /\ pc = "evict_from_small"
  /\ IF small = <<>> THEN pc' = "evict_from_main" /\ UNCHANGED small
     ELSE SmallSlot \notin Live /\ small' = Tail(small) /\ UNCHANGED pc
  /\ UNCHANGED <<map, main, ghost, counters, op, evicted>>

Mut_PromoteUncounted ==
  /\ PopSmall
  /\ SmallSlot \in Live
  /\ map[SmallSlot].freq > 0
  /\ map' = [map EXCEPT ![SmallSlot].loc = LOC_MAIN]
  /\ main' = Append(main, SmallSlot)
  /\ main_live' = main_live + 1
  /\ pc' = "insert"
  /\ UNCHANGED <<ghost, small_live, op, evicted>>
Mut_PromoteUnqueued ==
  /\ PopSmall
  /\ SmallSlot \in Live
  /\ map[SmallSlot].freq > 0
  /\ map' = [map EXCEPT ![SmallSlot].loc = LOC_MAIN]
  /\ small_live' = small_live - 1
  /\ main_live' = main_live + 1
  /\ pc' = "insert"
  /\ UNCHANGED <<ghost, main, op, evicted>>
Promote ==
  /\ PopSmall
  /\ SmallSlot \in Live
  /\ map[SmallSlot].freq > 0
  /\ map' = [map EXCEPT ![SmallSlot].loc = LOC_MAIN]
  /\ small_live' = small_live - 1
  /\ main' = Append(main, SmallSlot)
  /\ main_live' = main_live + 1
  /\ pc' = "insert"
  /\ UNCHANGED <<ghost, op, evicted>>

(* add_to_ghost                                                            *)
Mut_AddedToFullGhost(h) == ghost \cup {h}
AddedToGhost(h) == IF Cardinality(ghost) >= ghost_cap THEN {h} ELSE ghost \cup {h}

Mut_EvictFromSmallGoesOn ==
  /\ PopSmall
  /\ SmallSlot \in Live
  /\ map[SmallSlot].freq = 0
  /\ small_live' = small_live - 1
  /\ map' = Without({SmallSlot})
  /\ ghost' = AddedToGhost(Hash[SmallSlot])
  /\ evicted' = evicted \cup {SmallSlot}
  /\ UNCHANGED <<main, main_live, pc, op>>
EvictFromSmall ==
  /\ PopSmall
  /\ SmallSlot \in Live
  /\ map[SmallSlot].freq = 0
  /\ small_live' = small_live - 1
  /\ map' = Without({SmallSlot})
  /\ ghost' = AddedToGhost(Hash[SmallSlot])
  /\ pc' = "insert"
  /\ evicted' = evicted \cup {SmallSlot}
  /\ UNCHANGED <<main, main_live, op>>

(* The same, but the drop of what RawTable::remove returns panics: the     *)
(* victim is out of the table and is not marked in the ghost set.          *)
Mut_DropSmallPanicsUncounted ==
  /\ PopSmall
  /\ SmallSlot \in Live
  /\ map[SmallSlot].freq = 0
  /\ map' = Without({SmallSlot})
  /\ pc' = "unwinding"
  /\ evicted' = evicted \cup {SmallSlot}
  /\ UNCHANGED <<main, ghost, counters, op>>
DropSmallPanics ==
  /\ PopSmall
  /\ SmallSlot \in Live
  /\ map[SmallSlot].freq = 0
  /\ small_live' = small_live - 1
  /\ map' = Without({SmallSlot})
  /\ pc' = "unwinding"
  /\ evicted' = evicted \cup {SmallSlot}
  /\ UNCHANGED <<main, ghost, main_live, op>>

-----------------------------------------------------------------------------
(* evict_from_main: pop slots until one is live and has no second chance.  *)

MainSlot == Head(main)
PopMain == pc = "evict_from_main" /\ main # <<>>

(* A stale slot is dropped; on an empty queue evict_one returns.            *)
SkipMain ==
  /\ pc = "evict_from_main"
  /\ IF main = <<>> THEN pc' = "insert" /\ UNCHANGED main
     ELSE MainSlot \notin Live /\ main' = Tail(main) /\ UNCHANGED pc
  /\ UNCHANGED <<map, small, ghost, counters, op, evicted>>

Mut_SecondChanceForFree ==
  /\ PopMain
  /\ MainSlot \in Live
  /\ map[MainSlot].freq > 0
  /\ main' = Append(Tail(main), MainSlot)
  /\ UNCHANGED <<map, small, ghost, counters, insertion>>
SecondChance ==
  /\ PopMain
  /\ MainSlot \in Live
  /\ map[MainSlot].freq > 0
  /\ map' = [map EXCEPT ![MainSlot].freq = @ - 1]
  /\ main' = Append(Tail(main), MainSlot)
  /\ UNCHANGED <<small, ghost, counters, insertion>>

EvictFromMain ==
  /\ PopMain
  /\ MainSlot \in Live
  /\ map[MainSlot].freq = 0
  /\ main' = Tail(main)
  /\ main_live' = main_live - 1
  /\ map' = Without({MainSlot})
  /\ pc' = "insert"
  /\ evicted' = evicted \cup {MainSlot}
  /\ UNCHANGED <<small, ghost, small_live, op>>

(* The same, but the drop of the victim panics.                            *)
DropMainPanics ==
  /\ PopMain
  /\ MainSlot \in Live
  /\ map[MainSlot].freq = 0
  /\ main' = Tail(main)
  /\ main_live' = main_live - 1
  /\ map' = Without({MainSlot})
  /\ pc' = "unwinding"
  /\ evicted' = evicted \cup {MainSlot}
  /\ UNCHANGED <<small, ghost, small_live, op>>

-----------------------------------------------------------------------------
(* V::drop panics while entries are erased.  RawTable::erase takes an      *)
(* entry out of the table before it drops it.                              *)

(* clear_all stops at the entry whose drop panics: the entries in S are    *)
(* gone, and neither queues nor counters have been reset.                  *)
ClearPanics(S) ==
  /\ pc = "idle"
  /\ S # {}
  /\ map' = Without(S)
  /\ UNCHANGED <<queues, ghost, counters, insertion>>

(* _retain stops at the erased key k, which it has not counted out yet.    *)
RetainPanics(S, k, w) ==
  /\ pc = "idle"
  /\ k \notin S
  /\ map' = [x \in Live \ (S \cup {k}) |-> [map[x] EXCEPT !.value = w[x]]]
  /\ CountOut(S)
  /\ UNCHANGED <<queues, ghost, insertion>>

-----------------------------------------------------------------------------
Init ==
  /\ map = [k \in {} |-> k]
  /\ small = <<>>
  /\ main = <<>>
  /\ ghost = {}
  /\ small_live = 0
  /\ main_live = 0
  /\ pc = "idle"
  /\ op = NoOp
  /\ evicted = {}

InsertStep ==
  \/ EvictOne \/ FinishInsert \/ ClonePanics \/ Unwind
  \/ SkipSmall \/ Promote \/ EvictFromSmall \/ DropSmallPanics
  \/ SkipMain \/ SecondChance \/ EvictFromMain \/ DropMainPanics

(* What a program that never removes an entry can do.                      *)
NextKeeping ==
  \/ \E k \in Key : Get(k)
  \/ \E k \in Key, v \in Value : GetMut(k, v) \/ Replace(k, v) \/ BeginInsert(k, v)
  \/ ClearAll
  \/ InsertStep

Next ==
  \/ NextKeeping
  \/ \E k \in Key : Remove(k)
  \/ \E S \in SUBSET Live, w \in [Live -> Value] : Retain(S, w)

(* And what happens when the drop of an erased entry panics.               *)
NextPanicking ==
  \/ Next
  \/ \E S \in SUBSET Live : ClearPanics(S)
  \/ \E S \in SUBSET Live, k \in Live, w \in [Live -> Value] : RetainPanics(S, k, w)

Spec == Init /\ [][Next]_vars
SpecKeeping == Init /\ [][NextKeeping]_vars

(* The thread in the eviction loop holds the write lock and waits for      *)
(* nobody, so it keeps running.                                            *)
InsertFairness == WF_vars(InsertStep)
FairSpec == Spec /\ InsertFairness
FairSpecPanicking == Init /\ [][NextPanicking]_vars /\ InsertFairness

-----------------------------------------------------------------------------
(* Properties.                                                             *)

(* The shape of the state.  That the counters are natural numbers says     *)
(* that `small_live -= 1' and `main_live -= 1' in the eviction loop, which *)
(* are not saturating, never underflow, although the removals before them  *)
(* may have left the counters wrong.                                       *)
TypeOK ==
  /\ Live \subseteq Key
  /\ map \in [Live -> CacheEntry]
  /\ small \in Seq(Key)
  /\ main \in Seq(Key)
  /\ ghost \subseteq {Hash[k] : k \in Key}
  /\ small_live \in Nat
  /\ main_live \in Nat
  /\ pc \in {"idle", "insert", "evict_from_small", "evict_from_main", "unwinding"}
  /\ pc # "idle" => op \in [key : Key, value : Value, loc : Loc]
  /\ evicted \subseteq Key

(* A bounded shard never has more than shard_cap entries, whatever the     *)
(* removals did to the counters the insertion consults.                    *)
CapacityBound == ShardCap > 0 => Cardinality(Live) <= ShardCap

(* Every live entry has a slot in the queue its loc names, so that the     *)
(* sweep can reach it: lazy removal and promotion lose no live entry.      *)
QueueOf(loc) == IF loc = LOC_SMALL THEN small ELSE main
LiveQueued == \A k \in Live : k \in Slots(QueueOf(map[k].loc))

(* The counters may run ahead of what the table holds, but by less than    *)
(* small_cap for small and by no more than the rest of the capacity for    *)
(* main.                                                                   *)
DriftBounded ==
  ShardCap > 0 =>
    /\ small_live < Cardinality(In(LOC_SMALL, Live)) + small_cap
    /\ main_live <= Cardinality(In(LOC_MAIN, Live)) + ShardCap - small_cap

(* The queue evict_one turns to has a live entry, whatever the removals did *)
(* to the counters it decides by: no pass of the eviction loop is spent for *)
(* nothing, and the two exits for an empty queue are never taken.           *)
EvictionProgress ==
  /\ pc = "evict_from_small" => Slots(small) \cap Live # {}
  /\ pc = "evict_from_main" => Slots(main) \cap Live # {}

(* Inserting a key evicts at most one entry, and never the key itself.     *)
OneVictim == Cardinality(evicted) <= 1 /\ (pc # "idle" => op.key \notin evicted)

(* The ghost set never exceeds ghost_cap and, where the hash tells keys    *)
(* apart, marks no live key: a ghost hit means evicted from small and not  *)
(* inserted since.                                                         *)
HashInjective == \A j, k \in Key : Hash[j] = Hash[k] => j = k
GhostSound ==
  /\ Cardinality(ghost) <= ghost_cap
  /\ HashInjective => \A k \in Live : Hash[k] \notin ghost

(* Every insertion gets out of the eviction loop.                          *)
InsertTerminates == (pc # "idle") ~> (pc = "idle")

(* How much an insertion may still have to do: a slot of small may be      *)
(* popped, pushed to main and popped there, and a live entry goes round    *)
(* main once for each unit of its frequency.                               *)
Chances == {c \in Live \X (1..MAX_FREQ) : c[2] <= map[c[1]].freq}
Work ==
  Cardinality(Chances) + 4 * Len(small) + 2 * Len(main) + (IF pc = "insert" THEN 1 ELSE 0)

(* Each step of an insertion that does not end it leaves less to do, also   *)
(* when promotions and second chances make a queue longer: so no insertion  *)
(* takes more steps than it had work to do when it began.                   *)
WorkShrinks == [][pc # "idle" /\ pc' # "idle" => Work' < Work]_vars

(* A whole insertion, however many steps it takes, comes to one of two      *)
(* things.  Before has the keys that were there when it began; at most one  *)
(* of them is gone at the end, and none from an unbounded shard.  Either    *)
(* the key has come, and there was room for it, or the insertion has        *)
(* panicked.                                                                *)
Before == Live \cup evicted
AfterEviction ==
  {Before \ gone : gone \in {{}} \cup (IF ShardCap = 0 THEN {} ELSE {{k} : k \in Before})}
AfterInsert ==
  {keys \cup {op.key} : keys \in
     {rest \in AfterEviction : ShardCap > 0 => Cardinality(rest) < ShardCap}}
InsertOutcome ==
  [][pc # "idle" => IF pc' = "idle" THEN Live' \in AfterInsert \cup AfterEviction
                    ELSE Before' = Before /\ op' = op]_vars

(* What the fields' documentation says: small_live and main_live are the   *)
(* numbers of live entries in the two queues.                              *)
LiveCountsExact ==
  /\ small_live = Cardinality(In(LOC_SMALL, Live))
  /\ main_live = Cardinality(In(LOC_MAIN, Live))

(* A program that never removes an entry singly pays for no stale slot:    *)
(* the queues name each live entry once, in the queue of its loc, and      *)
(* nothing else.  Promotion, second chances, panics and clear included.    *)
NoStaleSlots ==
  \A loc \in Loc :
    /\ Slots(QueueOf(loc)) = In(loc, Live)
    /\ Len(QueueOf(loc)) = Cardinality(In(loc, Live))

(* An entry is evicted only when the shard holds shard_cap entries.        *)
EvictsOnlyWhenFull ==
  [][evicted' \subseteq evicted \/ Cardinality(Live) = ShardCap]_vars

(* What the documentation of retain says: the entries it removes are       *)
(* counted out, so an empty shard counts no entry.                         *)
EmptyCountsNothing == Live = {} => total_live = 0
=============================================================================
