------------------------------ MODULE NeoCache ------------------------------
(***************************************************************************)
(* The cache as its threads see it: shards behind locks, guards that live  *)
(* on after the call that made them, and calls that go from shard to shard *)
(* (src/src/lib.rs, src/src/iter.rs, src/src/mapref).                      *)
(*                                                                         *)
(* A shard is what module ShardRefinement shows it to be, a bounded map,   *)
(* of which only the set of keys is kept; its lock is what module          *)
(* RwLockRefinement shows it to be, many readers or one writer.  A call    *)
(* that takes a lock, works and lets go is one step.  A call that hands    *)
(* out a guard (Ref, RefMut, an entry) holds the lock until the guard is   *)
(* dropped.  A call over all shards takes one step for each shard; an      *)
(* iterator holds the lock of its shard, and those of the items the caller *)
(* has kept, which may outlive it.                                         *)
(*                                                                         *)
(* The cache can be frozen into a ReadOnlyView, which reads without locks, *)
(* and consumed by an OwningIter.  Closures, clones and drops supplied by  *)
(* the caller may panic; a panic in alter aborts the process.              *)
(*                                                                         *)
(* A thread does not enter the cache again while it holds a guard, which   *)
(* the usage guide forbids.                                                *)
(***************************************************************************)
EXTENDS Integers, FiniteSets

CONSTANTS
  Thread, Key,
  ShardCount,   \* shards.len()
  ShardOf,      \* ShardOf[k]: determine_shard of the hash of k
  ShardCap      \* entries allowed in a shard; 0 switches eviction off

Shard == 0..(ShardCount - 1)

ASSUME NeoCacheAssumption ==
  /\ ShardCount \in Nat /\ ShardCap \in Nat
  /\ ShardOf \in [Key -> Shard]

VARIABLES
  content,   \* content[s]: the keys in shard s
  cache,     \* "shared", "view" (a ReadOnlyView), "consumed", or "aborted"
  held,      \* held[t][s]: the guard thread t has on shard s
  call,      \* call[t]: what thread t is doing
  hollow,    \* the keys whose value alter has moved out
  stayed,    \* history: keys in the cache ever since the sweep of t began
  came,      \* history: keys in the cache at some time since then
  dangling   \* history: threads whose pointers into a table it was moved under

table == <<content, stayed, came, dangling>>
vars == <<table, cache, held, call, hollow>>

-----------------------------------------------------------------------------
(* A call: for an iterator the shard it comes to next, the entries of its  *)
(* shard still to come, those it has yielded, those the caller has kept,   *)
(* and where control is; kept also has the key of a guard on one entry.    *)
Holding(op, keys) ==
  [op |-> op, at |-> "caller", shard_i |-> 0, todo |-> {}, seen |-> {}, kept |-> keys, hint |-> 0]
Sweep(op) == Holding(op, {})
Idle == Holding("idle", {})

Readers == {"len", "clone", "len_hint"}
Writers == {"clear", "retain", "shrink_to_fit"}
Iterators == {"iter", "iter_mut", "alter_all", "serialize"}
Unlocked == {"view_iter", "into_iter"}
Sweeps == Readers \cup Writers \cup Iterators \cup Unlocked
Sweeping(t) == call[t].op \in Sweeps

ReadGuards == {"ref", "mapped_ref", "refs"}
WriteGuards == {"ref_mut", "mapped_ref_mut", "occupied", "vacant", "refs_mut"}

In(c) == UNION {c[s] : s \in Shard}
NoGuards == [s \in Shard |-> "none"]
AllIdle == \A t \in Thread : call[t] = Idle
Shards(keys) == {ShardOf[k] : k \in keys}

(* The entries thread t has pointers to.                                   *)
CanReach(t) ==
  IF call[t].op \in {"vacant", "into_iter"} THEN {} ELSE call[t].todo \cup call[t].kept

(* What lock_shared and lock_exclusive wait for.                           *)
Mut_CanReadPastWriter(s) == Cardinality({t \in Thread : held[t][s] = "write"}) <= 1
CanRead(s) == \A t \in Thread : held[t][s] # "write"
Mut_CanWritePastWriter(s) == \A t \in Thread : held[t][s] # "read"
CanWrite(s) == \A t \in Thread : held[t][s] = "none"

Now(t, c) == call' = [call EXCEPT ![t] = c]
Lock(t, s, mode) == held' = [held EXCEPT ![t][s] = mode]
LockOnly(t, shards, mode) ==
  held' = [held EXCEPT ![t] = [s \in Shard |-> IF s \in shards THEN mode ELSE "none"]]
Unlock(t) == held' = [held EXCEPT ![t] = NoGuards]

(* A change of a shard, which every sweep under way takes note of.  When   *)
(* the table may be moved too, pointers into it from elsewhere dangle.     *)
ChangeShard(s, keys) ==
  LET new == [content EXCEPT ![s] = keys]
  IN  /\ content' = new
      /\ stayed' = [t \in Thread |-> stayed[t] \cap In(new)]
      /\ came' = [t \in Thread |-> IF Sweeping(t) THEN came[t] \cup In(new) ELSE came[t]]
MoveTable(t, s) ==
  dangling' = dangling \cup {u \in Thread \ {t} : CanReach(u) \cap content[s] # {}}

(* What an insertion may leave in shard s: at most one entry is evicted,   *)
(* and the capacity is kept.                                               *)
AfterEviction(s) ==
  {content[s] \ gone : gone \in {{}} \cup (IF ShardCap = 0 THEN {} ELSE {{x} : x \in content[s]})}
AfterInsert(s, k) ==
  IF k \in content[s] THEN {content[s]}
  ELSE {keys \cup {k} : keys \in
          {rest \in AfterEviction(s) : ShardCap > 0 => Cardinality(rest) < ShardCap}}

-----------------------------------------------------------------------------
(* Calls on one key.                                                       *)

Enters(t) == call[t] = Idle /\ cache = "shared"

(* _insert; finding a slot may move the table.                             *)
Mut_InsertElsewhere(t, k) ==
  /\ Enters(t)
  /\ CanWrite(0)
  /\ \E keys \in AfterInsert(0, k) : ChangeShard(0, keys)
  /\ MoveTable(t, 0)
  /\ UNCHANGED <<cache, held, call, hollow>>
Insert(t, k) ==
  /\ Enters(t)
  /\ CanWrite(ShardOf[k])
  /\ \E keys \in AfterInsert(ShardOf[k], k) : ChangeShard(ShardOf[k], keys)
  /\ MoveTable(t, ShardOf[k])
  /\ UNCHANGED <<cache, held, call, hollow>>

(* _insert of a new key when K::clone or the drop of a victim panics.      *)
InsertPanics(t, k) ==
  /\ Enters(t)
  /\ CanWrite(ShardOf[k])
  /\ k \notin content[ShardOf[k]]
  /\ \E keys \in AfterEviction(ShardOf[k]) : ChangeShard(ShardOf[k], keys)
  /\ MoveTable(t, ShardOf[k])
  /\ UNCHANGED <<cache, held, call, hollow>>

(* _remove, and _remove_if and _remove_if_mut when the closure agrees.     *)
Remove(t, k) ==
  /\ Enters(t)
  /\ CanWrite(ShardOf[k])
  /\ k \in content[ShardOf[k]]
  /\ ChangeShard(ShardOf[k], content[ShardOf[k]] \ {k})
  /\ UNCHANGED <<dangling, cache, held, call, hollow>>

(* _get, _try_get: a Ref with a read guard.                                *)
Get(t, k) ==
  /\ Enters(t)
  /\ CanRead(ShardOf[k])
  /\ k \in content[ShardOf[k]]
  /\ Lock(t, ShardOf[k], "read")
  /\ Now(t, Holding("ref", {k}))
  /\ UNCHANGED <<table, cache, hollow>>

(* _get_mut, _try_get_mut: a RefMut with a write guard.                    *)
GetMut(t, k) ==
  /\ Enters(t)
  /\ CanWrite(ShardOf[k])
  /\ k \in content[ShardOf[k]]
  /\ Lock(t, ShardOf[k], "write")
  /\ Now(t, Holding("ref_mut", {k}))
  /\ UNCHANGED <<table, cache, hollow>>

(* _entry, _try_entry: an entry with a write guard; finding a slot may     *)
(* move the table.                                                         *)
GetEntry(t, k) ==
  /\ Enters(t)
  /\ CanWrite(ShardOf[k])
  /\ MoveTable(t, ShardOf[k])
  /\ Lock(t, ShardOf[k], "write")
  /\ Now(t, Holding(IF k \in content[ShardOf[k]] THEN "occupied" ELSE "vacant", {k}))
  /\ UNCHANGED <<content, stayed, came, cache, hollow>>

(* VacantEntry::insert gives a RefMut, insert_entry an OccupiedEntry.      *)
VacantInsert(t, op) ==
  /\ call[t].op = "vacant"
  /\ \E k \in call[t].kept :
       \E keys \in AfterInsert(ShardOf[k], k) : ChangeShard(ShardOf[k], keys)
  /\ Now(t, Holding(op, call[t].kept))
  /\ UNCHANGED <<dangling, cache, held, hollow>>

(* The same when K::clone or the drop of a victim panics.                  *)
VacantInsertPanics(t) ==
  /\ call[t].op = "vacant"
  /\ \E k \in call[t].kept :
       \E keys \in AfterEviction(ShardOf[k]) : ChangeShard(ShardOf[k], keys)
  /\ Unlock(t)
  /\ Now(t, Idle)
  /\ UNCHANGED <<dangling, cache, hollow>>

(* OccupiedEntry::into_ref                                                 *)
IntoRef(t) ==
  /\ call[t].op = "occupied"
  /\ Now(t, Holding("ref_mut", call[t].kept))
  /\ UNCHANGED <<table, cache, held, hollow>>

(* OccupiedEntry::{remove, remove_entry}                                   *)
OccupiedRemove(t) ==
  /\ call[t].op = "occupied"
  /\ \E k \in call[t].kept : ChangeShard(ShardOf[k], content[ShardOf[k]] \ {k})
  /\ Unlock(t)
  /\ Now(t, Idle)
  /\ UNCHANGED <<dangling, cache, hollow>>

(* RefMut::downgrade                                                       *)
Downgrade(t) ==
  /\ call[t].op = "ref_mut"
  /\ LockOnly(t, Shards(call[t].kept), "read")
  /\ Now(t, Holding("ref", call[t].kept))
  /\ UNCHANGED <<table, cache, hollow>>

(* Ref::map, Ref::try_map; MappedRef::map and try_map change nothing here. *)
MapRef(t) ==
  /\ call[t].op = "ref"
  /\ Now(t, Holding("mapped_ref", call[t].kept))
  /\ UNCHANGED <<table, cache, held, hollow>>

(* RefMut::map, RefMut::try_map                                            *)
MapRefMut(t) ==
  /\ call[t].op = "ref_mut"
  /\ Now(t, Holding("mapped_ref_mut", call[t].kept))
  /\ UNCHANGED <<table, cache, held, hollow>>

(* The guard is dropped, or all the items that have outlived an iterator.  *)
Release(t) ==
  /\ call[t].op \in ReadGuards \cup WriteGuards
  /\ Unlock(t)
  /\ Now(t, Idle)
  /\ UNCHANGED <<table, cache, hollow>>

-----------------------------------------------------------------------------
(* alter and alter_all: map_in_place_2 moves the value of an entry out,    *)
(* calls the closure, and writes what it returns.                          *)

(* _alter                                                                  *)
Alter(t, k) ==
  /\ Enters(t)
  /\ CanWrite(ShardOf[k])
  /\ k \in content[ShardOf[k]]
  /\ Lock(t, ShardOf[k], "write")
  /\ Now(t, Holding("alter", {k}))
  /\ hollow' = hollow \cup {k}
  /\ UNCHANGED <<table, cache>>

(* _alter_all, for the next entry of its shard                             *)
AlterItem(t, k) ==
  /\ call[t].op = "alter_all"
  /\ k \in call[t].todo
  /\ call[t].kept = {}
  /\ call' = [call EXCEPT ![t].todo = @ \ {k}, ![t].seen = @ \cup {k}, ![t].kept = {k}]
  /\ hollow' = hollow \cup {k}
  /\ UNCHANGED <<table, cache, held>>

Altering(t) == call[t].op \in {"alter", "alter_all"} /\ call[t].kept # {}

AlterDone(t) ==
  /\ Altering(t)
  /\ hollow' = hollow \ call[t].kept
  /\ IF call[t].op = "alter"
       THEN Unlock(t) /\ Now(t, Idle)
       ELSE UNCHANGED held /\ call' = [call EXCEPT ![t].kept = {}]
  /\ UNCHANGED <<table, cache>>

(* The closure panics: AbortOnPanic ends the process.                      *)
Mut_AlterUnwinds(t) ==
  /\ Altering(t)
  /\ Unlock(t)
  /\ Now(t, Idle)
  /\ UNCHANGED <<table, cache, hollow>>
AlterPanics(t) ==
  /\ Altering(t)
  /\ cache' = "aborted"
  /\ UNCHANGED <<table, held, call, hollow>>

-----------------------------------------------------------------------------
(* Calls over all shards.                                                  *)

(* What a sweep may begin with; a ReadOnlyView passes len, is_empty and    *)
(* clone on to the cache, and iterates without locks.                      *)
OfCache == (Readers \cup Writers \cup Iterators) \ {"serialize"}
OfView == {"len", "clone", "view_iter"}

BeginSweep(t, op) ==
  /\ call[t] = Idle
  /\ \/ cache = "shared" /\ op \in OfCache
     \/ cache = "view" /\ op \in OfView
  /\ Now(t, Sweep(op))
  /\ stayed' = [stayed EXCEPT ![t] = In(content)]
  /\ came' = [came EXCEPT ![t] = In(content)]
  /\ UNCHANGED <<content, dangling, cache, held, hollow>>

(* One shard of len, is_empty and clone.                                   *)
Mut_ReadShardAgain(t) ==
  /\ call[t].op \in Readers
  /\ call[t].shard_i < ShardCount
  /\ CanRead(call[t].shard_i)
  /\ call' = [call EXCEPT ![t].seen = @ \cup content[call[t].shard_i]]
  /\ UNCHANGED <<table, cache, held, hollow>>
ReadShard(t) ==
  /\ call[t].op \in Readers
  /\ call[t].shard_i < ShardCount
  /\ CanRead(call[t].shard_i)
  /\ call' = [call EXCEPT ![t].shard_i = @ + 1,
                          ![t].seen = @ \cup content[call[t].shard_i]]
  /\ UNCHANGED <<table, cache, held, hollow>>

(* serialize announces what len has returned, and goes on to iterate.      *)
Mut_SerializeShard(t) ==
  /\ call[t].op = "len_hint"
  /\ call[t].shard_i > 0
  /\ Now(t, [Sweep("serialize") EXCEPT !.hint = Cardinality(call[t].seen)])
  /\ UNCHANGED <<table, cache, held, hollow>>
SerializeMap(t) ==
  /\ call[t].op = "len_hint"
  /\ call[t].shard_i = ShardCount
  /\ Now(t, [Sweep("serialize") EXCEPT !.hint = Cardinality(call[t].seen)])
  /\ UNCHANGED <<table, cache, held, hollow>>

(* One shard of clear, retain and shrink_to_fit, which moves the table.    *)
Survivors(t) ==
  CASE call[t].op = "clear" -> {{}}
    [] call[t].op = "retain" -> SUBSET content[call[t].shard_i]
    [] OTHER -> {content[call[t].shard_i]}
Mut_WriteShardSkips(t) ==
  /\ call[t].op \in Writers
  /\ call[t].shard_i < ShardCount
  /\ LET s == call[t].shard_i
     IN  IF CanWrite(s)
           THEN \E keys \in Survivors(t) : ChangeShard(s, keys)
           ELSE UNCHANGED <<content, stayed, came>>
  /\ call' = [call EXCEPT ![t].shard_i = @ + 1]
  /\ UNCHANGED <<dangling, cache, held, hollow>>
WriteShard(t) ==
  /\ call[t].op \in Writers
  /\ call[t].shard_i < ShardCount
  /\ LET s == call[t].shard_i
     IN  /\ CanWrite(s)
         /\ \E keys \in Survivors(t) : ChangeShard(s, keys)
         /\ IF call[t].op = "shrink_to_fit" THEN MoveTable(t, s) ELSE UNCHANGED dangling
  /\ call' = [call EXCEPT ![t].shard_i = @ + 1]
  /\ UNCHANGED <<cache, held, hollow>>

(* The closure of retain panics: the entries it has rejected are gone.     *)
RetainPanics(t) ==
  /\ call[t].op = "retain"
  /\ call[t].shard_i < ShardCount
  /\ CanWrite(call[t].shard_i)
  /\ \E keys \in Survivors(t) : ChangeShard(call[t].shard_i, keys)
  /\ Now(t, Idle)
  /\ UNCHANGED <<dangling, cache, held, hollow>>

-----------------------------------------------------------------------------
(* Iterators.                                                              *)

Mode(op) == IF op \in {"iter", "serialize"} THEN "read" ELSE "write"
CanLock(op, s) == IF Mode(op) = "read" THEN CanRead(s) ELSE CanWrite(s)

(* Iter::next and IterMut::next are called on an exhausted shard.          *)
CallNext(t) ==
  /\ call[t].op \in Iterators
  /\ call[t].at = "caller"
  /\ call[t].todo = {}
  /\ ~Altering(t)
  /\ call[t].shard_i < ShardCount
  /\ call' = [call EXCEPT ![t].at = "next"]
  /\ UNCHANGED <<table, cache, held, hollow>>

(* They lock the next shard, and only then let go of the last one, unless  *)
(* an item of it was kept.  On an empty shard they go on to the next.      *)
Mut_NextShardWraps(t) ==
  /\ call[t].op \in Iterators
  /\ call[t].at = "next"
  /\ LET s == call[t].shard_i
     IN  /\ CanLock(call[t].op, s)
         /\ LockOnly(t, {s} \cup Shards(call[t].kept), Mode(call[t].op))
         /\ call' = [call EXCEPT
              ![t].shard_i = (s + 1) % ShardCount,
              ![t].todo = content[s],
              ![t].at = IF content[s] = {} THEN "next" ELSE "caller"]
  /\ UNCHANGED <<table, cache, hollow>>
NextShard(t) ==
  /\ call[t].op \in Iterators
  /\ call[t].at = "next"
  /\ LET s == call[t].shard_i
     IN  /\ CanLock(call[t].op, s)
         /\ LockOnly(t, {s} \cup Shards(call[t].kept), Mode(call[t].op))
         /\ call' = [call EXCEPT
              ![t].shard_i = s + 1,
              ![t].todo = content[s],
              ![t].at = IF content[s] = {} /\ s + 1 < ShardCount THEN "next" ELSE "caller"]
  /\ UNCHANGED <<table, cache, hollow>>

(* next yields an item; the caller drops it before the next one, or keeps  *)
(* it.  serialize keeps none, and into_iter gives the entries away.        *)
Yield(t, k, keep) ==
  /\ call[t].op \in {"iter", "iter_mut", "serialize"} \cup Unlocked
  /\ k \in call[t].todo
  /\ keep => call[t].op \notin {"serialize", "into_iter"}
  /\ call' = [call EXCEPT ![t].todo = @ \ {k}, ![t].seen = @ \cup {k},
                          ![t].kept = IF keep THEN @ \cup {k} ELSE @]
  /\ UNCHANGED <<table, cache, held, hollow>>

(* The shards that thread t still has a guard for when it keeps the items  *)
(* of keys: the iterator has one for its own shard.                        *)
Guarded(t, keys) ==
  Shards(keys) \cup
    (IF call[t].op \in Iterators /\ call[t].shard_i > 0 THEN {call[t].shard_i - 1} ELSE {})

(* An item is dropped, and with the last one of a shard its guard; by the  *)
(* caller, or by a worker of a parallel iteration while another is in next. *)
Mut_DropItemUnlocks(t, k) ==
  /\ call[t].op \in {"iter", "iter_mut", "refs", "refs_mut"}
  /\ k \in call[t].kept
  /\ held' = [held EXCEPT ![t][ShardOf[k]] = "none"]
  /\ IF call[t].kept = {k} /\ ~Sweeping(t)
       THEN Now(t, Idle)
       ELSE call' = [call EXCEPT ![t].kept = @ \ {k}]
  /\ UNCHANGED <<table, cache, hollow>>
DropItem(t, k) ==
  /\ call[t].op \in {"iter", "iter_mut", "refs", "refs_mut"}
  /\ k \in call[t].kept
  /\ held' = [held EXCEPT ![t] = [s \in Shard |->
       IF s \in Guarded(t, call[t].kept \ {k}) THEN @[s] ELSE "none"]]
  /\ IF call[t].kept = {k} /\ ~Sweeping(t)
       THEN Now(t, Idle)
       ELSE call' = [call EXCEPT ![t].kept = @ \ {k}]
  /\ UNCHANGED <<table, cache, hollow>>

Done(t) ==
  Sweeping(t) /\ call[t].shard_i = ShardCount /\ call[t].todo = {} /\ ~Altering(t)

(* The sweep returns; an iterator is dropped, at its end or before it, but *)
(* not the items that were kept.                                           *)
EndSweep(t) ==
  /\ call[t].op \notin {"len_hint", "into_iter"}
  /\ \/ Done(t)
     \/ call[t].op \in {"iter", "iter_mut", "serialize", "view_iter"} /\ call[t].at = "caller"
  /\ held' = [held EXCEPT ![t] = [s \in Shard |->
       IF s \in Shards(call[t].kept) THEN @[s] ELSE "none"]]
  /\ Now(t, IF call[t].kept = {} THEN Idle
            ELSE Holding(IF call[t].op = "iter_mut" THEN "refs_mut" ELSE "refs", call[t].kept))
  /\ stayed' = [stayed EXCEPT ![t] = {}]
  /\ came' = [came EXCEPT ![t] = {}]
  /\ UNCHANGED <<content, dangling, cache, hollow>>

-----------------------------------------------------------------------------
(* The cache as one value: into_read_only, into_inner and into_iter take   *)
(* it by value, so no thread has anything borrowed from it.                *)

IntoReadOnly ==
  /\ cache = "shared"
  /\ AllIdle
  /\ cache' = "view"
  /\ UNCHANGED <<table, held, call, hollow>>

IntoInner ==
  /\ cache = "view"
  /\ AllIdle
  /\ cache' = "shared"
  /\ UNCHANGED <<table, held, call, hollow>>

(* ReadOnlyView::{get, get_key_value}: a plain reference, and no lock.     *)
ViewGet(t, k) ==
  /\ call[t] = Idle
  /\ cache = "view"
  /\ k \in content[ShardOf[k]]
  /\ Now(t, Holding("refs", {k}))
  /\ UNCHANGED <<table, cache, held, hollow>>

(* The iterator of ReadOnlyView::{iter, keys, values} comes to a shard.    *)
ViewShard(t) ==
  /\ call[t].op = "view_iter"
  /\ call[t].todo = {}
  /\ call[t].shard_i < ShardCount
  /\ call' = [call EXCEPT ![t].shard_i = @ + 1, ![t].todo = content[call[t].shard_i]]
  /\ UNCHANGED <<table, cache, held, hollow>>

(* into_iter: OwningIter::new                                              *)
IntoIter(t) ==
  /\ cache = "shared"
  /\ AllIdle
  /\ cache' = "consumed"
  /\ Now(t, Sweep("into_iter"))
  /\ came' = [came EXCEPT ![t] = In(content)]
  /\ UNCHANGED <<content, stayed, dangling, held, hollow>>

(* OwningIter::next takes the table out of a shard.                        *)
TakeShard(t) ==
  /\ call[t].op = "into_iter"
  /\ call[t].todo = {}
  /\ call[t].shard_i < ShardCount
  /\ CanWrite(call[t].shard_i)
  /\ ChangeShard(call[t].shard_i, {})
  /\ call' = [call EXCEPT ![t].shard_i = @ + 1, ![t].todo = content[call[t].shard_i]]
  /\ UNCHANGED <<dangling, cache, held, hollow>>

(* The OwningIter is dropped, with the rest of the cache.  What follows is *)
(* a new cache.                                                            *)
DropOwningIter(t) ==
  /\ call[t].op = "into_iter"
  /\ content' = [s \in Shard |-> {}]
  /\ came' = [came EXCEPT ![t] = {}]
  /\ cache' = "shared"
  /\ Now(t, Idle)
  /\ UNCHANGED <<stayed, dangling, held, hollow>>

-----------------------------------------------------------------------------
Init ==
  /\ content = [s \in Shard |-> {}]
  /\ cache = "shared"
  /\ held = [t \in Thread |-> NoGuards]
  /\ call = [t \in Thread |-> Idle]
  /\ hollow = {}
  /\ stayed = [t \in Thread |-> {}]
  /\ came = [t \in Thread |-> {}]
  /\ dangling = {}

Enter(t) ==
  \/ \E k \in Key : \/ Insert(t, k) \/ InsertPanics(t, k) \/ Remove(t, k)
                    \/ Get(t, k) \/ GetMut(t, k) \/ GetEntry(t, k)
                    \/ Alter(t, k) \/ ViewGet(t, k)
  \/ \E op \in OfCache \cup OfView : BeginSweep(t, op)
  \/ IntoIter(t)

Proceed(t) ==
  \/ ReadShard(t) \/ SerializeMap(t) \/ WriteShard(t)
  \/ CallNext(t) \/ NextShard(t) \/ ViewShard(t) \/ TakeShard(t)
  \/ \E k \in Key : AlterItem(t, k) \/ \E keep \in BOOLEAN : Yield(t, k, keep)
  \/ AlterDone(t)
  \/ EndSweep(t) \/ DropOwningIter(t) \/ Release(t)

UseGuard(t) ==
  \/ \E op \in {"ref_mut", "occupied"} : VacantInsert(t, op)
  \/ IntoRef(t) \/ OccupiedRemove(t) \/ Downgrade(t) \/ MapRef(t) \/ MapRefMut(t)
  \/ \E k \in Key : DropItem(t, k)

Panic(t) == VacantInsertPanics(t) \/ RetainPanics(t) \/ AlterPanics(t)

Running == cache # "aborted"
Aborted == cache = "aborted" /\ UNCHANGED vars

Next ==
  \/ Running /\ \E t \in Thread : Enter(t) \/ Proceed(t) \/ UseGuard(t) \/ Panic(t)
  \/ IntoReadOnly \/ IntoInner
  \/ Aborted

Spec == Init /\ [][Next]_vars

(* A thread that can go on does, and drops its guards sooner or later.     *)
FairSpec == Spec /\ \A t \in Thread : WF_vars(Running /\ Proceed(t))

-----------------------------------------------------------------------------
(* Properties.                                                             *)

Sizes == {Cardinality(keys) : keys \in SUBSET Key}
Call ==
  [op : {"idle", "alter"} \cup Sweeps \cup ReadGuards \cup WriteGuards,
   at : {"caller", "next"}, shard_i : 0..ShardCount,
   todo : SUBSET Key, seen : SUBSET Key, kept : SUBSET Key, hint : Sizes \cup {0}]

(* The shape of the state: a key is only ever in the shard of its hash.    *)
TypeOK ==
  /\ content \in [Shard -> SUBSET Key]
  /\ \A s \in Shard : \A k \in content[s] : ShardOf[k] = s
  /\ cache \in {"shared", "view", "consumed", "aborted"}
  /\ held \in [Thread -> [Shard -> {"none", "read", "write"}]]
  /\ call \in [Thread -> Call]
  /\ hollow \subseteq Key
  /\ stayed \in [Thread -> SUBSET Key]
  /\ came \in [Thread -> SUBSET Key]
  /\ dangling \subseteq Thread

(* The entry behind a Ref, a RefMut, an occupied entry, an iterator's       *)
(* cursor, a kept item or a reference into a ReadOnlyView stays where it    *)
(* is: it is not removed, and no insert, entry or shrink_to_fit moves the   *)
(* table it is in.  Nobody else inserts the key of a vacant entry.          *)
GuardsPin ==
  /\ dangling = {}
  /\ \A t \in Thread :
       /\ CanReach(t) \subseteq In(content)
       /\ call[t].op = "vacant" => call[t].kept \cap In(content) = {}

(* While a thread can write to an entry, no other can read or write it:     *)
(* also for an item kept from an iter_mut that has moved on or is gone, and *)
(* for the references a ReadOnlyView hands out without a lock.              *)
CanWriteTo(t) ==
  IF call[t].op \in WriteGuards \cup {"alter", "alter_all", "iter_mut"} THEN CanReach(t) ELSE {}
NoAliasing ==
  \A t, u \in Thread : t # u => CanWriteTo(t) \cap CanReach(u) = {}

(* A value that alter or alter_all has moved out of its entry is out of     *)
(* reach of every other thread until the closure's result is written back,  *)
(* also when the closure panics.                                            *)
MovedOutUnseen ==
  \A k \in hollow :
    \E t \in Thread : /\ Altering(t) /\ k \in call[t].kept
                      /\ \A u \in Thread \ {t} : k \notin CanReach(u)

(* len, clone and an iteration that runs to its end miss no key that was    *)
(* in the cache all along, and report none that was not there meanwhile;    *)
(* an iteration yields no key twice, and an OwningIter every key.  clear    *)
(* leaves no key that was there when it began and was not inserted again.   *)
SweepExact ==
  \A t \in Thread :
    /\ Done(t) /\ call[t].op \in Readers \cup Iterators \cup {"view_iter"} =>
         stayed[t] \subseteq call[t].seen /\ call[t].seen \subseteq came[t]
    /\ call[t].todo \cap call[t].seen = {}
    /\ Done(t) /\ call[t].op = "into_iter" => call[t].seen = came[t]
    /\ Done(t) /\ call[t].op = "clear" => stayed[t] = {}

(* serialize announces a length, and then writes entries it finds in a      *)
(* second pass: the length is right if no key came or went meanwhile, and   *)
(* otherwise off by no more than the keys that did.                         *)
HintBracketed ==
  \A t \in Thread : Done(t) /\ call[t].op = "serialize" =>
    /\ call[t].hint \in Cardinality(stayed[t])..Cardinality(came[t])
    /\ Cardinality(call[t].seen) \in Cardinality(stayed[t])..Cardinality(came[t])

(* Every step, seen from one shard, is a step of its lock: a guard is taken *)
(* when the lock allows it, turned from exclusive to shared, or dropped.    *)
LockOf(s) == INSTANCE SharedLock WITH mode <- [t \in Thread |-> held[t][s]]
LocksObeyed ==
  /\ \A s \in Shard : LockOf(s)!LInit
  /\ [][\A s \in Shard : LockOf(s)!LStep]_vars

(* The lock that thread t takes in its next step through the shards, and    *)
(* the threads that keep it from it, perhaps t itself.                      *)
Needs(t) ==
  IF call[t].shard_i = ShardCount THEN "none"
  ELSE CASE call[t].op \in Readers -> "read"
         [] call[t].op \in Writers -> "write"
         [] call[t].op \in Iterators /\ call[t].at = "next" -> Mode(call[t].op)
         [] call[t].op = "into_iter" /\ call[t].todo = {} -> "write"
         [] OTHER -> "none"
Blockers(t) ==
  {u \in Thread :
     \/ Needs(t) = "write" /\ held[u][call[t].shard_i] # "none"
     \/ Needs(t) = "read" /\ held[u][call[t].shard_i] = "write"}

(* Calls do not wait for one another in a circle, however many they are:    *)
(* iterators hold a shard, and those of the items that were kept, while     *)
(* they wait for the next one.                                              *)
NoCircularWait ==
  \A waiting \in (SUBSET Thread) \ {{}} :
    \E t \in waiting : Blockers(t) \cap waiting = {}

(* How far a call is from its end: guards turn into lesser ones, serialize  *)
(* comes after its len, and within a call the shards go by, then the        *)
(* entries of the shard, then what is done with one entry.                  *)
Stage(op) ==
  CASE op = "idle" -> 0
    [] op \in {"mapped_ref", "mapped_ref_mut", "refs", "refs_mut"} -> 1
    [] op \in {"ref", "alter"} -> 2
    [] op = "ref_mut" -> 3
    [] op = "occupied" -> 4
    [] op = "vacant" -> 5
    [] op = "len_hint" -> 7
    [] OTHER -> 6
Nearer(new, old) ==
  \/ Stage(new.op) < Stage(old.op)
  \/ /\ new.op = old.op
     /\ \/ new.shard_i > old.shard_i
        \/ /\ new.shard_i = old.shard_i
           /\ \/ new.todo \subseteq old.todo /\ new.todo # old.todo
              \/ /\ new.todo = old.todo
                 /\ \/ old.at = "caller" /\ new.at = "next"
                    \/ /\ new.at = old.at
                       /\ new.kept \subseteq old.kept /\ new.kept # old.kept

(* Whatever a call does, it brings its end nearer: a guard never turns back *)
(* into a greater one, a sweep never comes to a shard or an entry again.    *)
CallsAdvance ==
  [][\A t \in Thread :
       call[t] # Idle /\ call'[t] # call[t] => Nearer(call'[t], call[t])]_vars

(* Once no thread enters the cache any more, every call ends, unless a      *)
(* closure aborts the process: iterators that wait for a shard while they   *)
(* hold others do not wait for each other.                                  *)
AllCallsEnd ==
  <>[][\A t \in Thread : call[t] = Idle => call'[t] = Idle]_vars =>
    <>[](AllIdle \/ cache = "aborted")
=============================================================================
