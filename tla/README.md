# A verification model of neocache

neocache is a concurrent cache: a hash map split into shards, each behind a
reader-writer lock of its own, each evicting by S3-FIFO. This directory holds
TLA+ models of its parts, TLC configurations that check them on small
instances, and TLAPS proofs for all instances. Paths below are relative to the
directory that contains `src/` (the repository) and `tla/`.

## The system and its modules

| Part of the code | Module | Kind |
|---|---|---|
| `ShardData`, S3-FIFO eviction, what every operation does to a shard (`shard.rs`, `util.rs`, `lib.rs`, `mapref/entry.rs`) | `Shard` | state machine |
| what a shard promises | `BoundedMap` | abstract specification |
| a shard implements it | `ShardRefinement` | refinement mapping |
| the shard lock `RawRwLock` (`lock.rs`) | `RwLock` | state machine |
| what the lock promises | `SharedLock` | abstract specification |
| the lock implements it | `RwLockRefinement` | refinement mapping |
| constructor and `determine_shard` (`lib.rs`) | `Sharding` | arithmetic |
| guards, entries, iterators, views and operations over all shards (`lib.rs`, `iter.rs`, `mapref/`, `read_only.rs`, `ser.rs`, `util.rs`) | `NeoCache` | composition |
| proofs about a shard | `ShardProofs`, `ShardOutcomeProofs` | TLAPS |
| proofs about the lock | `RwLockProofs` | TLAPS |
| proofs about the constructor and `determine_shard` | `ShardingProofs` | TLAPS |
| the invariants behind the proofs about the cache | `NeoCacheInvariants` | definitions |
| proofs about the cache | `NeoCacheStepProofs`, `NeoCacheSweepProofs`, `NeoCacheLockProofs`, `NeoCacheProofs` | TLAPS |

`MCShard`, `MCShardRefinement`, `MCRwLock` and `MCNeoCache` give TLC the hash
functions, the assignment of keys to shards and the symmetry sets.

How they fit together: `determine_shard` picks a shard (`Sharding`), the caller
takes its lock (`RwLock`), and works on the shard (`Shard`). `NeoCache` stands on
the abstractions of the three:

- The lock. `RwLock` implements `SharedLock` (`ImplementsSharedLock`), and every
  step of `NeoCache`, seen from one shard, is a step of a `SharedLock`
  (`LocksObeyed`, where `LockOf(s)` instantiates it). Both are theorems, so
  `NeoCache` asks of a lock nothing that `RawRwLock` does not give.
- The shard. `Shard` implements `BoundedMap` (`ImplementsBoundedMap`, a theorem).
  `NeoCache` takes an insertion for one step on a set of keys, with `AfterInsert` and
  `AfterEviction`; `Shard` defines the same two sets from the keys at the insertion's
  beginning, and all its steps together end in one of them (`InsertOutcome`, a
  theorem).
- Sharding. `ShardOf` maps every key to one shard, as `ShardInRange`, a theorem,
  says `determine_shard` does.

### Shard

`map`, `small`, `main`, `ghost`, `small_live` and `main_live` are the fields of
`ShardData`. The two parallel deques of a queue, of hashes and of keys, are
pushed and popped together and are one sequence of keys. `pc`, `op` and
`evicted` follow the insertion in progress.

| Action | Code |
|---|---|
| `Get` | `_get`, `_try_get`, `_view`, `_contains_key` |
| `GetMut` | `_get_mut`, `_try_get_mut`, `_alter` |
| `Replace` | `_insert` of a key that is there, `OccupiedEntry::{get_mut, insert, replace_entry}`, a write through `IterMut` |
| `Remove` | `_remove`, `_remove_if`, `_remove_if_mut`, `OccupiedEntry::{remove, remove_entry}` |
| `Retain`, `ClearAll` | `_retain` on one shard, `ShardData::clear_all` |
| `BeginInsert` ... `FinishInsert` | `_insert` of a new key, `VacantEntry::{insert, insert_entry}` |
| `EvictOne`, `SkipSmall`, `Promote`, `EvictFromSmall` | `evict_one`, `evict_from_small` |
| `SkipMain`, `SecondChance`, `EvictFromMain` | `evict_from_main` |
| `ClonePanics` | `K::clone` panics once the eviction is done |
| `DropSmallPanics`, `DropMainPanics`, `Unwind` | the drop of a victim panics, and the insertion unwinds |
| `ClearPanics`, `RetainPanics` | `V::drop` panics in `clear_all` or `_retain` (only in `NextPanicking`) |

An operation is one step, for it has the write lock, or changes one atomic
counter under the read lock. The eviction loop is taken apart, pop by pop, so
that its termination can be asked about; meanwhile no other operation is
enabled. `Retain` takes the set of rejected keys and the values left in the
others as inputs. A closure that panics half way is the `Retain` that rejects
only what was rejected before.

There are three next-state relations. `Next` is the whole interface, with panics
inside an insertion. `NextKeeping` leaves out single removals and `retain`.
`NextPanicking` adds drops that panic in `clear` and `retain`: they leave a shard from
which insertion need not return (see `Shard_hang` below), so nothing else is
claimed of it.

### RwLock

`state` is the atomic word, as a count and two flags. A round of a
compare-and-swap loop is one step, at its last access to the word; failed rounds
and spinning are no steps. `LockExclusiveFails` and `LockSharedFails` send a
thread to the slow path at any time, which covers the weak compare-and-swap
failing on a free lock. parking_lot_core is modelled from its use: the
validation and the enqueueing of `park` are one step, for both run under the
bucket's lock; `unpark_one` wakes the head of the queue. Memory orderings are not
modelled: every access to the word is sequentially consistent here.

The refinement mapping `Mode` forgets the word and the parking, and keeps who is
past its acquisition and not yet past its release.

### Sharding

One step builds the cache, for each capacity and number of shards. Words have
`WordBits` bits instead of 64, and hashbrown's tag `TagBits` instead of 7.

### NeoCache

`content[s]` is the set of keys in shard `s`, `held[t][s]` the guard of thread
`t` on it, `call[t]` what the thread is doing, `cache` whether the cache is shared,
frozen into a `ReadOnlyView`, consumed by an `OwningIter`, or gone with an aborted
process. `hollow` has the keys whose value `map_in_place_2` has moved out.
`stayed`, `came` and `dangling` are history variables: what has been in the cache
all along a sweep, what was there at some time, and who had a pointer into a
table when it was moved.

| Action | Code |
|---|---|
| `Insert`, `InsertPanics`, `Remove` | the calls on one key that take a lock, work and let go |
| `Get`, `GetMut`, `GetEntry` | `_get`, `_get_mut`, `_entry` and their `try_` forms: a guard is handed out |
| `VacantInsert`, `VacantInsertPanics`, `IntoRef`, `OccupiedRemove` | `VacantEntry`, `OccupiedEntry` |
| `Downgrade`, `MapRef`, `MapRefMut`, `Release` | `RefMut::downgrade`, mapped guards, `Drop` |
| `Alter`, `AlterItem`, `AlterDone`, `AlterPanics` | `_alter`, `_alter_all` with `map_in_place_2` and `AbortOnPanic` |
| `BeginSweep`, `ReadShard`, `WriteShard`, `RetainPanics`, `EndSweep` | `len`, `is_empty`, `clone`; `clear`, `retain`, `shrink_to_fit` |
| `SerializeMap` | `serialize` has announced `len`, and begins to iterate |
| `CallNext`, `NextShard`, `Yield`, `DropItem` | `Iter`, `IterMut` and the items they yield |
| `IntoReadOnly`, `IntoInner`, `ViewGet`, `ViewShard` | `ReadOnlyView` |
| `IntoIter`, `TakeShard`, `DropOwningIter` | `OwningIter` |

A call over all shards takes one step per shard. An iterator's `next` on an
exhausted shard locks the next shard before the old guard is dropped
(`self.current = ...` drops it), and an item kept by the caller keeps its shard's
guard (`Arc::clone`), also when the iterator is gone; items are dropped in any
order, also while `next` waits, as rayon's workers do. `insert`, `entry` and
`shrink_to_fit` may move a table, which `MoveTable` notes against everybody who
points into it. An abort ends the process: nothing but stuttering follows.

A thread with a guard does not enter the cache again before it has dropped it;
`src/docs/usage-guide.md:58` warns of the deadlock when both keys are in one shard. `into_read_only`, `into_inner` and `into_iter` take the cache
by value, and the borrow checker has let go of every guard by then (`AllIdle`).
`DropOwningIter` is followed by a new cache, so that runs go on; the comment at
`src/src/iter.rs:53` speaks of a later sweep of a drained shard, which no caller can
cause.

## The runs

| Run | Instance | What it shows |
|---|---|---|
| `Shard_removal` | 3 keys, capacity 2, insertions start from fewer than 5 queue slots | seven invariants, the work, the outcome and the termination of insertion, with removals and with panics in insertions |
| `Shard_keeping` | 7 keys, capacity 3, `small_cap` 2, no removals | exact counters, no stale slots, no early eviction, the ghost set emptied at its limit |
| `Shard_refines` | 3 keys with one hash, 2 values, capacity 2 | a shard implements `BoundedMap` |
| `RwLock_all` | 4 threads, at most 3 readers | safety of the lock, no waiter is forgotten, it implements `SharedLock` |
| `Sharding_all` | words of 8 bits, tag of 3, capacities to 80, shards to 64 | index range, tag independence, capacity, number of shards |
| `NeoCache_sweeps` | 2 threads, 2 keys in one shard and 1 in the other, capacity 2 | guards pin entries, no aliasing, nothing moved out is seen, what sweeps report, locks obeyed |
| `NeoCache_ends` | 2 threads, 2 keys, 3 shards with the middle one empty, capacity 1 | no deadlock between iterators, writers and guards; calls advance and end |
| `Shard_leak`, `Shard_hang`, `RwLock_starves`, `RwLock_try`, `Sharding_four` | | disagreements, see below |

### The properties worth knowing

The counters `small_live` and `main_live` are not what their documentation
says: after a removal and a reinsertion they drift (see the first disagreement).
The eviction loop decides by them. So the questions are whether the shard still
keeps its capacity (`CapacityBound`), whether the unchecked `-= 1` can underflow
(`TypeOK`: the counters are naturals), how far they can drift (`DriftBounded`),
whether `evict_one` can turn to a queue with nothing to evict
(`EvictionProgress`), and whether the loop ends (`InsertTerminates`). All come out
well, also when `K::clone` or the drop of a victim panics. The fall-through from an
empty small queue to main, and the return on an empty main queue, are never
taken.

`WorkShrinks` says why the loop ends. A promotion and a second chance put the key back
into a queue, so the queues need not get shorter; but a promotion trades a slot of
small for one of main, and a second chance is paid for with one of the frequencies
that the live entries have. `Work` adds these up, and every round leaves less of it.
The stale slots of removed keys count too: the first insertion that evicts pays for
all of them, under the write lock. `InsertOutcome` says what a whole insertion comes
to, as described above.

`OneVictim` says that an insertion evicts one entry at most; `LiveQueued` that no
live entry is lost to the sweep; `GhostSound` that the ghost set is bounded and
marks no live key when hashes are distinct. `LiveCountsExact`, `NoStaleSlots` and
`EvictsOnlyWhenFull` hold as long as entries only leave by eviction or `clear`.

Of the lock: `Exclusion` also covers the reader that would make the count read
as a writer; `UnlockAsserts` the code's own assertions, and that the plain store
in `unlock_exclusive_slow` overwrites no flag; `NoLostWakeup` and `FlagIsServed` say
who will wake a parked thread, `NobodyStranded` that while a thread is parked another
one is up and in a call, and `EveryWaiterServed` that the parked one gets the lock.

Of the cache:

- `GuardsPin`: what a guard, an iterator, an item or a view's reference points to is
  neither removed nor moved by a table that grows or shrinks; nobody else inserts
  the key of a `VacantEntry`, which found its slot before it inserts.
- `NoAliasing`: an entry somebody can write is out of everybody else's reach. The
  hard case is items that outlive an `IterMut`. That no guard is left when a view is made
  is not shown but assumed: `into_read_only` takes the cache by value, so the borrow
  checker rules it out, and `IntoReadOnly` waits until all threads are idle.
- `MovedOutUnseen`: a value that `alter` has moved out is never seen, because a panic
  of the closure aborts the process instead of unwinding.
- `SweepExact`: `len`, `clone` and iterators miss nothing that stayed and report
  nothing that never was, though other threads go on; `clear` leaves nothing
  that was there all along; an `OwningIter` yields everything. This is all that `len`
  promises: a count that no moment had is possible, and `is_empty`, which is
  `len() == 0`, may be true of a cache that was never empty.
- `HintBracketed`: how wrong the length can be that `serialize` announces.
- `NoCircularWait`: the hand-over that holds two locks, or more with kept items, does
  not deadlock: among any threads there is one that waits for none of them.
- `CallsAdvance`: whatever a call does brings its end nearer. A guard turns only into a
  lesser one, and a sweep never comes to a shard or an entry again, though other
  threads insert and evict meanwhile.
- `AllCallsEnd`: under fairness the two come to this, that all calls end.

### Bounds, and why they are enough

- Capacity 2 is the least with both queues in use (`small_cap` 1); three keys fill
  the shard and force an eviction. `MaxSlots` 5 leaves room for three stale slots
  beyond the live ones: two slots of one key in one queue, and slots in both.
  That the invariants need no larger instance is proved, not only argued.
- The ghost set is full, and an unmarked key is inserted, only with more than
  twice as many keys as the capacity: 7 keys in `Shard_keeping`.
- Four threads on the lock: a holder, one more parked of each kind, and one
  passing by. `Writer` 4 makes a fourth reader overflow.
- Eight-bit words and a tag of three bits keep the roles of the bits: the
  number of shards ranges on both sides of what the bits below the tag
  can tell apart.
- `NeoCache_sweeps` has a shard with two keys, so that one is evicted, altered or
  dropped while a pointer to the other is out (`InsertPanics` evicts below the
  capacity too), and a second shard for sweeps to go on to. Threads, and the keys
  of the first shard, are symmetric; the run has no liveness property. Its safety
  properties are all proved as well.
- `NeoCache_ends` has an empty shard between two that are not, so that `next` goes on
  with a guard in hand; three shards make an iterator wait twice. Without symmetry,
  for it checks liveness. With two threads there are no circles of three; that there
  are none, of any length, is proved.

Deadlock is checked everywhere but in `Sharding_all` and `Sharding_four`, where the
constructor runs once and the behaviour ends.

### Fairness

- `Shard`: weak fairness of the inserting thread's steps. It holds the lock and waits
  for nobody.
- `RwLock`: weak fairness of each thread's steps once it has asked for the lock, which
  includes that a guard is dropped some time. Asking and downgrading are not fair.
  `StronglyFairSpec`, only used to refute, adds strong fairness of acquiring.
- `NeoCache`: weak fairness of each thread's steps inside a call, and of dropping guards.
  Beginning a call, using a guard and panicking are not fair. Weak fairness does not
  promise a thread a lock that is taken again and again, so `AllCallsEnd` and
  `EveryWaiterServed` speak of behaviours in which new calls stop.

## What is proved

Every safety property that a passing run checks is a theorem, for all values of the
constants. The assumptions are those of `ShardAssumption`, `RwLockAssumption` (the count
can tell two readers from a writer), `NeoCacheAssumption` (`ShardOf` maps keys to shards)
and `ShardingAssumption` (the arguments fit into a word, which is wider than the tag), and
finitely many keys for `HintsAreBracketed`.

### The shard

`ShardProofs`: `TypeOK`, `CapacityBound`, `LiveQueued`, `DriftBounded`, `EvictionProgress`,
`OneVictim` and `GhostSound` from the invariant `Inv`. `MaxSlots` is arbitrary, so queues of
any length are covered.

- `CapacityBound` rests on `Cardinality(Live) <= total_live <= shard_cap`
  (`CountInv`): the counters together never fall behind the table. A stale slot can
  move a count from one queue to the other, or have an entry of one queue evicted on
  the account of the other, but `total_live` never loses more than the table does.
- `DriftBounded`: a counter gains on its queue only while the sweep works on the other
  queue, and the condition by which `evict_one` chose that queue bounds the counter
  just then. `evict_from_main` runs with `small_live < small_cap`; `evict_from_small`
  with `small_live >= small_cap`, so that `main_live <= shard_cap - small_cap`.
  `SweepInv` keeps these conditions; they are also what keeps the unchecked
  decrements from underflowing.
- `EvictionProgress` follows: with `small_live >= small_cap`, `DriftBounded` leaves at
  least one live entry in small, and `LiveQueued` a slot for it; with
  `small_live < small_cap` and a full shard, one in main.
- `SweepInv` carries from step to step that a victim makes room at once, which
  is `OneVictim`, and that the key being inserted is not in the table.

- `WorkShrinks`: one comparison for each step of the loop (`LoopStepShrinks`). A slot of
  small weighs four, one of main two, a frequency that is left one for each unit, so
  that a promotion and a second chance both cost more than they put back; that the
  table's frequencies never rise in the loop is `ChancesNeverGrow`.
- `InsertOutcome`: `SweepInv` says that a victim was in the table when the insertion
  began, is not there now, and left a bounded shard. So `Before`, the keys that are there
  and the victim, is the same set from the first step to the last
  (`LoopStepKeepsBefore`), and the room at the end is that of `CountInv`.

There is a lemma for each action, with the cardinality arithmetic in
`Split`, `EraseStep` and `EvictCounts`.

`ShardOutcomeProofs`: for `SpecKeeping`, `LiveCountsExact`, `NoStaleSlots` and
`EvictsOnlyWhenFull`. `KeepingInv` adds to `Inv` that each queue `Tracks` the entries whose
`loc` names it: no slot twice, no slot stale, the counter its length. `TracksPush` and
`TracksPop` say that `push_back` and `pop_front` with their counts keep this.

It also has `ImplementsBoundedMap`. The guards of the map's steps come from `Inv`:
that a victim is the only one from `OneVictim`, that there is room at the end from
`CountInv`.

### The lock

`RwLockProofs`: `TypeOK`, `Exclusion`, `UnlockAsserts`, `NoLostWakeup`, `FlagIsServed`,
`NobodyStranded` and `ImplementsSharedLock`, for any number of threads, from `IInv`. Its conjuncts lean on
each other: `LockInv` (what the count says of who has the lock) needs `UnlockInv` (what
`unlock_exclusive_slow` knows of the word) for the plain store; that no flag is lost
needs `QueueInv` (whoever is queued is parked, writers once and with their flag
remembered) and `ReadersInv` (the readers' flag is set only under a writer and for a
reader that is there); `FlagInv` strengthens `FlagIsServed` so that whoever is about to
wake readers has some to wake.

`NobodyStranded` puts these together. A parked thread is in a queue (`ParkedInv`, the converse
of `QueueInv`), so its flag is set, or somebody is about to wake it or to restore the flag
(`NoLostWakeup`). A flag with a count above zero means a holder, which `CountedHolder` finds
from `LockInv`; the writers' flag on a free lock has its server by `FlagIsServed`, and the
readers' flag is never set on a free lock.

### The cache

Three modules prove what one step keeps, each from the invariants that `NeoCacheInvariants`
defines and without the other two; `NeoCacheProofs` puts them together and has all the
theorems about behaviours.

`NeoCacheStepProofs`: `TypeOK`, `GuardsPin`, `NoAliasing` and `MovedOutUnseen`, for any number of
threads, keys and shards. These speak of entries and not of locks. The invariant says
what stands behind each pointer (`PointerInv`): for an exclusive guard the write lock
of the entry's shard, for a shared one its read lock, for a reference from a view that
no thread is in a call that writes (`CacheInv`). `LockInv` excludes the rest. A shard
that a thread may change is then one nobody else points into (`NoReach`), so a change
takes nothing away (`ShardOwned`) and a move leaves nothing dangling (`MoveSafe`).
`CallInv` is what iterators need: the entries still to come are in the shard just
locked. `OneOwner` says that at most one thread has an `OwningIter`.

`NeoCacheLockProofs`: `LocksObeyed`. Each step changes the guards of one thread only
(`Lawful`), each in a way its lock allows; for the iterators this takes `PointerInv`,
which says that the locks they keep are in their own mode.

It also has `NoCircularWait` and `CallsAdvance`. `OrderInv` is the order in which locks are
taken: an iterator that is about to lock shard `shard_i` has guards only for shards below
it, also those of kept items, and a call that locks one shard at a time has none between
two steps. Of threads that all wait for one another, take one that has come farthest
(`Farthest`): the shard it waits for is held by one of them, which has then come farther.
This covers a thread that waits for itself. `CallsAdvance` needs no more than types: each
step makes the call smaller in `Nearer`, which looks at the kind of call, the shard, the
entries to come, whether `next` was called, and the items kept, in this order. With
finitely many keys no call takes such steps for ever.

`NeoCacheSweepProofs`: `SweepExact` and `HintBracketed`. `SweepInv` is the promise on the
way: the keys of the shards behind the sweep that have stayed are found, what is
found came and lies behind, `clear` has left nothing behind, an `OwningIter` has
exactly what came from behind it and the cache exactly the rest; and the announced
length is that of some set between what stayed and what came. A change elsewhere keeps
the promise, for what goes has not stayed, and what comes has come (`ChangedSweep`).

### The constructor

`ShardingProofs`: `ShardInRange`, `TagIndependent`, `CapacityCovered` and `ShardsAsAsked`, for
words and tags of any width, and so also for 64 and 7. `Pow2` is defined by recursion; what
it is takes an induction, which goes by the least number outside a set
(`LeastMember`, `Induction`). Its laws give what the shifts do, that `next_power_of_two` is the
least power that will do, and that it does not pass the number asked for. `Sound` is what
the constructor leaves behind: `1 << b` shards, and a shift by all but `b` bits.
`TagIndependent` puts the hash together that has a given tag and a given shard.

### Only model-checked

Liveness under fairness, which is out of the prover's reach: `InsertTerminates`,
`EveryWaiterServed` and `AllCallsEnd`. What they rest on besides fairness is proved: that
the eviction loop uses up its work (`WorkShrinks`) and always has something to evict
(`EvictionProgress`); that a parked thread has somebody to wake it (`NoLostWakeup`,
`NobodyStranded`); and that calls advance (`CallsAdvance`) and do not wait in a circle
(`NoCircularWait`).

## Disagreements between code and documentation

1. `Shard_leak`: the old slot of a removed and reinserted key is taken for the new
   one, the key is promoted twice, and the counters stop counting live entries; an
   empty shard may count one (`src/docs/api-reference.md:94`, `src/src/shard.rs:44`).
   The cost is lost capacity and early eviction; the capacity is never exceeded.
2. `Shard_hang`: a `V::drop` that panics in `clear` or `retain` leaves entries counted that
   are gone, and the next insertion may stay in the eviction loop for ever, with the
   write lock (`src/src/shard.rs:156`).
3. `RwLock_starves`: readers enter although writers are parked, so writers can starve
   (`src/docs/internals.md:52`).
4. `RwLock_try`: `try_` calls may report a free shard as locked
   (`src/src/try_result.rs:10`).
5. `Sharding_four`: 12 entries in 4 shards give 3 for each (`src/README.md:107`).

Met on the way, without a run: nothing reads `main_cap`, and `small_cap` limits
nothing until the shard is full, though `src/src/shard.rs:52` calls them hard
limits; `src/docs/algorithm.md:152` gives `4 * logical_cpus` shards where the code
and `src/README.md:107` have 16 times the CPUs; queues grow without limit under insertions and
removals that never fill a shard; `is_empty` may be true of a cache that was never
empty (`src/src/lib.rs:363`).

## Not modelled

- A thread that enters the cache again with a guard in hand. In the guard's own shard it
  may wait for itself; across shards, two threads may wait for each other. Either is the
  caller's to avoid, and `AllCallsEnd` is about callers who do.
- `try_reserve` takes the cache by unique reference, so there is no pointer it could
  move; `capacity` goes over the shards as `len` does. Neither is an action.
- `deserialize`, `Extend` and `FromIterator` are insertions one after the other, of which
  nothing is asked that `Insert` does not answer. `Debug` and the operators pass on to
  what is modelled.
- How rayon divides its work: `into_par_iter` gives it the modelled `Iter`.
- In `NeoCache`, a `V::drop` that panics in `clear` or `retain`. Its consequences are for the
  shard's counters, which only `Shard` has. Other panics, of closures, of `K::clone` and of
  the drop of a victim, are there.
- A `K::eq` or `K::hash` that panics. `find` compares keys after `pop_front` has taken the slot
  off its queue (`src/src/shard.rs:177-184`, `src/src/shard.rs:229-234`): if `K::eq` panics
  there, a live entry is left without a slot, no sweep reaches it any more, and `LiveQueued`
  and what rests on it (`EvictionProgress`, `InsertTerminates`) are lost. What is said of a
  shard is said for keys that compare without panicking. `K::hash` of a stored key is called
  only where hashbrown moves a table, and what a panic leaves there is up to hashbrown.
- `NeoCache` keeps no values: that a value is not lost or invented is `ImplementsBoundedMap`.
- The accessors of `TryResult`, and the cell `SharedValue`, which have no steps.
- Memory orderings, and spurious wakeups and timeouts of parking_lot_core, which `lock.rs`
  does not use.
