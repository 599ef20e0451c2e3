------------------------- MODULE NeoCacheLockProofs -------------------------
(***************************************************************************)
(* The guards of module NeoCache, seen from one shard, are those of a      *)
(* shared lock: what RwLockProofs establishes of RawRwLock is all that the *)
(* cache relies on.                                                        *)
(*                                                                         *)
(* Seen from one thread, they are taken in the order of the shards.  So    *)
(* calls do not wait for one another in a circle, and every step of a call *)
(* brings its end nearer.                                                  *)
(***************************************************************************)
EXTENDS NeoCacheInvariants, WellFoundedInduction, TLAPS

Guard == {"none", "read", "write"}

(* Thread t, and no other, changes its guards, each as its lock allows.    *)
Lawful(t) ==
  /\ held'[t] \in [Shard -> Guard]
  /\ held' = [held EXCEPT ![t] = held'[t]]
  /\ \A s \in Shard : Allowed(t, s, held'[t][s])

(* Some of what TypeOK says of a call.                                     *)
LEMMA CallFields ==
  ASSUME TypeOK, NEW t \in Thread
  PROVE  /\ call[t].op \in {"idle", "alter"} \cup Sweeps \cup ReadGuards \cup WriteGuards
         /\ call[t].shard_i \in 0..ShardCount /\ call[t].kept \subseteq Key
BY DEF TypeOK, Call

(* A thread that changes its guards as the locks allow makes a step of     *)
(* each shard's lock, or none.                                             *)
LEMMA LawfulIsLockStep ==
  ASSUME TypeOK, NEW t \in Thread, Lawful(t), NEW s \in Shard
  PROVE  LockOf(s)!LStep
<1> DEFINE mode == [u \in Thread |-> held[u][s]]
           new == held'[t][s]
<1>1. /\ mode[t] \in Guard /\ mode[t] = held[t][s] /\ new \in Guard
      /\ \A u \in Thread : mode[u] = held[u][s]
  BY DEF TypeOK, Lawful, Guard
<1>2. mode' = [mode EXCEPT ![t] = new]
  BY Zenon DEF TypeOK, Lawful
<1>3. Allowed(t, s, new)
  BY DEF Lawful
<1>4. CASE new = mode[t]
  <2>1. mode' = mode
    BY <1>2, <1>4, Zenon
  <2> QED BY <2>1 DEF LockOf!LStep
<1>5. CASE new = "none" /\ mode[t] # "none"
  <2>1. LockOf(s)!LetGo(t)
    BY <1>2, <1>5 DEF LockOf!LetGo
  <2> QED BY <2>1 DEF LockOf!LStep, LockOf!LNext
<1>6. CASE new = "read" /\ mode[t] # "read"
  <2>1. LockOf(s)!ToShared(t) \/ LockOf(s)!AcquireShared(t)
    BY <1>1, <1>2, <1>3, <1>6 DEF LockOf!ToShared, LockOf!AcquireShared, Allowed, CanRead, Guard
  <2> QED BY <2>1 DEF LockOf!LStep, LockOf!LNext
<1>7. CASE new = "write" /\ mode[t] # "write"
  <2>1. LockOf(s)!AcquireExclusive(t)
    BY <1>1, <1>2, <1>3, <1>7 DEF LockOf!AcquireExclusive, Allowed, CanWrite
  <2> QED BY <2>1 DEF LockOf!LStep, LockOf!LNext
<1> QED BY <1>1, <1>4, <1>5, <1>6, <1>7 DEF Guard

(* A thread whose new guards are the ones in row.                          *)
LEMMA RowIsLawful ==
  ASSUME TypeOK, NEW t \in Thread, NEW row \in [Shard -> Guard],
         held' = [held EXCEPT ![t] = row],
         \A s \in Shard : Allowed(t, s, row[s])
  PROVE  Lawful(t)
<1>1. held'[t] = row
  BY DEF TypeOK
<1> QED BY <1>1, Zenon DEF Lawful

(* get, get_mut, entry and alter take the lock of one shard.               *)
LEMMA LockLawful ==
  ASSUME TypeOK, NEW t \in Thread, NEW s \in Shard, NEW mode \in {"read", "write"},
         Lock(t, s, mode), IF mode = "read" THEN CanRead(s) ELSE CanWrite(s)
  PROVE  Lawful(t)
<1> DEFINE row == [held[t] EXCEPT ![s] = mode]
<1>1. row \in [Shard -> Guard] /\ held' = [held EXCEPT ![t] = row]
  BY DEF TypeOK, Lock, Guard
<1>2. \A x \in Shard : Allowed(t, x, row[x])
  BY DEF TypeOK, Allowed
<1> QED BY <1>1, <1>2, RowIsLawful, Zenon

(* Dropping guards is always allowed.                                      *)
LEMMA DropLawful ==
  ASSUME TypeOK, NEW t \in Thread, NEW keep \in SUBSET Shard,
         held' = [held EXCEPT ![t] = [s \in Shard |-> IF s \in keep THEN held[t][s] ELSE "none"]]
  PROVE  Lawful(t)
<1> DEFINE row == [s \in Shard |-> IF s \in keep THEN held[t][s] ELSE "none"]
<1>1. row \in [Shard -> Guard]
  BY DEF TypeOK, Guard
<1>2. \A x \in Shard : Allowed(t, x, row[x])
  BY DEF Allowed
<1> QED BY <1>1, <1>2, RowIsLawful, Zenon

(* Also all at once.                                                       *)
LEMMA UnlockLawful ==
  ASSUME TypeOK, NEW t \in Thread, Unlock(t)
  PROVE  Lawful(t)
<1>1. NoGuards \in [Shard -> Guard] /\ \A s \in Shard : Allowed(t, s, NoGuards[s])
  BY DEF NoGuards, Guard, Allowed
<1> QED BY <1>1, RowIsLawful, Zenon DEF Unlock

(* An iterator that comes to a shard takes its lock, and keeps those of    *)
(* its items; a RefMut that is downgraded turns its write lock into a read *)
(* lock.                                                                   *)
LEMMA LockOnlyLawful ==
  ASSUME TypeOK, NEW t \in Thread, NEW shards, NEW mode \in {"read", "write"},
         LockOnly(t, shards, mode),
         \A s \in shards \cap Shard : Allowed(t, s, mode)
  PROVE  Lawful(t)
<1> DEFINE row == [s \in Shard |-> IF s \in shards THEN mode ELSE "none"]
<1>1. row \in [Shard -> Guard]
  BY DEF Guard
<1>2. \A x \in Shard : Allowed(t, x, row[x])
  BY DEF Allowed
<1> QED BY <1>1, <1>2, RowIsLawful, Zenon DEF LockOnly

(* The items that an iterator has kept are locked in its mode, and so is   *)
(* the entry of a RefMut.                                                  *)
LEMMA KeptLocks ==
  ASSUME IInv, NEW t \in Thread, NEW s \in Shards(call[t].kept)
  PROVE  /\ call[t].op \in Iterators => held[t][s] = Mode(call[t].op)
         /\ call[t].op = "ref_mut" => held[t][s] = "write"
<1>1. PICK k \in call[t].kept : s = ShardOf[k]
  BY DEF Shards
<1>2. PointerInv(t)
  BY DEF IInv
<1>3. call[t].op \in Exclusive => held[t][s] = "write"
  BY <1>1, <1>2 DEF PointerInv
<1>4. call[t].op \in {"iter", "serialize"} => held[t][s] = "read"
  BY <1>1, <1>2 DEF PointerInv, Shared
<1> QED BY <1>3, <1>4 DEF Iterators, Mode, Exclusive, WriteGuards

(* Every step changes the guards of at most one thread, as the locks       *)
(* allow.                                                                  *)
LEMMA NextIsLawful ==
  ASSUME IInv, Next
  PROVE  held' = held \/ \E t \in Thread : Lawful(t)
<1>1. TypeOK
  BY DEF IInv
<1>2. ASSUME NEW t \in Thread, Enter(t) PROVE held' = held \/ Lawful(t)
  <2>1. ASSUME NEW k \in Key, Insert(t, k) \/ InsertPanics(t, k) \/ Remove(t, k) \/ ViewGet(t, k)
        PROVE  held' = held
    BY <2>1 DEF Insert, InsertPanics, Remove, ViewGet
  <2>2. ASSUME NEW k \in Key, Get(t, k) PROVE Lawful(t)
    BY <1>1, <2>2, LockLawful, NeoCacheAssumption DEF Get
  <2>3. ASSUME NEW k \in Key, GetMut(t, k) \/ GetEntry(t, k) \/ Alter(t, k) PROVE Lawful(t)
    <3>1. ShardOf[k] \in Shard /\ CanWrite(ShardOf[k]) /\ Lock(t, ShardOf[k], "write")
      BY <2>3, NeoCacheAssumption DEF GetMut, GetEntry, Alter
    <3> QED BY <1>1, <3>1, LockLawful
  <2>4. ASSUME NEW op \in OfCache \cup OfView, BeginSweep(t, op) PROVE held' = held
    BY <2>4 DEF BeginSweep
  <2>5. IntoIter(t) => held' = held
    BY DEF IntoIter
  <2> QED BY <1>2, <2>1, <2>2, <2>3, <2>4, <2>5 DEF Enter
<1>3. ASSUME NEW t \in Thread, Proceed(t) PROVE held' = held \/ Lawful(t)
  <2>1. ReadShard(t) \/ SerializeMap(t) \/ WriteShard(t) \/ CallNext(t) => held' = held
    BY DEF ReadShard, SerializeMap, WriteShard, CallNext
  <2>2. ViewShard(t) \/ TakeShard(t) \/ DropOwningIter(t) => held' = held
    BY DEF ViewShard, TakeShard, DropOwningIter
  <2>3. ASSUME NEW k \in Key, AlterItem(t, k) \/ \E keep \in BOOLEAN : Yield(t, k, keep)
        PROVE  held' = held
    BY <2>3 DEF AlterItem, Yield
  <2>4. CASE NextShard(t)
    <3> DEFINE s == call[t].shard_i
    <3>1. call[t].op \in Iterators /\ CanLock(call[t].op, s)
      BY <2>4 DEF NextShard
    <3>2. LockOnly(t, {s} \cup Shards(call[t].kept), Mode(call[t].op))
      BY <2>4 DEF NextShard
    <3>3. Mode(call[t].op) \in {"read", "write"}
      BY DEF Mode
    <3>4. Allowed(t, s, Mode(call[t].op))
      BY <3>1, <3>3 DEF CanLock, Allowed
    <3>5. \A x \in Shards(call[t].kept) : Allowed(t, x, Mode(call[t].op))
      BY <3>1, KeptLocks DEF Allowed
    <3> QED BY <1>1, <3>2, <3>3, <3>4, <3>5, LockOnlyLawful
  <2>5. CASE AlterDone(t)
    BY <1>1, <2>5, UnlockLawful DEF AlterDone
  <2>6. CASE EndSweep(t)
    <3>1. Shards(call[t].kept) \in SUBSET Shard
      BY <1>1, CallFields, NeoCacheAssumption DEF Shards
    <3> QED BY <1>1, <2>6, <3>1, DropLawful DEF EndSweep
  <2>7. Release(t) => Lawful(t)
    BY <1>1, UnlockLawful DEF Release
  <2> QED BY <1>3, <2>1, <2>2, <2>3, <2>4, <2>5, <2>6, <2>7 DEF Proceed
<1>4. ASSUME NEW t \in Thread, UseGuard(t) \/ Panic(t) PROVE held' = held \/ Lawful(t)
  <2>1. ASSUME NEW op \in {"ref_mut", "occupied"}, VacantInsert(t, op) PROVE held' = held
    BY <2>1 DEF VacantInsert
  <2>2. IntoRef(t) \/ MapRef(t) \/ MapRefMut(t) \/ RetainPanics(t) \/ AlterPanics(t) => held' = held
    BY DEF IntoRef, MapRef, MapRefMut, RetainPanics, AlterPanics
  <2>3. OccupiedRemove(t) \/ VacantInsertPanics(t) => Lawful(t)
    BY <1>1, UnlockLawful DEF OccupiedRemove, VacantInsertPanics
  <2>4. CASE Downgrade(t)
    <3>1. \A s \in Shards(call[t].kept) : Allowed(t, s, "read")
      BY <2>4, KeptLocks DEF Downgrade, Allowed
    <3> QED BY <1>1, <2>4, <3>1, LockOnlyLawful DEF Downgrade
  <2>5. ASSUME NEW k \in Key, DropItem(t, k) PROVE Lawful(t)
    <3> DEFINE keep == Guarded(t, call[t].kept \ {k}) \cap Shard
    <3>1. held' = [held EXCEPT ![t] =
                    [s \in Shard |-> IF s \in keep THEN held[t][s] ELSE "none"]]
      BY <2>5, Zenon DEF DropItem
    <3> QED BY <1>1, <3>1, DropLawful, Zenon
  <2> QED BY <1>4, <2>1, <2>2, <2>3, <2>4, <2>5 DEF UseGuard, Panic
<1>5. IntoReadOnly \/ IntoInner \/ Aborted => held' = held
  BY DEF IntoReadOnly, IntoInner, Aborted, vars
<1> QED BY <1>2, <1>3, <1>4, <1>5 DEF Next

-----------------------------------------------------------------------------
(* In a new cache every lock is free.                                      *)
LEMMA LocksFree == Init => \A s \in Shard : LockOf(s)!LInit
BY DEF Init, LockOf!LInit, NoGuards

(* Every step is one of each shard's lock, or none.                        *)
LEMMA StepIsLockStep == Inv /\ [Next]_vars => [\A s \in Shard : LockOf(s)!LStep]_vars
<1> SUFFICES ASSUME Inv, Next, NEW s \in Shard PROVE LockOf(s)!LStep
  OBVIOUS
<1>1. IInv /\ TypeOK
  BY DEF Inv, IInv
<1>2. CASE held' = held
  BY <1>2 DEF LockOf!LStep
<1>3. CASE \E t \in Thread : Lawful(t)
  BY <1>1, <1>3, LawfulIsLockStep
<1> QED BY <1>1, <1>2, <1>3, NextIsLawful

-----------------------------------------------------------------------------
(* The order in which locks are taken.                                     *)

(* A call that locks nothing or one shard at a time has no guard between   *)
(* two steps; an iterator has guards only for shards it has come to.       *)
OrderInv(t) ==
  /\ call[t].op \in Passive \cup Unlocked => \A s \in Shard : held[t][s] = "none"
  /\ call[t].op \in Iterators =>
       \A s \in Shard : held[t][s] # "none" => s < call[t].shard_i

OInv == Inv /\ \A t \in Thread : OrderInv(t)

(* Thread t alone acts.                                                    *)
Alone(t) ==
  \A u \in Thread \ {t} : call'[u] = call[u] /\ held'[u] = held[u]

(* Every operation is one of the thread that called it.                    *)
LEMMA ThreadsAct ==
  ASSUME TypeOK, NEW t \in Thread, Enter(t) \/ Proceed(t) \/ UseGuard(t) \/ Panic(t)
  PROVE  Alone(t)
<1>1. ASSUME NEW k \in Key,
             \/ Insert(t, k) \/ InsertPanics(t, k) \/ Remove(t, k) \/ Get(t, k)
             \/ GetMut(t, k) \/ GetEntry(t, k) \/ Alter(t, k) \/ ViewGet(t, k)
      PROVE  Alone(t)
  BY <1>1 DEF Insert, InsertPanics, Remove, Get, GetMut, GetEntry, Alter, ViewGet, Now, Lock,
              Alone, TypeOK
<1>2. ASSUME NEW op, BeginSweep(t, op) \/ IntoIter(t) PROVE Alone(t)
  BY <1>2 DEF BeginSweep, IntoIter, Now, Alone, TypeOK
<1>3. ASSUME ReadShard(t) \/ SerializeMap(t) \/ WriteShard(t) \/ ViewShard(t) \/ TakeShard(t)
      PROVE  Alone(t)
  BY <1>3 DEF ReadShard, SerializeMap, WriteShard, ViewShard, TakeShard, Now, Alone, TypeOK
<1>4. ASSUME CallNext(t) \/ NextShard(t) \/ EndSweep(t) \/ DropOwningIter(t) PROVE Alone(t)
  BY <1>4 DEF CallNext, NextShard, EndSweep, DropOwningIter, Now, LockOnly, Alone, TypeOK
<1>5. ASSUME NEW k, NEW keep, AlterItem(t, k) \/ Yield(t, k, keep) \/ DropItem(t, k)
      PROVE  Alone(t)
  BY <1>5 DEF AlterItem, Yield, DropItem, Now, Alone, TypeOK
<1>6. ASSUME AlterDone(t) \/ Release(t) \/ AlterPanics(t) \/ RetainPanics(t) PROVE Alone(t)
  BY <1>6 DEF AlterDone, Release, AlterPanics, RetainPanics, Now, Unlock, Alone, TypeOK
<1>7. ASSUME NEW op, \/ VacantInsert(t, op) \/ VacantInsertPanics(t) \/ IntoRef(t)
                     \/ OccupiedRemove(t) \/ Downgrade(t) \/ MapRef(t) \/ MapRefMut(t)
      PROVE  Alone(t)
  BY <1>7 DEF VacantInsert, VacantInsertPanics, IntoRef, OccupiedRemove, Downgrade, MapRef,
              MapRefMut, Now, Unlock, LockOnly, Alone, TypeOK
<1>8. Enter(t) => Alone(t)
  BY <1>1, <1>2, Zenon DEF Enter
<1>9. Proceed(t) => Alone(t)
  BY <1>3, <1>4, <1>5, <1>6, Zenon DEF Proceed
<1>10. UseGuard(t) => Alone(t)
  BY <1>5, <1>7, Zenon DEF UseGuard
<1>11. Panic(t) => Alone(t)
  BY <1>6, <1>7, Zenon DEF Panic
<1> QED BY <1>8, <1>9, <1>10, <1>11, Zenon

(* A guard, or a closure of alter, is not what OrderInv is about.          *)
LEMMA GuardOrder ==
  ASSUME TypeOK, NEW t \in Thread, NEW keys,
         NEW op \in {"alter"} \cup ReadGuards \cup WriteGuards, Now(t, Holding(op, keys))
  PROVE  OrderInv(t)'
<1>1. call'[t].op = op
  BY DEF Now, Holding, TypeOK
<1>2. op \notin Passive \cup Unlocked \cup Iterators
  BY DEF ReadGuards, WriteGuards, Passive, Readers, Writers, Unlocked, Iterators
<1> QED BY <1>1, <1>2 DEF OrderInv

(* A thread without guards may begin any call.                             *)
LEMMA FreeOrder ==
  ASSUME NEW t \in Thread, \A s \in Shard : held'[t][s] = "none"
  PROVE  OrderInv(t)'
BY DEF OrderInv

(* A call that goes on without taking a lock keeps the order.              *)
LEMMA SameOrder ==
  ASSUME TypeOK, NEW t \in Thread, OrderInv(t), call'[t].op = call[t].op,
         call'[t].shard_i \in {call[t].shard_i, call[t].shard_i + 1},
         \A s \in Shard : held'[t][s] \in {held[t][s], "none"}
  PROVE  OrderInv(t)'
<1>1. call[t].shard_i \in Int /\ \A s \in Shard : s \in Int
  BY CallFields, NeoCacheAssumption DEF Shard
<1>2. \A s \in Shard : s < call[t].shard_i => s < call'[t].shard_i
  BY <1>1
<1>3. \A s \in Shard : held[t][s] = "none" => held'[t][s] = "none"
  OBVIOUS
<1> QED BY <1>2, <1>3, Zenon DEF OrderInv

(* next yields an item, or alter_all takes one up.                         *)
LEMMA ItemTaken ==
  ASSUME TypeOK, NEW t \in Thread, NEW k \in Key, NEW keep \in BOOLEAN,
         AlterItem(t, k) \/ Yield(t, k, keep)
  PROVE  /\ call'[t].op = call[t].op /\ call'[t].shard_i = call[t].shard_i
         /\ k \in call[t].todo /\ call'[t].todo = call[t].todo \ {k}
<1>1. ASSUME NEW keys,
             call' = [call EXCEPT ![t].todo = @ \ {k}, ![t].seen = @ \cup {k}, ![t].kept = keys]
      PROVE  /\ call'[t].op = call[t].op /\ call'[t].shard_i = call[t].shard_i
             /\ call'[t].todo = call[t].todo \ {k}
  BY <1>1 DEF TypeOK, Call
<1>2. k \in call[t].todo
  BY Zenon DEF AlterItem, Yield
<1>3. \E keys : call' = [call EXCEPT ![t].todo = @ \ {k}, ![t].seen = @ \cup {k}, ![t].kept = keys]
  BY Zenon DEF AlterItem, Yield
<1> QED BY <1>1, <1>2, <1>3, Zenon

(* Calls on one key, and those that begin.                                 *)
LEMMA EnterOrder ==
  ASSUME OInv, NEW t \in Thread, Enter(t)
  PROVE  OrderInv(t)'
<1>1. TypeOK /\ OrderInv(t)
  BY DEF OInv, Inv, IInv
<1>2. call[t] = Idle /\ \A s \in Shard : held[t][s] = "none"
  <2>1. call[t] = Idle
    BY Zenon DEF Enter, Enters, Insert, InsertPanics, Remove, Get, GetMut, GetEntry, Alter, ViewGet,
           BeginSweep, IntoIter, AllIdle
  <2> QED BY <1>1, <2>1 DEF OrderInv, Passive, Idle, Holding
<1>3. CASE held' = held
  BY <1>2, <1>3, FreeOrder
<1>4. ASSUME NEW k \in Key, Get(t, k) \/ GetMut(t, k) \/ GetEntry(t, k) \/ Alter(t, k)
      PROVE  OrderInv(t)'
  <2>1. PICK op \in {"ref", "ref_mut", "occupied", "vacant", "alter"} : Now(t, Holding(op, {k}))
    BY <1>4 DEF Get, GetMut, GetEntry, Alter
  <2> QED BY <1>1, <2>1, GuardOrder DEF ReadGuards, WriteGuards
<1>5. ASSUME NEW k \in Key, Insert(t, k) \/ InsertPanics(t, k) \/ Remove(t, k) \/ ViewGet(t, k)
      PROVE  held' = held
  BY <1>5 DEF Insert, InsertPanics, Remove, ViewGet
<1>6. ASSUME NEW op, BeginSweep(t, op) \/ IntoIter(t) PROVE held' = held
  BY <1>6 DEF BeginSweep, IntoIter
<1> QED BY <1>3, <1>4, <1>5, <1>6, Zenon DEF Enter

(* An iterator takes the lock of the shard it comes to, which is beyond    *)
(* all those it has guards for.                                            *)
LEMMA NextShardOrder ==
  ASSUME OInv, NEW t \in Thread, NextShard(t)
  PROVE  OrderInv(t)'
<1> DEFINE s == call[t].shard_i
           keep == {s} \cup Shards(call[t].kept)
<1>1. IInv /\ TypeOK /\ OrderInv(t)
  BY DEF OInv, Inv, IInv
<1>2. call[t].op \in Iterators /\ LockOnly(t, keep, Mode(call[t].op))
  BY DEF NextShard
<1>3. call'[t].op = call[t].op /\ call'[t].shard_i = s + 1
  BY <1>1 DEF NextShard, TypeOK, Call
<1>4. \A x \in Shard : held'[t][x] # "none" => x \in keep
  BY <1>1, <1>2 DEF LockOnly, TypeOK
<1>5. Mode(call[t].op) # "none"
  BY DEF Mode
<1>6. \A x \in Shard \cap Shards(call[t].kept) : x < s
  BY <1>1, <1>2, <1>5, KeptLocks DEF OrderInv
<1>7. s \in Int /\ \A x \in Shard : x \in Int
  BY <1>1, CallFields, NeoCacheAssumption DEF Shard
<1>8. \A x \in Shard : held'[t][x] # "none" => x < s + 1
  <2> SUFFICES ASSUME NEW x \in Shard, held'[t][x] # "none" PROVE x < s + 1
    OBVIOUS
  <2>1. x = s \/ x < s
    BY <1>4, <1>6
  <2> QED BY <1>7, <2>1
<1> QED BY <1>2, <1>3, <1>8 DEF OrderInv, Passive, Readers, Writers, Unlocked, Iterators

(* What is done with one entry changes no guard.                           *)
LEMMA ItemOrder ==
  ASSUME OInv, NEW t \in Thread, NEW k \in Key, NEW keep \in BOOLEAN,
         AlterItem(t, k) \/ Yield(t, k, keep)
  PROVE  OrderInv(t)'
<1>1. TypeOK /\ OrderInv(t)
  BY DEF OInv, Inv, IInv
<1>2. held' = held
  BY Zenon DEF AlterItem, Yield
<1>3. call'[t].op = call[t].op /\ call'[t].shard_i = call[t].shard_i
  BY <1>1, ItemTaken, Zenon
<1> QED BY <1>1, <1>2, <1>3, SameOrder

(* The other steps of calls through the shards.                            *)
LEMMA SweepOrder ==
  ASSUME OInv, NEW t \in Thread,
         \/ ReadShard(t) \/ SerializeMap(t) \/ WriteShard(t) \/ CallNext(t)
         \/ ViewShard(t) \/ TakeShard(t) \/ DropOwningIter(t) \/ RetainPanics(t)
         \/ \E k \in Key : AlterItem(t, k) \/ \E keep \in BOOLEAN : Yield(t, k, keep)
  PROVE  OrderInv(t)'
<1>1. TypeOK /\ OrderInv(t)
  BY DEF OInv, Inv, IInv
<1>2. held' = held
  BY Zenon DEF ReadShard, SerializeMap, WriteShard, CallNext, ViewShard, TakeShard,
               DropOwningIter, RetainPanics, AlterItem, Yield
<1>3. call[t].shard_i + 1 \in Int /\ call[t].shard_i \in Int
  BY <1>1, CallFields, NeoCacheAssumption
<1>4. ASSUME SerializeMap(t) \/ DropOwningIter(t) \/ RetainPanics(t) PROVE OrderInv(t)'
  <2>1. call[t].op \in Passive \cup Unlocked
    BY <1>4 DEF SerializeMap, DropOwningIter, RetainPanics, Passive, Readers, Writers, Unlocked
  <2> QED BY <1>1, <1>2, <2>1, FreeOrder DEF OrderInv
<1>5. ASSUME ReadShard(t) \/ WriteShard(t) \/ ViewShard(t) \/ TakeShard(t) \/ CallNext(t)
      PROVE  OrderInv(t)'
  <2>1. /\ call'[t].op = call[t].op
        /\ call'[t].shard_i \in {call[t].shard_i, call[t].shard_i + 1}
    BY <1>1, <1>5 DEF ReadShard, WriteShard, ViewShard, TakeShard, CallNext, TypeOK, Call
  <2> QED BY <1>1, <1>2, <2>1, SameOrder
<1> QED BY <1>4, <1>5, ItemOrder, Zenon

(* Guards are let go, and kept items become a guard of their own.          *)
LEMMA DropOrder ==
  ASSUME OInv, NEW t \in Thread,
         \/ AlterDone(t) \/ EndSweep(t) \/ Release(t) \/ OccupiedRemove(t)
         \/ VacantInsertPanics(t) \/ \E k \in Key : DropItem(t, k)
  PROVE  OrderInv(t)'
<1>1. TypeOK /\ OrderInv(t)
  BY DEF OInv, Inv, IInv
<1>2. ASSUME Unlock(t) PROVE OrderInv(t)'
  BY <1>1, <1>2, FreeOrder DEF Unlock, NoGuards, TypeOK
<1>3. CASE AlterDone(t)
  <2>1. CASE call[t].op = "alter"
    BY <1>2, <1>3, <2>1 DEF AlterDone
  <2>2. CASE call[t].op # "alter"
    <3>1. UNCHANGED held /\ call' = [call EXCEPT ![t].kept = {}]
      BY <1>3, <2>2 DEF AlterDone
    <3>2. call'[t].op = call[t].op /\ call'[t].shard_i = call[t].shard_i
      BY <1>1, <3>1 DEF TypeOK, Call
    <3> QED BY <1>1, <3>1, <3>2, SameOrder
  <2> QED BY <2>1, <2>2
<1>4. CASE EndSweep(t)
  <2>1. CASE call[t].kept = {}
    <3>1. \A s \in Shard : held'[t][s] = "none"
      BY <1>1, <1>4, <2>1 DEF EndSweep, Shards, TypeOK
    <3> QED BY <3>1, FreeOrder
  <2>2. CASE call[t].kept # {}
    <3>1. PICK op \in {"refs", "refs_mut"} : Now(t, Holding(op, call[t].kept))
      BY <1>4, <2>2 DEF EndSweep
    <3> QED BY <1>1, <3>1, GuardOrder DEF ReadGuards, WriteGuards
  <2> QED BY <2>1, <2>2
<1>5. ASSUME NEW k \in Key, DropItem(t, k) PROVE OrderInv(t)'
  <2>1. held'[t] = [s \in Shard |->
                      IF s \in Guarded(t, call[t].kept \ {k}) THEN held[t][s] ELSE "none"]
    BY <1>1, <1>5, Zenon DEF DropItem, TypeOK
  <2>2. CASE call[t].kept = {k} /\ ~Sweeping(t)
    <3>1. Guarded(t, call[t].kept \ {k}) = {}
      BY <2>2 DEF Guarded, Shards, Sweeping, Sweeps
    <3> QED BY <2>1, <3>1, FreeOrder, Zenon
  <2>3. CASE ~(call[t].kept = {k} /\ ~Sweeping(t))
    <3>1. call' = [call EXCEPT ![t].kept = @ \ {k}]
      BY <1>5, <2>3, Zenon DEF DropItem
    <3>2. call'[t].op = call[t].op /\ call'[t].shard_i = call[t].shard_i
      BY <1>1, <3>1 DEF TypeOK, Call
    <3>3. \A s \in Shard : held'[t][s] \in {held[t][s], "none"}
      BY <2>1
    <3> QED BY <1>1, <3>2, <3>3, SameOrder
  <2> QED BY <2>2, <2>3
<1>6. Release(t) \/ OccupiedRemove(t) \/ VacantInsertPanics(t) => Unlock(t)
  BY DEF Release, OccupiedRemove, VacantInsertPanics
<1> QED BY <1>2, <1>3, <1>4, <1>5, <1>6, Zenon

(* What is left of the uses of a guard gives a guard.                      *)
LEMMA UseOrder ==
  ASSUME OInv, NEW t \in Thread,
         \/ \E op \in {"ref_mut", "occupied"} : VacantInsert(t, op)
         \/ IntoRef(t) \/ Downgrade(t) \/ MapRef(t) \/ MapRefMut(t)
  PROVE  OrderInv(t)'
<1>1. TypeOK
  BY DEF OInv, Inv, IInv
<1>2. PICK op \in {"ref", "ref_mut", "occupied", "mapped_ref", "mapped_ref_mut"} :
        Now(t, Holding(op, call[t].kept))
  BY Zenon DEF VacantInsert, IntoRef, Downgrade, MapRef, MapRefMut
<1> QED BY <1>1, <1>2, GuardOrder DEF ReadGuards, WriteGuards

(* Every step keeps the order.                                             *)
LEMMA StepOrder == OInv /\ Inv' /\ [Next]_vars => OInv'
<1> SUFFICES ASSUME OInv, Inv', [Next]_vars PROVE OInv'
  OBVIOUS
<1>1. Inv' /\ TypeOK
  BY DEF OInv, Inv, IInv
<1>2. ASSUME NEW u \in Thread, call'[u] = call[u], held'[u] = held[u] PROVE OrderInv(u)'
  BY <1>2 DEF OInv, OrderInv
<1>3. CASE UNCHANGED <<call, held>>
  BY <1>1, <1>2, <1>3 DEF OInv
<1>4. UNCHANGED vars \/ IntoReadOnly \/ IntoInner \/ Aborted => UNCHANGED <<call, held>>
  BY DEF IntoReadOnly, IntoInner, Aborted, vars
<1>5. ASSUME NEW t \in Thread, Enter(t) \/ Proceed(t) \/ UseGuard(t) \/ Panic(t) PROVE OInv'
  <2>1. Alone(t)
    BY <1>1, <1>5, ThreadsAct
  <2>2. OrderInv(t)'
    <3>1. Enter(t) => OrderInv(t)'
      BY EnterOrder
    <3>2. Proceed(t) => OrderInv(t)'
      BY NextShardOrder, SweepOrder, DropOrder, Zenon DEF Proceed
    <3>3. UseGuard(t) => OrderInv(t)'
      BY UseOrder, DropOrder, Zenon DEF UseGuard
    <3>4. AlterPanics(t) => OrderInv(t)'
      BY <1>2 DEF AlterPanics
    <3>5. Panic(t) => OrderInv(t)'
      BY <3>4, SweepOrder, DropOrder, Zenon DEF Panic
    <3> QED BY <1>5, <3>1, <3>2, <3>3, <3>5
  <2> QED BY <1>1, <1>2, <2>1, <2>2 DEF OInv, Alone
<1> QED BY <1>3, <1>4, <1>5, Zenon DEF Next

(* A set of numbers that is not empty has a least member.                  *)
LEMMA LeastMember ==
  ASSUME NEW T, T \subseteq Nat, T # {}
  PROVE  \E x \in T : \A y \in T : x <= y
<1>1. IsWellFoundedOn(OpToRel(<, Nat), Nat)
  BY NatLessThanWellFounded, Zenon
<1>2. PICK x \in T : \A y \in T : ~(<<y, x>> \in OpToRel(<, Nat))
  BY <1>1, WFMin, Zenon
<1>3. \A y \in T : ~(y < x)
  BY <1>2, Zenon DEF OpToRel
<1> QED BY <1>3

(* Of some threads, one has come farthest.                                 *)
LEMMA Farthest ==
  ASSUME TypeOK, NEW waiting \in (SUBSET Thread) \ {{}}
  PROVE  \E t \in waiting : \A u \in waiting : call[u].shard_i <= call[t].shard_i
<1> DEFINE left(t) == ShardCount - call[t].shard_i
           T == {left(t) : t \in waiting}
<1>1. \A t \in waiting : call[t].shard_i \in 0..ShardCount
  BY CallFields
<1>2. T \subseteq Nat /\ T # {}
  BY <1>1, NeoCacheAssumption
<1> HIDE DEF T
<1>3. PICK x \in T : \A y \in T : x <= y
  BY <1>2, LeastMember, Zenon
<1> USE DEF T
<1>4. PICK t \in waiting : x = left(t)
  BY <1>3
<1>5. \A u \in waiting : left(t) <= left(u)
  BY <1>3, <1>4
<1> QED BY <1>1, <1>5, NeoCacheAssumption

(* In a new cache there are no guards.                                     *)
LEMMA InitOrder == Init /\ Inv => OInv
<1> SUFFICES ASSUME Init, Inv, NEW t \in Thread PROVE OrderInv(t)
  BY DEF OInv
<1>1. \A s \in Shard : held[t][s] = "none"
  BY DEF Init, NoGuards
<1> QED BY <1>1 DEF OrderInv

(* Of the calls of a circle, the one that has come farthest waits for a    *)
(* shard that none of the others has come to.                              *)
LEMMA OrderBreaksCircles == OInv => NoCircularWait
<1> SUFFICES ASSUME OInv, NEW waiting \in (SUBSET Thread) \ {{}},
                    \A t \in waiting : Blockers(t) \cap waiting # {}
             PROVE  FALSE
  BY Zenon DEF NoCircularWait
<1>1. TypeOK /\ \A t \in waiting : OrderInv(t)
  BY DEF OInv, Inv, IInv
<1>2. PICK t \in waiting : \A u \in waiting : call[u].shard_i <= call[t].shard_i
  BY <1>1, Farthest, Zenon
<1>3. PICK u \in waiting : u \in Blockers(t)
  OBVIOUS
<1>4. \A v \in waiting : Needs(v) # "none"
  BY DEF Blockers
<1>5. \A v \in waiting :
        /\ call[v].shard_i # ShardCount
        /\ call[v].op \in Passive \cup Unlocked \cup Iterators
  BY <1>4 DEF Needs, Passive, Unlocked
<1>6. held[u][call[t].shard_i] # "none"
  BY <1>3 DEF Blockers
<1>7. call[t].shard_i \in Shard /\ call[t].shard_i \in Int /\ call[u].shard_i \in Int
  BY <1>1, <1>5, CallFields, NeoCacheAssumption DEF Shard
<1>8. call[t].shard_i < call[u].shard_i
  BY <1>1, <1>5, <1>6, <1>7 DEF OrderInv
<1> QED BY <1>2, <1>7, <1>8

-----------------------------------------------------------------------------
(* The way of a call to its end.                                           *)

(* What Stage makes of a call.                                             *)
LEMMA Stages ==
  /\ Stage("idle") = 0
  /\ Stage("mapped_ref") = 1 /\ Stage("mapped_ref_mut") = 1
  /\ Stage("refs") = 1 /\ Stage("refs_mut") = 1
  /\ Stage("ref") = 2 /\ Stage("alter") = 2 /\ Stage("ref_mut") = 3
  /\ Stage("occupied") = 4 /\ Stage("vacant") = 5 /\ Stage("len_hint") = 7
  /\ \A op \in Sweeps \ {"len_hint"} : Stage(op) = 6
BY DEF Stage, Sweeps, Readers, Writers, Iterators, Unlocked

(* A call that turns into a lesser one.                                    *)
LEMMA LesserCall ==
  ASSUME TypeOK, NEW t \in Thread, NEW op, NEW keys, Now(t, Holding(op, keys)),
         Stage(op) < Stage(call[t].op)
  PROVE  Nearer(call'[t], call[t])
<1>1. call'[t].op = op
  BY DEF Now, Holding, TypeOK
<1> QED BY <1>1, Zenon DEF Nearer

(* A call that ends.                                                       *)
LEMMA CallEnds ==
  ASSUME TypeOK, NEW t \in Thread, Now(t, Idle), call[t].op # "idle"
  PROVE  Nearer(call'[t], call[t])
<1>1. Stage("idle") < Stage(call[t].op)
  BY CallFields, Stages DEF ReadGuards, WriteGuards
<1> QED BY <1>1, LesserCall, Zenon DEF Idle

(* The uses of a guard.                                                    *)
LEMMA GuardAdvance ==
  ASSUME TypeOK, NEW t \in Thread,
         \/ \E op \in {"ref_mut", "occupied"} : VacantInsert(t, op)
         \/ IntoRef(t) \/ Downgrade(t) \/ MapRef(t) \/ MapRefMut(t)
         \/ Release(t) \/ OccupiedRemove(t) \/ VacantInsertPanics(t) \/ RetainPanics(t)
         \/ DropOwningIter(t)
  PROVE  Nearer(call'[t], call[t])
<1>1. ASSUME NEW op \in {"ref_mut", "occupied"}, VacantInsert(t, op)
      PROVE  Nearer(call'[t], call[t])
  <2>1. Now(t, Holding(op, call[t].kept)) /\ Stage(op) < Stage(call[t].op)
    BY <1>1, Stages DEF VacantInsert
  <2> QED BY <2>1, LesserCall, Zenon
<1>2. ASSUME IntoRef(t) \/ Downgrade(t) \/ MapRef(t) \/ MapRefMut(t)
      PROVE  Nearer(call'[t], call[t])
  <2>1. PICK op \in {"ref_mut", "ref", "mapped_ref", "mapped_ref_mut"} :
          Now(t, Holding(op, call[t].kept)) /\ Stage(op) < Stage(call[t].op)
    <3>1. CASE IntoRef(t)
      BY <3>1, Stages DEF IntoRef
    <3>2. CASE Downgrade(t)
      BY <3>2, Stages DEF Downgrade
    <3>3. CASE MapRef(t)
      BY <3>3, Stages DEF MapRef
    <3>4. CASE MapRefMut(t)
      BY <3>4, Stages DEF MapRefMut
    <3> QED BY <1>2, <3>1, <3>2, <3>3, <3>4, Zenon
  <2> QED BY <2>1, LesserCall, Zenon
<1>3. ASSUME \/ Release(t) \/ OccupiedRemove(t) \/ VacantInsertPanics(t) \/ RetainPanics(t)
             \/ DropOwningIter(t)
      PROVE  Nearer(call'[t], call[t])
  <2>1. Now(t, Idle) /\ call[t].op # "idle"
    <3>1. CASE Release(t) \/ DropOwningIter(t)
      BY <3>1 DEF Release, DropOwningIter, ReadGuards, WriteGuards
    <3>2. CASE OccupiedRemove(t) \/ VacantInsertPanics(t) \/ RetainPanics(t)
      BY <3>2 DEF OccupiedRemove, VacantInsertPanics, RetainPanics
    <3> QED BY <1>3, <3>1, <3>2, Zenon
  <2> QED BY <2>1, CallEnds, Zenon
<1> QED BY <1>1, <1>2, <1>3, Zenon

(* The steps from shard to shard.                                          *)
LEMMA ShardAdvance ==
  ASSUME TypeOK, NEW t \in Thread,
         \/ ReadShard(t) \/ SerializeMap(t) \/ WriteShard(t) \/ CallNext(t)
         \/ NextShard(t) \/ ViewShard(t) \/ TakeShard(t)
  PROVE  Nearer(call'[t], call[t])
<1>1. call[t].shard_i \in Int
  BY CallFields, NeoCacheAssumption
<1>2. ASSUME ReadShard(t) \/ WriteShard(t) \/ NextShard(t) \/ ViewShard(t) \/ TakeShard(t)
      PROVE  Nearer(call'[t], call[t])
  <2>1. call'[t].op = call[t].op /\ call'[t].shard_i = call[t].shard_i + 1
    <3>1. CASE ReadShard(t) \/ WriteShard(t)
      BY <3>1 DEF ReadShard, WriteShard, TypeOK, Call
    <3>2. CASE NextShard(t)
      BY <3>2 DEF NextShard, TypeOK, Call
    <3>3. CASE ViewShard(t) \/ TakeShard(t)
      BY <3>3 DEF ViewShard, TakeShard, TypeOK, Call
    <3> QED BY <1>2, <3>1, <3>2, <3>3, Zenon
  <2>2. call'[t].shard_i > call[t].shard_i
    BY <1>1, <2>1
  <2> QED BY <2>1, <2>2, Zenon DEF Nearer
<1>3. CASE CallNext(t)
  <2>1. /\ call[t].at = "caller" /\ call'[t].at = "next"
        /\ call'[t].op = call[t].op /\ call'[t].shard_i = call[t].shard_i
        /\ call'[t].todo = call[t].todo
    BY <1>3 DEF CallNext, TypeOK, Call
  <2> QED BY <2>1, Zenon DEF Nearer
<1>4. CASE SerializeMap(t)
  <2>1. call'[t].op = "serialize" /\ call[t].op = "len_hint"
    BY <1>4 DEF SerializeMap, Now, Sweep, Holding, TypeOK
  <2>2. Stage("serialize") < Stage("len_hint")
    BY Stages DEF Sweeps, Iterators
  <2> QED BY <2>1, <2>2, Zenon DEF Nearer
<1> QED BY <1>2, <1>3, <1>4, Zenon

(* What is done with one entry, and the end of a sweep.                    *)
LEMMA ItemAdvance ==
  ASSUME TypeOK, NEW t \in Thread,
         \/ \E k \in Key : \/ AlterItem(t, k) \/ DropItem(t, k)
                           \/ \E keep \in BOOLEAN : Yield(t, k, keep)
         \/ AlterDone(t) \/ EndSweep(t)
  PROVE  Nearer(call'[t], call[t])
<1>1. ASSUME NEW k \in Key, NEW keep \in BOOLEAN, AlterItem(t, k) \/ Yield(t, k, keep)
      PROVE  Nearer(call'[t], call[t])
  <2>1. /\ call'[t].op = call[t].op /\ call'[t].shard_i = call[t].shard_i
        /\ call'[t].todo = call[t].todo \ {k} /\ k \in call[t].todo
    BY <1>1, ItemTaken, Zenon
  <2>2. call'[t].todo \subseteq call[t].todo /\ call'[t].todo # call[t].todo
    BY <2>1, Zenon
  <2> QED BY <2>1, <2>2, Zenon DEF Nearer
<1>2. ASSUME NEW keys, keys \subseteq call[t].kept, keys # call[t].kept,
             call' = [call EXCEPT ![t].kept = keys]
      PROVE  Nearer(call'[t], call[t])
  <2>1. /\ call'[t].op = call[t].op /\ call'[t].shard_i = call[t].shard_i
        /\ call'[t].todo = call[t].todo /\ call'[t].at = call[t].at /\ call'[t].kept = keys
    BY <1>2 DEF TypeOK, Call
  <2> QED BY <1>2, <2>1, Zenon DEF Nearer
<1>3. CASE AlterDone(t)
  <2>1. CASE call[t].op = "alter"
    BY <1>3, <2>1, CallEnds DEF AlterDone
  <2>2. CASE call[t].op # "alter"
    <3>1. call' = [call EXCEPT ![t].kept = {}] /\ call[t].kept # {}
      BY <1>3, <2>2 DEF AlterDone, Altering
    <3> DEFINE none == {}
    <3>2. none \subseteq call[t].kept /\ none # call[t].kept
      BY <3>1
    <3>3. call' = [call EXCEPT ![t].kept = none]
      BY <3>1, Zenon
    <3> HIDE DEF none
    <3> QED BY <1>2, <3>2, <3>3, Zenon
  <2> QED BY <2>1, <2>2
<1>4. ASSUME NEW k \in Key, DropItem(t, k) PROVE Nearer(call'[t], call[t])
  <2>1. call[t].op # "idle" /\ k \in call[t].kept
    BY <1>4 DEF DropItem
  <2>2. Now(t, Idle) => Nearer(call'[t], call[t])
    BY <2>1, CallEnds
  <2>3. ASSUME call' = [call EXCEPT ![t].kept = @ \ {k}] PROVE Nearer(call'[t], call[t])
    <3>1. call[t].kept \ {k} \subseteq call[t].kept /\ call[t].kept \ {k} # call[t].kept
      BY <2>1
    <3> QED BY <1>2, <2>3, <3>1, Zenon
  <2> QED BY <1>4, <2>2, <2>3 DEF DropItem
<1>5. CASE EndSweep(t)
  <2>1. call[t].op \in Sweeps \ {"len_hint"}
    BY <1>5 DEF EndSweep, Done, Sweeping, Sweeps, Iterators, Unlocked
  <2>2. PICK op \in {"idle", "refs", "refs_mut"} : Now(t, Holding(op, call[t].kept))
    BY <1>5, Zenon DEF EndSweep, Idle
  <2>3. Stage(op) < Stage(call[t].op)
    BY <2>1, Stages
  <2> QED BY <2>2, <2>3, LesserCall, Zenon
<1> QED BY <1>1, <1>3, <1>4, <1>5, Zenon

(* Every step of a call brings its end nearer.                             *)
LEMMA StepAdvances ==
  TypeOK /\ [Next]_vars =>
    [\A t \in Thread : call[t] # Idle /\ call'[t] # call[t] => Nearer(call'[t], call[t])]_vars
<1> SUFFICES ASSUME TypeOK, Next, NEW t \in Thread, call[t] # Idle, call'[t] # call[t]
             PROVE  Nearer(call'[t], call[t])
  OBVIOUS
<1>1. ~(IntoReadOnly \/ IntoInner \/ Aborted)
  BY DEF IntoReadOnly, IntoInner, Aborted, vars
<1>2. PICK u \in Thread : Enter(u) \/ Proceed(u) \/ UseGuard(u) \/ Panic(u)
  BY <1>1, Zenon DEF Next
<1>3. u = t
  BY <1>2, ThreadsAct, Zenon DEF Alone
<1>4. ~Enter(t)
  BY Zenon DEF Enter, Enters, Insert, InsertPanics, Remove, Get, GetMut, GetEntry, Alter,
               ViewGet, BeginSweep, IntoIter, AllIdle
<1>5. Proceed(t) => Nearer(call'[t], call[t])
  BY ShardAdvance, ItemAdvance, GuardAdvance, Zenon DEF Proceed
<1>6. UseGuard(t) => Nearer(call'[t], call[t])
  BY ItemAdvance, GuardAdvance, Zenon DEF UseGuard
<1>7. ~AlterPanics(t)
  BY DEF AlterPanics
<1>8. Panic(t) => Nearer(call'[t], call[t])
  BY <1>7, GuardAdvance, Zenon DEF Panic
<1> QED BY <1>2, <1>3, <1>4, <1>5, <1>6, <1>8

-----------------------------------------------------------------------------
(* The owner of a cache.                                                   *)

(* Nobody becomes an owner but by IntoIter, when no other thread is in the *)
(* cache.                                                                  *)
LEMMA OwnerStep ==
  ASSUME Inv, Next
  PROVE  OneOwner'
<1>1. TypeOK /\ OneOwner
  BY DEF Inv, IInv
<1>2. CASE call' = call
  BY <1>1, <1>2 DEF OneOwner
<1>3. ASSUME NEW t \in Thread, NEW c, call' = [call EXCEPT ![t] = c],
             c.op = "into_iter" => call[t].op = "into_iter"
      PROVE  OneOwner'
  <2>1. \A u \in Thread : call'[u].op = "into_iter" => call[u].op = "into_iter"
    BY <1>1, <1>3 DEF TypeOK
  <2> QED BY <1>1, <2>1 DEF OneOwner
<1>4. ASSUME NEW t \in Thread, NEW op, NEW keys, Now(t, Holding(op, keys)), op # "into_iter"
      PROVE  OneOwner'
  BY <1>3, <1>4, Zenon DEF Now, Holding
<1>4a. ASSUME NEW t \in Thread, Now(t, Idle) PROVE OneOwner'
  BY <1>4a, <1>4, Zenon DEF Idle
<1>5. ASSUME \A u \in Thread : call'[u].op = call[u].op
      PROVE  OneOwner'
  BY <1>1, <1>5 DEF OneOwner
<1>6. ASSUME NEW t \in Thread, Enter(t) PROVE OneOwner'
  <2>1. ASSUME NEW k \in Key, Insert(t, k) \/ InsertPanics(t, k) \/ Remove(t, k) PROVE OneOwner'
    BY <1>2, <2>1, Zenon DEF Insert, InsertPanics, Remove
  <2>2. ASSUME NEW k \in Key, Get(t, k) \/ GetMut(t, k) \/ Alter(t, k) \/ ViewGet(t, k)
        PROVE  OneOwner'
    <3>1. CASE Get(t, k)
      <4>1. Now(t, Holding("ref", {k}))
        BY <3>1 DEF Get
      <4> QED BY <1>4, <4>1, Zenon
    <3>2. CASE GetMut(t, k)
      <4>1. Now(t, Holding("ref_mut", {k}))
        BY <3>2 DEF GetMut
      <4> QED BY <1>4, <4>1, Zenon
    <3>3. CASE Alter(t, k)
      <4>1. Now(t, Holding("alter", {k}))
        BY <3>3 DEF Alter
      <4> QED BY <1>4, <4>1, Zenon
    <3>4. CASE ViewGet(t, k)
      <4>1. Now(t, Holding("refs", {k}))
        BY <3>4 DEF ViewGet
      <4> QED BY <1>4, <4>1, Zenon
    <3> QED BY <2>2, <3>1, <3>2, <3>3, <3>4, Zenon
  <2>3. ASSUME NEW k \in Key, GetEntry(t, k) PROVE OneOwner'
    <3> DEFINE op == IF k \in content[ShardOf[k]] THEN "occupied" ELSE "vacant"
    <3>1. Now(t, Holding(op, {k}))
      BY <2>3 DEF GetEntry
    <3>2. op # "into_iter"
      OBVIOUS
    <3> HIDE DEF op
    <3> QED BY <1>4, <3>1, <3>2, Zenon
  <2>4. ASSUME NEW op \in OfCache \cup OfView, BeginSweep(t, op) PROVE OneOwner'
    <3>1. op # "into_iter"
      BY DEF OfCache, OfView, Readers, Writers, Iterators
    <3>2. Now(t, Sweep(op))
      BY <2>4 DEF BeginSweep
    <3> QED BY <1>4, <3>1, <3>2, Zenon DEF Sweep
  <2>5. CASE IntoIter(t)
    <3>1. \A u \in Thread \ {t} : call'[u] = Idle
      BY <1>1, <2>5 DEF IntoIter, Now, AllIdle, TypeOK
    <3>2. Idle.op # "into_iter"
      BY DEF Idle, Holding
    <3> QED BY <3>1, <3>2 DEF OneOwner
  <2> QED BY <1>6, <2>1, <2>2, <2>3, <2>4, <2>5 DEF Enter
<1>7. ASSUME NEW t \in Thread, Proceed(t) PROVE OneOwner'
  <2> DEFINE Same == \A u \in Thread : call'[u].op = call[u].op
  <2>1. ReadShard(t) => Same
    BY <1>1 DEF ReadShard, TypeOK, Call
  <2>2. WriteShard(t) => Same
    BY <1>1 DEF WriteShard, TypeOK, Call
  <2>3. CallNext(t) => Same
    BY <1>1 DEF CallNext, TypeOK, Call
  <2>4. NextShard(t) => Same
    BY <1>1 DEF NextShard, TypeOK, Call
  <2>5. ViewShard(t) => Same
    BY <1>1 DEF ViewShard, TypeOK, Call
  <2>6. TakeShard(t) => Same
    BY <1>1 DEF TakeShard, TypeOK, Call
  <2>7. \A k \in Key : AlterItem(t, k) => Same
    BY <1>1 DEF AlterItem, TypeOK, Call
  <2>8. \A k \in Key, keep \in BOOLEAN : Yield(t, k, keep) => Same
    BY <1>1 DEF Yield, TypeOK, Call
  <2>9. CASE SerializeMap(t)
    <3>1. [Sweep("serialize") EXCEPT !.hint = Cardinality(call[t].seen)].op = "serialize"
      BY DEF Sweep, Holding
    <3> QED BY <1>3, <2>9, <3>1, Zenon DEF SerializeMap, Now
  <2>10. CASE AlterDone(t)
    <3>1. CASE call[t].op = "alter"
      <4>1. Now(t, Idle)
        BY <2>10, <3>1 DEF AlterDone
      <4> QED BY <1>4a, <4>1, Zenon
    <3>2. CASE call[t].op # "alter"
      <4>1. Same
        BY <1>1, <2>10, <3>2, SMTT(60) DEF AlterDone, TypeOK, Call
      <4> QED BY <1>5, <4>1
    <3> QED BY <3>1, <3>2
  <2>11. CASE EndSweep(t)
    <3>1. CASE call[t].kept = {}
      <4>1. Now(t, Idle)
        BY <2>11, <3>1 DEF EndSweep
      <4> QED BY <1>4a, <4>1, Zenon
    <3>2. CASE call[t].kept # {}
      <4> DEFINE op == IF call[t].op = "iter_mut" THEN "refs_mut" ELSE "refs"
      <4>1. Now(t, Holding(op, call[t].kept))
        BY <2>11, <3>2 DEF EndSweep
      <4>2. op # "into_iter"
        OBVIOUS
      <4> HIDE DEF op
      <4> QED BY <1>4, <4>1, <4>2, Zenon
    <3> QED BY <3>1, <3>2, Zenon
  <2>12. CASE DropOwningIter(t) \/ Release(t)
    <3>1. Now(t, Idle)
      BY <2>12, Zenon DEF DropOwningIter, Release
    <3> QED BY <1>4a, <3>1, Zenon
  <2> HIDE DEF Same
  <2>13. Same => OneOwner'
    BY <1>5 DEF Same
  <2> QED BY <1>7, <2>1, <2>2, <2>3, <2>4, <2>5, <2>6, <2>7, <2>8, <2>9, <2>10, <2>11, <2>12, <2>13
          DEF Proceed
<1>8. ASSUME NEW t \in Thread, UseGuard(t) \/ Panic(t) PROVE OneOwner'
  <2>1. ASSUME NEW op \in {"ref_mut", "occupied"}, VacantInsert(t, op) PROVE OneOwner'
    <3>1. Now(t, Holding(op, call[t].kept))
      BY <2>1, Zenon DEF VacantInsert
    <3>2. op # "into_iter"
      OBVIOUS
    <3> QED BY <1>4, <3>1, <3>2, Zenon
  <2>2. CASE IntoRef(t) \/ Downgrade(t) \/ MapRef(t) \/ MapRefMut(t)
    <3>1. \/ Now(t, Holding("ref_mut", call[t].kept))
          \/ Now(t, Holding("ref", call[t].kept))
          \/ Now(t, Holding("mapped_ref", call[t].kept))
          \/ Now(t, Holding("mapped_ref_mut", call[t].kept))
      BY <2>2, Zenon DEF IntoRef, Downgrade, MapRef, MapRefMut
    <3> QED BY <1>4, <3>1, Zenon
  <2>3. CASE OccupiedRemove(t) \/ VacantInsertPanics(t) \/ RetainPanics(t)
    <3>1. Now(t, Idle)
      BY <2>3, Zenon DEF OccupiedRemove, VacantInsertPanics, RetainPanics
    <3> QED BY <1>4a, <3>1, Zenon
  <2>4. ASSUME NEW k \in Key, DropItem(t, k) PROVE OneOwner'
    <3>1. CASE Now(t, Idle)
      BY <1>4a, <3>1, Zenon
    <3>2. CASE call' = [call EXCEPT ![t].kept = @ \ {k}]
      <4>1. \A u \in Thread : call'[u].op = call[u].op
        BY <1>1, <3>2 DEF TypeOK, Call
      <4> QED BY <1>5, <4>1
    <3> QED BY <2>4, <3>1, <3>2 DEF DropItem
  <2>5. CASE AlterPanics(t)
    BY <1>2, <2>5 DEF AlterPanics
  <2> QED BY <1>8, <2>1, <2>2, <2>3, <2>4, <2>5 DEF UseGuard, Panic
<1>9. CASE IntoReadOnly \/ IntoInner \/ Aborted
  BY <1>2, <1>9 DEF IntoReadOnly, IntoInner, Aborted, vars
<1> QED BY <1>6, <1>7, <1>8, <1>9 DEF Next
=============================================================================
