------------------------ MODULE NeoCacheSweepProofs ------------------------
(***************************************************************************)
(* What a call that goes from shard to shard can promise while other       *)
(* threads insert, evict and remove, for any number of threads, keys and   *)
(* shards.                                                                 *)
(*                                                                         *)
(* SweepExact speaks of a sweep at its end.  SweepInv is what holds on the *)
(* way: the keys of the shards behind it that have stayed are reported or  *)
(* about to be, and nothing is reported of the shards ahead.               *)
(***************************************************************************)
EXTENDS NeoCacheInvariants, TLAPS

Reporters == Readers \cup Iterators \cup {"view_iter"}

(* The sweep of thread t has been to the shard of k.                       *)
Passed(t, k) == ShardOf[k] < call[t].shard_i
Found(t) == call[t].seen \cup call[t].todo

SweepInv(t) ==
  /\ call[t].todo \cap call[t].seen = {}
  /\ Sweeping(t) => \A k \in Found(t) : Passed(t, k)
  /\ Sweeping(t) /\ call[t].op # "into_iter" =>
       stayed[t] \subseteq Resident /\ Resident \subseteq came[t]
  /\ call[t].op \in Reporters =>
       /\ \A k \in stayed[t] : Passed(t, k) => k \in Found(t)
       /\ Found(t) \subseteq came[t]
  /\ call[t].op = "clear" => \A k \in stayed[t] : ~Passed(t, k)
  /\ call[t].op = "into_iter" =>
       /\ Found(t) = {k \in came[t] : Passed(t, k)}
       /\ Resident = {k \in came[t] : ~Passed(t, k)}
  /\ call[t].op = "serialize" =>
       \E keys \in SUBSET Key : /\ call[t].hint = Cardinality(keys)
                                /\ stayed[t] \subseteq keys /\ keys \subseteq came[t]

SInv == Inv /\ \A t \in Thread : SweepInv(t)

(* A call that is no sweep promises nothing.                               *)
LEMMA NoSweepInv ==
  ASSUME NEW t \in Thread, call[t].op \notin Sweeps, call[t].todo = {}
  PROVE  SweepInv(t)
BY DEF SweepInv, Sweeping, Reporters, Sweeps, Readers, Writers, Iterators, Unlocked

(* A sweep that is not on its turn keeps its promise when nothing changes. *)
LEMMA SameSweep ==
  ASSUME NEW t \in Thread, SweepInv(t), call'[t] = call[t],
         UNCHANGED content, stayed'[t] = stayed[t], came'[t] = came[t]
  PROVE  SweepInv(t)'
<1>1. Resident' = Resident /\ Found(t)' = Found(t) /\ Sweeping(t)' = Sweeping(t)
  BY DEF Resident, Found, Sweeping
<1>2. \A k : Passed(t, k)' = Passed(t, k)
  BY DEF Passed
<1> QED BY <1>1, <1>2 DEF SweepInv

(* It also does when a shard changes: what goes has not stayed, what comes *)
(* has come.                                                               *)
LEMMA ChangedSweep ==
  ASSUME Inv, NEW t \in Thread, SweepInv(t), call'[t] = call[t],
         call[t].op # "into_iter",
         NEW s \in Shard, NEW keys \in SUBSET Key,
         \A k \in keys : ShardOf[k] = s,
         ChangeShard(s, keys)
  PROVE  SweepInv(t)'
<1>1. /\ content' = [content EXCEPT ![s] = keys]
      /\ stayed'[t] = stayed[t] \cap In(content')
      /\ came'[t] = IF Sweeping(t) THEN came[t] \cup In(content') ELSE came[t]
  BY DEF ChangeShard
<1>2. In(content') = Resident'
  BY <1>1, NeoCacheAssumption DEF In, Resident, Inv, IInv, TypeOK
<1>3. Found(t)' = Found(t) /\ Sweeping(t)' = Sweeping(t)
  BY DEF Found, Sweeping
<1>4. \A k : Passed(t, k)' = Passed(t, k)
  BY DEF Passed
<1>5. stayed'[t] \subseteq stayed[t] /\ came[t] \subseteq came'[t]
  BY <1>1
<1>6. Sweeping(t) => stayed'[t] \subseteq Resident' /\ Resident' \subseteq came'[t]
  BY <1>1, <1>2, Zenon
<1>7. call[t].op = "serialize" =>
        \E x \in SUBSET Key : /\ call'[t].hint = Cardinality(x)
                              /\ stayed'[t] \subseteq x /\ x \subseteq came'[t]
  BY <1>5 DEF SweepInv
<1> QED BY <1>3, <1>4, <1>5, <1>6, <1>7 DEF SweepInv

(* A step of thread t that leaves the table as it is.                      *)
LEMMA QuietSweeps ==
  ASSUME SInv, NEW t \in Thread,
         \A u \in Thread \ {t} : /\ call'[u] = call[u]
                                 /\ stayed'[u] = stayed[u] /\ came'[u] = came[u],
         UNCHANGED content, SweepInv(t)'
  PROVE  \A u \in Thread : SweepInv(u)'
<1> SUFFICES ASSUME NEW u \in Thread \ {t} PROVE SweepInv(u)'
  OBVIOUS
<1>1. SweepInv(u)
  BY DEF SInv
<1> QED BY <1>1, SameSweep

(* A step of thread t that changes a shard, of a cache that others use.    *)
LEMMA ChangeSweeps ==
  ASSUME SInv, NEW t \in Thread, \A u \in Thread \ {t} : call'[u] = call[u],
         \A u \in Thread \ {t} : call[u].op # "into_iter",
         NEW s \in Shard, NEW keys \in SUBSET Key,
         \A k \in keys : ShardOf[k] = s,
         ChangeShard(s, keys), SweepInv(t)'
  PROVE  \A u \in Thread : SweepInv(u)'
<1> SUFFICES ASSUME NEW u \in Thread \ {t} PROVE SweepInv(u)'
  OBVIOUS
<1>1. SweepInv(u)
  BY DEF SInv
<1> QED BY <1>1, ChangedSweep DEF SInv

(* The fields of the call that thread t goes on with.                      *)
LEMMA CallNow ==
  ASSUME TypeOK, NEW t \in Thread, NEW c, call' = [call EXCEPT ![t] = c]
  PROVE  call'[t] = c /\ \A u \in Thread \ {t} : call'[u] = call[u]
BY DEF TypeOK

(* The calls that operations begin with.                                   *)
LEMMA FreshCall ==
  ASSUME NEW op, NEW keys
  PROVE  /\ Holding(op, keys).op = op /\ Holding(op, keys).todo = {}
         /\ Holding(op, keys).seen = {} /\ Holding(op, keys).shard_i = 0
         /\ Idle.op = "idle" /\ Idle.todo = {}
BY DEF Holding, Idle

(* Where a call is made that is no sweep.                                  *)
LEMMA GuardInv ==
  ASSUME TypeOK, NEW t \in Thread, NEW keys,
         NEW op \in {"idle", "alter"} \cup ReadGuards \cup WriteGuards,
         Now(t, Holding(op, keys))
  PROVE  SweepInv(t)' /\ \A u \in Thread \ {t} : call'[u] = call[u]
<1>1. call'[t] = Holding(op, keys) /\ \A u \in Thread \ {t} : call'[u] = call[u]
  BY CallNow, Zenon DEF Now
<1>2. call'[t].op = op /\ call'[t].todo = {}
  BY <1>1, FreshCall
<1>3. op \notin Sweeps
  BY DEF ReadGuards, WriteGuards, Sweeps, Readers, Writers, Iterators, Unlocked
<1>4. call'[t].todo \cap call'[t].seen = {}
  BY <1>2
<1>5. SweepInv(t)'
  BY <1>2, <1>3, <1>4
     DEF SweepInv, Sweeping, Reporters, Sweeps, Readers, Writers, Iterators, Unlocked
<1> QED BY <1>1, <1>5

(* A thread that has a lock, a guard or the cache itself is not in a cache *)
(* that an OwningIter has consumed.                                        *)
LEMMA NotConsumed ==
  ASSUME Inv, NEW t \in Thread, cache = "shared" \/ call[t].op \notin {"idle", "into_iter"}
  PROVE  \A u \in Thread : call[u].op # "into_iter"
BY DEF Inv, IInv, CacheInv

(* insert and remove, also when a clone or a drop panics.                  *)
LEMMA InsertSweeps ==
  ASSUME SInv, NEW t \in Thread, NEW k \in Key,
         Insert(t, k) \/ InsertPanics(t, k) \/ Remove(t, k)
  PROVE  \A u \in Thread : SweepInv(u)'
<1> DEFINE s == ShardOf[k]
<1>1. Inv /\ IInv /\ TypeOK /\ s \in Shard /\ content[s] \subseteq Key
  BY NeoCacheAssumption DEF SInv, Inv, IInv, TypeOK
<1>2. call[t] = Idle /\ cache = "shared" /\ call' = call
  BY DEF Insert, InsertPanics, Remove, Enters
<1>3. PICK keys \in SUBSET Key : ChangeShard(s, keys) /\ \A x \in keys : ShardOf[x] = s
  <2>1. \A x \in content[s] : ShardOf[x] = s
    BY <1>1 DEF TypeOK
  <2>2. \A keys \in AfterInsert(s, k) \cup AfterEviction(s) : keys \subseteq content[s] \cup {k}
    BY DEF AfterInsert, AfterEviction
  <2>3. \E keys : ChangeShard(s, keys) /\ keys \subseteq content[s] \cup {k}
    BY <2>2 DEF Insert, InsertPanics, Remove
  <2> QED BY <1>1, <2>1, <2>3
<1>4. SweepInv(t)'
  BY <1>2, FreshCall, NoSweepInv
     DEF SweepInv, Sweeping, Reporters, Sweeps, Readers, Writers, Iterators, Unlocked
<1>5. \A u \in Thread : call[u].op # "into_iter"
  BY <1>1, <1>2, NotConsumed
<1> QED BY <1>1, <1>2, <1>3, <1>4, <1>5, ChangeSweeps

(* Calls that begin, change or end a guard.                                *)
LEMMA GuardSweeps ==
  ASSUME SInv, NEW t \in Thread, NEW keys,
         NEW op \in {"idle", "alter"} \cup ReadGuards \cup WriteGuards,
         Now(t, Holding(op, keys)), UNCHANGED <<content, stayed, came>>
  PROVE  \A u \in Thread : SweepInv(u)'
<1>1. TypeOK
  BY DEF SInv, Inv, IInv
<1>2. SweepInv(t)' /\ \A u \in Thread \ {t} : call'[u] = call[u]
  BY <1>1, GuardInv
<1> QED BY <1>2, QuietSweeps

(* What a guard with the write lock does to its shard.                     *)
LEMMA OwnerSweeps ==
  ASSUME SInv, NEW t \in Thread, call[t].op \notin {"idle", "into_iter"},
         NEW op \in {"idle", "alter"} \cup ReadGuards \cup WriteGuards, NEW kept,
         Now(t, Holding(op, kept)),
         NEW s \in Shard, NEW keys \in SUBSET Key,
         \A k \in keys : ShardOf[k] = s,
         ChangeShard(s, keys)
  PROVE  \A u \in Thread : SweepInv(u)'
<1>1. Inv /\ TypeOK
  BY DEF SInv, Inv, IInv
<1>2. SweepInv(t)' /\ \A u \in Thread \ {t} : call'[u] = call[u]
  BY <1>1, GuardInv
<1>3. \A u \in Thread : call[u].op # "into_iter"
  BY <1>1, NotConsumed
<1> QED BY <1>2, <1>3, ChangeSweeps

(* The entry API, and retain when its closure panics.                      *)
LEMMA EntrySweeps ==
  ASSUME SInv, NEW t \in Thread,
         \/ \E op \in {"ref_mut", "occupied"} : VacantInsert(t, op)
         \/ VacantInsertPanics(t) \/ OccupiedRemove(t) \/ RetainPanics(t)
  PROVE  \A u \in Thread : SweepInv(u)'
<1>1. Inv /\ TypeOK /\ call[t].kept \subseteq Key /\ call[t].shard_i \in 0..ShardCount
  BY DEF SInv, Inv, IInv, TypeOK, Call
<1>2. \A s \in Shard : content[s] \subseteq Key /\ \A k \in content[s] : ShardOf[k] = s
  BY <1>1 DEF TypeOK
<1>3. PICK s \in Shard, keys \in SUBSET Key :
        ChangeShard(s, keys) /\ \A x \in keys : ShardOf[x] = s
  <2>1. ASSUME NEW k \in call[t].kept,
               NEW keys \in AfterInsert(ShardOf[k], k) \cup AfterEviction(ShardOf[k])
        PROVE  ShardOf[k] \in Shard /\ keys \subseteq Key /\ \A x \in keys : ShardOf[x] = ShardOf[k]
    <3>1. ShardOf[k] \in Shard /\ k \in Key
      BY <1>1, NeoCacheAssumption
    <3>2. keys \subseteq content[ShardOf[k]] \cup {k}
      BY DEF AfterInsert, AfterEviction
    <3> QED BY <1>2, <3>1, <3>2
  <2>2. ASSUME NEW op \in {"ref_mut", "occupied"}, VacantInsert(t, op)
        PROVE  \E k \in call[t].kept :
                 \E keys \in AfterInsert(ShardOf[k], k) : ChangeShard(ShardOf[k], keys)
    BY <2>2 DEF VacantInsert
  <2>3. CASE VacantInsertPanics(t)
    <3>1. PICK k \in call[t].kept :
            \E keys \in AfterEviction(ShardOf[k]) : ChangeShard(ShardOf[k], keys)
      BY <2>3 DEF VacantInsertPanics
    <3> QED BY <2>1, <3>1
  <2>4. CASE OccupiedRemove(t)
    <3>1. PICK k \in call[t].kept : ChangeShard(ShardOf[k], content[ShardOf[k]] \ {k})
      BY <2>4, Zenon DEF OccupiedRemove
    <3>2. ShardOf[k] \in Shard
      BY <1>1, NeoCacheAssumption
    <3> QED BY <1>2, <3>1, <3>2
  <2>5. CASE RetainPanics(t)
    <3>1. call[t].op = "retain" /\ call[t].shard_i \in Shard
      BY <1>1, <2>5, NeoCacheAssumption DEF RetainPanics, Shard
    <3>2. PICK keys \in Survivors(t) : ChangeShard(call[t].shard_i, keys)
      BY <2>5 DEF RetainPanics
    <3>3. keys \subseteq content[call[t].shard_i]
      BY <3>1, <3>2 DEF Survivors
    <3> QED BY <1>2, <3>1, <3>2, <3>3
  <2> QED BY <2>1, <2>2, <2>3, <2>4, <2>5
<1>4. call[t].op \notin {"idle", "into_iter"}
  BY DEF VacantInsert, VacantInsertPanics, OccupiedRemove, RetainPanics
<1>5. PICK op \in {"idle"} \cup WriteGuards, kept \in SUBSET Key : Now(t, Holding(op, kept))
  <2>1. ASSUME NEW op \in {"ref_mut", "occupied"}, VacantInsert(t, op)
        PROVE  op \in WriteGuards /\ Now(t, Holding(op, call[t].kept))
    BY <2>1 DEF VacantInsert, WriteGuards
  <2>2. VacantInsertPanics(t) \/ OccupiedRemove(t) \/ RetainPanics(t) => Now(t, Holding("idle", {}))
    BY DEF VacantInsertPanics, OccupiedRemove, RetainPanics, Idle
  <2> QED BY <1>1, <2>1, <2>2
<1> QED BY <1>3, <1>4, <1>5, OwnerSweeps

(* The other operations that begin, change or end a guard.                 *)
LEMMA HoldSweeps ==
  ASSUME SInv, NEW t \in Thread,
         \/ \E k \in Key : \/ Get(t, k) \/ GetMut(t, k) \/ GetEntry(t, k)
                           \/ Alter(t, k) \/ ViewGet(t, k)
         \/ IntoRef(t) \/ Downgrade(t) \/ MapRef(t) \/ MapRefMut(t) \/ Release(t)
  PROVE  \A u \in Thread : SweepInv(u)'
<1>1. UNCHANGED <<content, stayed, came>>
  BY Zenon DEF Get, GetMut, GetEntry, Alter, ViewGet, IntoRef, Downgrade, MapRef, MapRefMut,
               Release, table
<1>2. ASSUME NEW k \in Key, Get(t, k) \/ GetMut(t, k) \/ Alter(t, k) \/ ViewGet(t, k)
      PROVE  \E op \in {"ref", "ref_mut", "alter", "refs"} : Now(t, Holding(op, {k}))
  BY <1>2 DEF Get, GetMut, Alter, ViewGet
<1>3. ASSUME NEW k \in Key, GetEntry(t, k)
      PROVE  \E op \in {"occupied", "vacant"} : Now(t, Holding(op, {k}))
  BY <1>3 DEF GetEntry
<1>4. ASSUME IntoRef(t) \/ Downgrade(t) \/ MapRef(t) \/ MapRefMut(t)
      PROVE  \E op \in {"ref", "ref_mut", "mapped_ref", "mapped_ref_mut"} :
               Now(t, Holding(op, call[t].kept))
  BY <1>4 DEF IntoRef, Downgrade, MapRef, MapRefMut
<1>5. Release(t) => Now(t, Holding("idle", {}))
  BY DEF Release, Idle
<1>6. \E op \in {"idle", "alter"} \cup ReadGuards \cup WriteGuards :
        \E keys : Now(t, Holding(op, keys))
  BY <1>2, <1>3, <1>4, <1>5, Zenon DEF ReadGuards, WriteGuards
<1> QED BY <1>1, <1>6, GuardSweeps

-----------------------------------------------------------------------------
(* Sweeps.                                                                 *)

(* What the steps of the sweep of thread t start from.                     *)
Known(t) ==
  /\ Inv /\ IInv /\ TypeOK /\ SweepInv(t)
  /\ call[t].shard_i \in 0..ShardCount /\ ShardCount \in Nat
  /\ \A k \in Key : ShardOf[k] \in 0..(ShardCount - 1)
  /\ \A s \in Shard : content[s] = {k \in Resident : ShardOf[k] = s}
  /\ In(content) = Resident
  /\ call[t].op \notin Iterators \cup Unlocked => call[t].todo = {}
  /\ call[t].seen \subseteq Key /\ call[t].todo \subseteq Key

(* All of it follows from the invariant.                                   *)
LEMMA SweepFacts ==
  ASSUME SInv, NEW t \in Thread
  PROVE  Known(t)
<1>1. Inv /\ IInv /\ TypeOK /\ SweepInv(t)
  BY DEF SInv, Inv, IInv
<1>2. \A s \in Shard : content[s] = {k \in Resident : ShardOf[k] = s}
  BY <1>1 DEF TypeOK, Resident
<1>3. CallInv(t)
  BY <1>1 DEF IInv
<1>4. ShardCount \in Nat /\ \A k \in Key : ShardOf[k] \in 0..(ShardCount - 1)
  BY NeoCacheAssumption DEF Shard
<1>5. In(content) = Resident
  BY <1>1, NeoCacheAssumption DEF TypeOK, In, Resident
<1>6. /\ call[t].shard_i \in 0..ShardCount
      /\ call[t].seen \subseteq Key /\ call[t].todo \subseteq Key
  BY <1>1 DEF TypeOK, Call
<1>7. call[t].op \notin Iterators \cup Unlocked => call[t].todo = {}
  BY <1>3 DEF CallInv
<1> QED BY <1>1, <1>2, <1>4, <1>5, <1>6, <1>7 DEF Known

(* A sweep begins with nothing found, and all that is there has stayed.    *)
LEMMA BeginSweeps ==
  ASSUME SInv, NEW t \in Thread, NEW op \in OfCache \cup OfView, BeginSweep(t, op)
  PROVE  \A u \in Thread : SweepInv(u)'
<1>0. Known(t)
  BY SweepFacts, Zenon
<1>1. /\ call'[t] = Holding(op, {})
      /\ \A u \in Thread \ {t} : call'[u] = call[u]
      /\ \A u \in Thread \ {t} : stayed'[u] = stayed[u] /\ came'[u] = came[u]
      /\ UNCHANGED content
      /\ stayed'[t] = Resident /\ came'[t] = Resident
  BY <1>0, CallNow DEF Known, BeginSweep, Now, Sweep, TypeOK
<1>2. call'[t].op = op /\ call'[t].todo = {} /\ call'[t].seen = {} /\ call'[t].shard_i = 0
  BY <1>1, FreshCall
<1>3. op \notin {"into_iter", "serialize"}
  BY DEF OfCache, OfView, Readers, Writers, Iterators
<1>4. Resident' = Resident /\ Resident \subseteq Key
  BY <1>1 DEF Resident
<1>5. \A k \in Key : ~Passed(t, k)'
  BY <1>0, <1>2 DEF Known, Passed
<1>6. SweepInv(t)'
  BY <1>1, <1>2, <1>3, <1>4, <1>5 DEF SweepInv, Found
<1> QED BY <1>1, <1>6, QuietSweeps

(* len, is_empty and clone read the shard they have come to.               *)
LEMMA ReadSweeps ==
  ASSUME SInv, NEW t \in Thread, ReadShard(t)
  PROVE  \A u \in Thread : SweepInv(u)'
<1> DEFINE s == call[t].shard_i
<1>0. Known(t)
  BY SweepFacts, Zenon
<1>1. /\ \A u \in Thread \ {t} : call'[u] = call[u]
      /\ UNCHANGED <<content, stayed, came>>
      /\ call'[t].op = call[t].op /\ call'[t].todo = call[t].todo
      /\ call'[t].seen = call[t].seen \cup content[s] /\ call'[t].shard_i = s + 1
  BY <1>0 DEF Known, ReadShard, TypeOK, Call, table
<1>2. call[t].op \in Readers /\ s \in Shard /\ call[t].todo = {}
  BY <1>0 DEF Known, ReadShard, Shard, Readers, Iterators, Unlocked
<1>3. /\ call[t].op \notin {"into_iter", "serialize", "clear"}
      /\ Sweeping(t) /\ call[t].op \in Reporters
  BY <1>2 DEF Readers, Sweeping, Sweeps, Reporters
<1>4. Resident' = Resident /\ content[s] = {k \in Resident : ShardOf[k] = s}
  BY <1>0, <1>1, <1>2 DEF Known, Resident
<1>5. stayed[t] \subseteq Resident /\ Resident \subseteq came[t] /\ Resident \subseteq Key
  BY <1>0, <1>3 DEF Known, SweepInv, Resident
<1>6. \A k \in Key : Passed(t, k)' <=> Passed(t, k) \/ ShardOf[k] = s
  BY <1>0, <1>1 DEF Known, Passed
<1>7. Found(t)' = Found(t) \cup content[s]
  BY <1>1 DEF Found
<1>8. SweepInv(t)'
  <2>1. call'[t].todo \cap call'[t].seen = {}
    BY <1>1, <1>2
  <2>2. \A k \in Found(t)' : Passed(t, k)'
    BY <1>0, <1>3, <1>4, <1>5, <1>6, <1>7 DEF Known, SweepInv, Found
  <2>3. \A k \in stayed[t] : Passed(t, k)' => k \in Found(t)'
    BY <1>0, <1>3, <1>4, <1>5, <1>6, <1>7 DEF Known, SweepInv
  <2>4. Found(t)' \subseteq came[t]
    BY <1>0, <1>3, <1>4, <1>5, <1>7 DEF Known, SweepInv
  <2> QED BY <1>1, <1>3, <1>4, <1>5, <2>1, <2>2, <2>3, <2>4 DEF SweepInv
<1> QED BY <1>1, <1>8, QuietSweeps

(* serialize has a length that is that of a set between what stayed and    *)
(* what came, and begins again at the first shard.                         *)
LEMMA SerializeSweeps ==
  ASSUME SInv, NEW t \in Thread, SerializeMap(t)
  PROVE  \A u \in Thread : SweepInv(u)'
<1> DEFINE c == [Sweep("serialize") EXCEPT !.hint = Cardinality(call[t].seen)]
<1>0. Known(t)
  BY SweepFacts, Zenon
<1>1. /\ call'[t] = c
      /\ \A u \in Thread \ {t} : call'[u] = call[u]
      /\ UNCHANGED <<content, stayed, came>>
  BY <1>0, CallNow, Zenon DEF Known, SerializeMap, Now, table
<1>2. /\ c.op = "serialize" /\ c.todo = {} /\ c.seen = {} /\ c.shard_i = 0
      /\ c.hint = Cardinality(call[t].seen)
  BY DEF Sweep, Holding
<1> HIDE DEF c
<1>3. /\ call[t].op = "len_hint" /\ call[t].shard_i = ShardCount /\ call[t].todo = {}
      /\ call[t].op \in Reporters /\ Sweeping(t)
  BY <1>0 DEF Known, SerializeMap, Reporters, Readers, Sweeping, Sweeps, Iterators, Unlocked
<1>4. stayed[t] \subseteq Resident /\ Resident \subseteq came[t] /\ Resident \subseteq Key
  BY <1>0, <1>3 DEF Known, SweepInv, Resident
<1>5. \A k \in Key : Passed(t, k) /\ ~Passed(t, k)'
  BY <1>0, <1>1, <1>2, <1>3 DEF Known, Passed
<1>6. /\ stayed[t] \subseteq call[t].seen
      /\ call[t].seen \subseteq came[t] /\ call[t].seen \subseteq Key
  BY <1>0, <1>3, <1>4, <1>5 DEF Known, SweepInv, Found
<1>7. SweepInv(t)'
  <2>1. Found(t)' = {} /\ Resident' = Resident
    BY <1>1, <1>2 DEF Found, Resident
  <2> QED BY <1>1, <1>2, <1>4, <1>5, <1>6, <2>1 DEF SweepInv
<1> QED BY <1>1, <1>7, QuietSweeps

(* clear, retain and shrink_to_fit work on the shard they have come to;    *)
(* clear leaves nothing in it.                                             *)
LEMMA WriteSweeps ==
  ASSUME SInv, NEW t \in Thread, WriteShard(t)
  PROVE  \A u \in Thread : SweepInv(u)'
<1> DEFINE s == call[t].shard_i
<1>0. Known(t)
  BY SweepFacts, Zenon
<1>1. /\ \A u \in Thread \ {t} : call'[u] = call[u]
      /\ call'[t].op = call[t].op /\ call'[t].todo = call[t].todo
      /\ call'[t].seen = call[t].seen /\ call'[t].shard_i = s + 1
  BY <1>0 DEF Known, WriteShard, TypeOK, Call
<1>2. call[t].op \in Writers /\ s \in Shard
  BY <1>0 DEF Known, WriteShard, Shard
<1>3. /\ call[t].op \notin {"idle", "into_iter", "serialize"} \cup Reporters
      /\ Sweeping(t)
  BY <1>2 DEF Writers, Sweeping, Sweeps, Reporters, Readers, Iterators
<1>4. PICK keys \in Survivors(t) : ChangeShard(s, keys)
  BY DEF WriteShard
<1>5. keys \subseteq content[s] /\ (call[t].op = "clear" => keys = {})
  BY <1>4 DEF Survivors
<1>6. keys \in SUBSET Key /\ \A k \in keys : ShardOf[k] = s
  BY <1>0, <1>2, <1>5 DEF Known, TypeOK
<1>7. /\ Resident' = {k \in Resident : ShardOf[k] # s} \cup keys
      /\ stayed'[t] = stayed[t] \cap Resident'
      /\ came'[t] = came[t] \cup Resident'
  <2>1. content' = [content EXCEPT ![s] = keys]
    BY <1>4 DEF ChangeShard
  <2>2. Resident' = {k \in Resident : ShardOf[k] # s} \cup keys
    BY <1>0, <1>2, <1>6, <2>1, NeoCacheAssumption DEF Known, Resident, TypeOK
  <2>3. In(content') = Resident'
    BY <1>0, <1>2, <1>6, <2>1, NeoCacheAssumption DEF Known, In, Resident, TypeOK
  <2> QED BY <1>3, <1>4, <2>1, <2>2, <2>3, ZenonT(60) DEF ChangeShard
<1>8. \A k \in Key : Passed(t, k)' <=> Passed(t, k) \/ ShardOf[k] = s
  BY <1>0, <1>1 DEF Known, Passed
<1>9. SweepInv(t)'
  <2>1. Found(t)' = Found(t) /\ Found(t) \subseteq Key
    BY <1>0, <1>1 DEF Known, Found
  <2>2. \A k \in Found(t)' : Passed(t, k)'
    <3>1. \A k \in Found(t) : Passed(t, k)
      BY <1>0, <1>3 DEF Known, SweepInv
    <3> QED BY <1>8, <2>1, <3>1
  <2>3. call[t].op = "clear" => \A k \in stayed'[t] : ~Passed(t, k)'
    <3>1. Resident' \subseteq Key
      BY DEF Resident
    <3> QED BY <1>0, <1>5, <1>7, <1>8, <3>1, Zenon DEF Known, SweepInv
  <2> QED BY <1>0, <1>1, <1>3, <1>7, <2>2, <2>3 DEF Known, SweepInv
<1>10. \A u \in Thread : call[u].op # "into_iter"
  BY <1>0, <1>3, NotConsumed DEF Known
<1> QED BY <1>1, <1>2, <1>4, <1>6, <1>9, <1>10, ChangeSweeps

(* An iterator that comes to a shard has the keys of this shard to yield.  *)
LEMMA ComeToShard ==
  ASSUME SInv, NEW t \in Thread, NextShard(t) \/ ViewShard(t)
  PROVE  \A u \in Thread : SweepInv(u)'
<1> DEFINE s == call[t].shard_i
<1>0. Known(t)
  BY SweepFacts, Zenon
<1>1. /\ \A u \in Thread \ {t} : call'[u] = call[u]
      /\ UNCHANGED <<content, stayed, came>>
      /\ call'[t].op = call[t].op /\ call'[t].todo = content[s]
      /\ call'[t].seen = call[t].seen /\ call'[t].shard_i = s + 1
      /\ call'[t].hint = call[t].hint
  <2>1. CASE NextShard(t)
    BY <1>0, <2>1 DEF Known, NextShard, TypeOK, Call, table
  <2>2. CASE ViewShard(t)
    BY <1>0, <2>2 DEF Known, ViewShard, TypeOK, Call, table
  <2> QED BY <2>1, <2>2
<1>2. /\ call[t].op \in Iterators \cup {"view_iter"} /\ s \in Shard /\ call[t].todo = {}
  <2>1. CASE NextShard(t)
    <3>1. CallInv(t)
      BY <1>0 DEF Known, IInv
    <3> QED BY <1>0, <2>1, <3>1 DEF Known, NextShard, CallInv, Shard
  <2>2. CASE ViewShard(t)
    BY <1>0, <2>2 DEF Known, ViewShard, Shard
  <2> QED BY <2>1, <2>2
<1>3. call[t].op \notin {"into_iter", "clear"} /\ Sweeping(t) /\ call[t].op \in Reporters
  BY <1>2 DEF Iterators, Unlocked, Sweeping, Sweeps, Reporters
<1>4. Resident' = Resident /\ content[s] = {k \in Resident : ShardOf[k] = s}
  BY <1>0, <1>1, <1>2 DEF Known, Resident
<1>5. stayed[t] \subseteq Resident /\ Resident \subseteq came[t] /\ Resident \subseteq Key
  BY <1>0, <1>3 DEF Known, SweepInv, Resident
<1>6. \A k \in Key : Passed(t, k)' <=> Passed(t, k) \/ ShardOf[k] = s
  BY <1>0, <1>1 DEF Known, Passed
<1>7. Found(t)' = Found(t) \cup content[s]
  BY <1>1, <1>2 DEF Found
<1>8. SweepInv(t)'
  <2>1. call'[t].todo \cap call'[t].seen = {}
    <3>1. \A k \in call[t].seen : ShardOf[k] < s
      BY <1>0, <1>3 DEF Known, SweepInv, Found, Passed
    <3>2. \A k \in content[s] : ~(ShardOf[k] < s)
      BY <1>0, <1>4, <1>5 DEF Known
    <3> QED BY <1>1, <3>1, <3>2
  <2>2. \A k \in Found(t)' : Passed(t, k)'
    <3>1. \A k \in Found(t) : Passed(t, k)
      BY <1>0, <1>3 DEF Known, SweepInv
    <3>2. Found(t) \subseteq Key
      BY <1>0 DEF Known, Found
    <3> QED BY <1>4, <1>5, <1>6, <1>7, <3>1, <3>2
  <2>3. \A k \in stayed[t] : Passed(t, k)' => k \in Found(t)'
    BY <1>0, <1>3, <1>4, <1>5, <1>6, <1>7 DEF Known, SweepInv
  <2>4. Found(t)' \subseteq came[t]
    BY <1>0, <1>3, <1>4, <1>5, <1>7 DEF Known, SweepInv
  <2>5. call[t].op = "serialize" =>
          \E keys \in SUBSET Key : /\ call'[t].hint = Cardinality(keys)
                                   /\ stayed[t] \subseteq keys /\ keys \subseteq came[t]
    BY <1>0, <1>1 DEF Known, SweepInv
  <2> QED BY <1>1, <1>3, <1>4, <1>5, <2>1, <2>2, <2>3, <2>4, <2>5 DEF SweepInv
<1> QED BY <1>1, <1>8, QuietSweeps

(* An iterator finds no more and no less when it yields an item, and none  *)
(* when one is dropped.                                                    *)
LEMMA SameFound ==
  ASSUME SInv, NEW t \in Thread,
         \A u \in Thread \ {t} : call'[u] = call[u],
         UNCHANGED <<content, stayed, came>>,
         call'[t].op = call[t].op, call'[t].shard_i = call[t].shard_i,
         call'[t].hint = call[t].hint,
         Found(t)' = Found(t), call'[t].todo \cap call'[t].seen = {}
  PROVE  \A u \in Thread : SweepInv(u)'
<1>0. Known(t)
  BY SweepFacts, Zenon
<1>1. Resident' = Resident /\ Sweeping(t)' = Sweeping(t)
  BY DEF Resident, Sweeping
<1>2. \A k : Passed(t, k)' = Passed(t, k)
  BY DEF Passed
<1>3. SweepInv(t)'
  BY <1>0, <1>1, <1>2 DEF Known, SweepInv
<1> QED BY <1>3, QuietSweeps

(* next yields an item or sets out for the next shard, alter_all takes up  *)
(* or finishes an entry, and an item is dropped.                           *)
LEMMA ItemSweeps ==
  ASSUME SInv, NEW t \in Thread,
         \/ CallNext(t)
         \/ \E k \in Key : \/ AlterItem(t, k) \/ DropItem(t, k)
                           \/ \E keep \in BOOLEAN : Yield(t, k, keep)
         \/ AlterDone(t)
  PROVE  \A u \in Thread : SweepInv(u)'
<1>0. Known(t)
  BY SweepFacts, Zenon
<1>1. UNCHANGED <<content, stayed, came>>
  BY Zenon DEF CallNext, AlterItem, DropItem, Yield, AlterDone, table
<1>2. TypeOK /\ call[t].todo \cap call[t].seen = {}
  BY <1>0 DEF Known, SweepInv
<1>3. CASE Now(t, Idle)
  BY <1>1, <1>3, GuardSweeps DEF Idle
<1>4. ASSUME \A u \in Thread \ {t} : call'[u] = call[u],
             call'[t].op = call[t].op, call'[t].shard_i = call[t].shard_i,
             call'[t].hint = call[t].hint,
             call'[t].todo = call[t].todo, call'[t].seen = call[t].seen
      PROVE  \A u \in Thread : SweepInv(u)'
  BY <1>1, <1>2, <1>4, SameFound, Zenon DEF Found
<1>5. CASE CallNext(t)
  <2>1. call' = [call EXCEPT ![t].at = "next"]
    BY <1>5 DEF CallNext
  <2> QED BY <1>2, <1>4, <2>1 DEF TypeOK, Call
<1>6. ASSUME NEW keys, call' = [call EXCEPT ![t].kept = keys]
      PROVE  \A u \in Thread : SweepInv(u)'
  BY <1>2, <1>4, <1>6 DEF TypeOK, Call
<1>7. ASSUME NEW k \in Key, DropItem(t, k)
      PROVE  \A u \in Thread : SweepInv(u)'
  BY <1>3, <1>6, <1>7 DEF DropItem
<1>8. CASE AlterDone(t)
  BY <1>3, <1>6, <1>8 DEF AlterDone
<1>9. ASSUME NEW k \in call[t].todo, NEW keys,
             call' = [call EXCEPT ![t].todo = @ \ {k}, ![t].seen = @ \cup {k}, ![t].kept = keys]
      PROVE  \A u \in Thread : SweepInv(u)'
  <2>1. /\ \A u \in Thread \ {t} : call'[u] = call[u]
        /\ call'[t].op = call[t].op /\ call'[t].shard_i = call[t].shard_i
        /\ call'[t].hint = call[t].hint
        /\ call'[t].todo = call[t].todo \ {k} /\ call'[t].seen = call[t].seen \cup {k}
    BY <1>2, <1>9 DEF TypeOK, Call
  <2>2. Found(t)' = Found(t) /\ call'[t].todo \cap call'[t].seen = {}
    BY <1>2, <2>1 DEF Found
  <2> QED BY <1>1, <2>1, <2>2, SameFound
<1>10. ASSUME NEW k \in Key, AlterItem(t, k) PROVE \A u \in Thread : SweepInv(u)'
  BY <1>9, <1>10, Zenon DEF AlterItem
<1>11. ASSUME NEW k \in Key, NEW keep \in BOOLEAN, Yield(t, k, keep)
       PROVE  \A u \in Thread : SweepInv(u)'
  BY <1>9, <1>11, Zenon DEF Yield
<1> QED BY <1>5, <1>7, <1>8, <1>10, <1>11

(* A sweep that ends leaves a guard, or none.                              *)
LEMMA EndSweeps ==
  ASSUME SInv, NEW t \in Thread, EndSweep(t)
  PROVE  \A u \in Thread : SweepInv(u)'
<1>0. Known(t)
  BY SweepFacts, Zenon
<1>1. /\ TypeOK /\ UNCHANGED content
      /\ \A u \in Thread \ {t} : stayed'[u] = stayed[u] /\ came'[u] = came[u]
  BY <1>0, Zenon DEF Known, EndSweep, TypeOK
<1>2. \E op \in {"idle", "refs", "refs_mut"} : \E keys : Now(t, Holding(op, keys))
  BY DEF EndSweep, Idle
<1>3. SweepInv(t)' /\ \A u \in Thread \ {t} : call'[u] = call[u]
  BY <1>1, <1>2, GuardInv DEF ReadGuards, WriteGuards
<1> QED BY <1>1, <1>3, QuietSweeps

-----------------------------------------------------------------------------
(* The OwningIter.                                                         *)

(* When it is made, all entries are still to come.                         *)
LEMMA IntoIterSweeps ==
  ASSUME SInv, NEW t \in Thread, IntoIter(t)
  PROVE  \A u \in Thread : SweepInv(u)'
<1>0. Known(t)
  BY SweepFacts, Zenon
<1>1. /\ call'[t] = Holding("into_iter", {})
      /\ \A u \in Thread \ {t} : call'[u] = call[u]
      /\ \A u \in Thread \ {t} : stayed'[u] = stayed[u] /\ came'[u] = came[u]
      /\ UNCHANGED content
      /\ came'[t] = Resident
  BY <1>0, CallNow DEF Known, IntoIter, Now, Sweep, TypeOK
<1>2. call'[t].op = "into_iter" /\ call'[t].todo = {} /\ call'[t].seen = {} /\ call'[t].shard_i = 0
  BY <1>1, FreshCall
<1>3. Resident' = Resident /\ Resident \subseteq Key
  BY <1>1 DEF Resident
<1>4. \A k \in Key : ~Passed(t, k)'
  BY <1>0, <1>2 DEF Known, Passed
<1>5. SweepInv(t)'
  BY <1>1, <1>2, <1>3, <1>4 DEF SweepInv, Found, Reporters, Readers, Iterators
<1> QED BY <1>1, <1>5, QuietSweeps

(* It takes the table of the shard it has come to, and leaves none.        *)
LEMMA TakeSweeps ==
  ASSUME SInv, NEW t \in Thread, TakeShard(t)
  PROVE  \A u \in Thread : SweepInv(u)'
<1> DEFINE s == call[t].shard_i
<1>0. Known(t)
  BY SweepFacts, Zenon
<1>1. /\ \A u \in Thread \ {t} : call'[u] = call[u]
      /\ call'[t].op = call[t].op /\ call'[t].todo = content[s]
      /\ call'[t].seen = call[t].seen /\ call'[t].shard_i = s + 1
  BY <1>0 DEF Known, TakeShard, TypeOK, Call
<1>2. call[t].op = "into_iter" /\ s \in Shard /\ call[t].todo = {} /\ ChangeShard(s, {})
  BY <1>0 DEF Known, TakeShard, Shard
<1>3. Sweeping(t) /\ call[t].op \notin Reporters
  BY <1>2 DEF Sweeping, Sweeps, Unlocked, Reporters, Readers, Iterators
<1>4. content[s] = {k \in Resident : ShardOf[k] = s} /\ Resident \subseteq Key
  BY <1>0, <1>2 DEF Known, Resident
<1>5. /\ Resident = {k \in came[t] : ~Passed(t, k)}
      /\ Found(t) = {k \in came[t] : Passed(t, k)}
      /\ came[t] \subseteq Key
  BY <1>0, <1>2, Zenon DEF Known, SweepInv, TypeOK
<1>6. Resident' = {k \in Resident : ShardOf[k] # s} /\ came'[t] = came[t]
  <2>1. content' = [content EXCEPT ![s] = {}]
    BY <1>2 DEF ChangeShard
  <2>2. Resident' = {k \in Resident : ShardOf[k] # s}
    BY <1>0, <1>2, <2>1, NeoCacheAssumption DEF Known, Resident, TypeOK
  <2>3. In(content') = Resident'
    BY <1>0, <1>2, <2>1, NeoCacheAssumption DEF Known, In, Resident, TypeOK
  <2>4. came'[t] = came[t] \cup Resident'
    BY <1>2, <1>3, <2>1, <2>3, Zenon DEF ChangeShard
  <2> QED BY <1>5, <2>2, <2>4
<1>7. \A k \in Key : Passed(t, k)' <=> Passed(t, k) \/ ShardOf[k] = s
  BY <1>0, <1>1 DEF Known, Passed
<1>8. \A k \in Key : ShardOf[k] = s => ~Passed(t, k)
  BY <1>0 DEF Known, Passed
<1>9. SweepInv(t)'
  <2>1. Found(t)' = Found(t) \cup content[s]
    BY <1>1, <1>2 DEF Found
  <2>2. Found(t)' = {k \in came[t] : Passed(t, k)'}
    BY <1>4, <1>5, <1>7, <1>8, <2>1
  <2>3. Resident' = {k \in came[t] : ~Passed(t, k)'}
    BY <1>5, <1>6, <1>7
  <2>4. call'[t].todo \cap call'[t].seen = {}
    <3>1. \A k \in call[t].seen : Passed(t, k)
      BY <1>5 DEF Found
    <3> QED BY <1>1, <1>4, <1>8, <3>1
  <2> QED BY <1>1, <1>2, <1>3, <1>6, <2>2, <2>3, <2>4, Zenon DEF SweepInv
<1>10. \A u \in Thread \ {t} : call[u].op # "into_iter"
  BY <1>0, <1>2 DEF Known, Inv, OneOwner
<1> QED BY <1>1, <1>2, <1>9, <1>10, ChangeSweeps

(* When it is dropped, nobody else has the cache.                          *)
LEMMA DropSweeps ==
  ASSUME SInv, NEW t \in Thread, DropOwningIter(t)
  PROVE  \A u \in Thread : SweepInv(u)'
<1>0. Known(t)
  BY SweepFacts, Zenon
<1>1. TypeOK /\ Now(t, Holding("idle", {})) /\ call[t].op = "into_iter"
  BY <1>0 DEF Known, DropOwningIter, Idle
<1>2. SweepInv(t)' /\ \A u \in Thread \ {t} : call'[u] = call[u]
  BY <1>1, GuardInv
<1>3. ASSUME NEW u \in Thread \ {t} PROVE SweepInv(u)'
  <2>1. call[u].op = "idle"
    BY <1>0, <1>1 DEF Known, Inv, IInv, OneOwner, CacheInv
  <2>2. call'[u].op = "idle" /\ call'[u].todo \cap call'[u].seen = {}
    BY <1>0, <1>2, <2>1, Zenon DEF Known, SInv, SweepInv
  <2> QED BY <2>2 DEF SweepInv, Sweeping, Reporters, Sweeps, Readers, Writers, Iterators, Unlocked
<1> QED BY <1>2, <1>3

-----------------------------------------------------------------------------
(* The steps put together, and what follows from the invariant.            *)

(* A new cache has no sweeps.                                              *)
LEMMA InitSweeps == Init /\ Inv => SInv
<1> SUFFICES ASSUME Init, Inv, NEW t \in Thread PROVE SweepInv(t)
  BY DEF SInv
<1>1. call[t] = Idle
  BY DEF Init
<1> QED BY <1>1, FreshCall, NoSweepInv DEF Sweeps, Readers, Writers, Iterators, Unlocked

(* Every step keeps what sweeps have promised.                             *)
LEMMA StepSweeps == SInv /\ Inv' /\ [Next]_vars => SInv'
<1> SUFFICES ASSUME SInv, Inv', [Next]_vars PROVE SInv'
  OBVIOUS
<1>1. Inv'
  OBVIOUS
<1>2. ASSUME UNCHANGED <<content, stayed, came, call>>
      PROVE  \A u \in Thread : SweepInv(u)'
  BY <1>2, SameSweep DEF SInv
<1>3. CASE UNCHANGED vars
  BY <1>1, <1>2, <1>3 DEF vars, table, SInv
<1>4. ASSUME NEW t \in Thread, Enter(t) PROVE \A u \in Thread : SweepInv(u)'
  BY <1>4, InsertSweeps, HoldSweeps, BeginSweeps, IntoIterSweeps, Zenon DEF Enter
<1>5. ASSUME NEW t \in Thread, Proceed(t) PROVE \A u \in Thread : SweepInv(u)'
  <2>1. ReadShard(t) \/ SerializeMap(t) \/ WriteShard(t) => \A u \in Thread : SweepInv(u)'
    BY ReadSweeps, SerializeSweeps, WriteSweeps, Zenon
  <2>2. CallNext(t) \/ NextShard(t) \/ ViewShard(t) \/ TakeShard(t) =>
          \A u \in Thread : SweepInv(u)'
    BY ItemSweeps, ComeToShard, TakeSweeps, Zenon
  <2>3. ASSUME NEW k \in Key, AlterItem(t, k) \/ \E keep \in BOOLEAN : Yield(t, k, keep)
        PROVE  \A u \in Thread : SweepInv(u)'
    BY <2>3, ItemSweeps, Zenon
  <2>4. AlterDone(t) \/ EndSweep(t) \/ DropOwningIter(t) \/ Release(t) =>
          \A u \in Thread : SweepInv(u)'
    BY ItemSweeps, HoldSweeps, EndSweeps, DropSweeps, Zenon
  <2> QED BY <1>5, <2>1, <2>2, <2>3, <2>4, Zenon DEF Proceed
<1>6. ASSUME NEW t \in Thread, UseGuard(t) PROVE \A u \in Thread : SweepInv(u)'
  BY <1>6, EntrySweeps, HoldSweeps, ItemSweeps, Zenon DEF UseGuard
<1>7. ASSUME NEW t \in Thread, Panic(t) PROVE \A u \in Thread : SweepInv(u)'
  <2>1. AlterPanics(t) => \A u \in Thread : SweepInv(u)'
    BY <1>2 DEF AlterPanics, table
  <2> QED BY <1>7, <2>1, EntrySweeps, WriteSweeps, Zenon DEF Panic
<1>8. IntoReadOnly \/ IntoInner \/ Aborted => \A u \in Thread : SweepInv(u)'
  BY <1>2 DEF IntoReadOnly, IntoInner, Aborted, vars, table
<1>9. Next => \A u \in Thread : SweepInv(u)'
  BY <1>4, <1>5, <1>6, <1>7, <1>8, Zenon DEF Next
<1> QED BY <1>1, <1>3, <1>9 DEF SInv

(* A sweep at its end has found what it promises.                          *)
LEMMA SweepsEnd == SInv => SweepExact
<1> SUFFICES ASSUME SInv, NEW t \in Thread
             PROVE  /\ Done(t) /\ call[t].op \in Readers \cup Iterators \cup {"view_iter"} =>
                         stayed[t] \subseteq call[t].seen /\ call[t].seen \subseteq came[t]
                    /\ call[t].todo \cap call[t].seen = {}
                    /\ Done(t) /\ call[t].op = "into_iter" => call[t].seen = came[t]
                    /\ Done(t) /\ call[t].op = "clear" => stayed[t] = {}
  BY DEF SweepExact
<1>0. Known(t)
  BY SweepFacts, Zenon
<1>1. SweepInv(t) /\ call[t].todo \cap call[t].seen = {}
  BY <1>0 DEF Known, SweepInv
<1>2. stayed[t] \subseteq Key /\ came[t] \subseteq Key
  BY <1>0 DEF Known, TypeOK
<1>3. Done(t) => Found(t) = call[t].seen /\ \A k \in Key : Passed(t, k)
  BY <1>0 DEF Known, Done, Found, Passed
<1>4. Done(t) /\ call[t].op \in Reporters =>
        stayed[t] \subseteq call[t].seen /\ call[t].seen \subseteq came[t]
  BY <1>1, <1>2, <1>3 DEF SweepInv
<1>5. Done(t) /\ call[t].op = "into_iter" => call[t].seen = came[t]
  BY <1>1, <1>2, <1>3 DEF SweepInv
<1>6. Done(t) /\ call[t].op = "clear" => stayed[t] = {}
  BY <1>1, <1>2, <1>3 DEF SweepInv
<1> QED BY <1>1, <1>4, <1>5, <1>6 DEF Reporters

(* The keys that serialize counted stayed or came.                         *)
LEMMA HintFacts ==
  ASSUME SInv, SweepExact, NEW t \in Thread, Done(t), call[t].op = "serialize"
  PROVE  /\ stayed[t] \subseteq Key /\ came[t] \subseteq Key /\ call[t].seen \subseteq Key
         /\ stayed[t] \subseteq call[t].seen /\ call[t].seen \subseteq came[t]
         /\ \E keys \in SUBSET Key : /\ call[t].hint = Cardinality(keys)
                                      /\ stayed[t] \subseteq keys /\ keys \subseteq came[t]
<1>0. Known(t)
  BY SweepFacts, Zenon
<1>1. stayed[t] \subseteq Key /\ came[t] \subseteq Key /\ call[t].seen \subseteq Key
  BY <1>0 DEF Known, TypeOK
<1>2. stayed[t] \subseteq call[t].seen /\ call[t].seen \subseteq came[t]
  BY DEF SweepExact, Iterators
<1>3. SweepInv(t)
  BY <1>0 DEF Known
<1> QED BY <1>1, <1>2, <1>3 DEF SweepInv
=============================================================================
