------------------------- MODULE NeoCacheStepProofs -------------------------
(***************************************************************************)
(* Every step of module NeoCache keeps IInv, for any number of threads,    *)
(* shards and keys: no guard, iterator or reference loses the lock that    *)
(* stands behind its pointers.                                             *)
(***************************************************************************)
EXTENDS NeoCacheInvariants, TLAPS

(* The fields of a call have the types that TypeOK gives them.             *)
LEMMA CallType ==
  ASSUME TypeOK, NEW t \in Thread
  PROVE  /\ call[t] \in Call
         /\ call[t].op \in {"idle", "alter"} \cup Sweeps \cup ReadGuards \cup WriteGuards
         /\ call[t].at \in {"caller", "next"}
         /\ call[t].shard_i \in 0..ShardCount
         /\ call[t].todo \subseteq Key
         /\ call[t].seen \subseteq Key
         /\ call[t].kept \subseteq Key
         /\ call[t].hint \in Sizes \cup {0}
         /\ held[t] \in [Shard -> {"none", "read", "write"}]
BY DEF TypeOK, Call

(* A key that some shard holds is in the shard of its hash.                *)
LEMMA InContent ==
  ASSUME TypeOK
  PROVE  In(content) = Resident
BY NeoCacheAssumption DEF TypeOK, In, Resident

(* The calls that operations begin with are calls.                         *)
LEMMA NewCall ==
  ASSUME NEW op \in {"idle", "alter"} \cup Sweeps \cup ReadGuards \cup WriteGuards,
         NEW keys \in SUBSET Key
  PROVE  /\ Holding(op, keys) \in Call
         /\ Holding(op, keys).op = op
         /\ Holding(op, keys).at = "caller"
         /\ Holding(op, keys).todo = {}
         /\ Holding(op, keys).kept = keys
BY NeoCacheAssumption DEF Holding, Call

(* A thread that neither acts nor has anything in the shard that changes   *)
(* keeps what it has.                                                      *)
LEMMA OthersKeep ==
  ASSUME IInv, NEW u \in Thread,
         call'[u] = call[u], held'[u] = held[u], cache' = cache,
         CanReach(u) \subseteq Resident',
         call[u].op = "vacant" => call[u].kept \cap Resident' = {}
  PROVE  ThreadInv(u)'
BY DEF IInv, ThreadInv, PointerInv, CallInv, CacheInv, CanReach

(* When nobody else has a guard for shard s, the pointers of the other     *)
(* threads lead elsewhere.                                                 *)
LEMMA NoReach ==
  ASSUME IInv, NEW t \in Thread, NEW s \in Shard, cache # "view",
         \A u \in Thread \ {t} : held[u][s] = "none"
  PROVE  \A u \in Thread \ {t} :
           /\ \A k \in CanReach(u) : ShardOf[k] # s
           /\ call[u].op = "vacant" => \A k \in call[u].kept : ShardOf[k] # s
<1> SUFFICES ASSUME NEW u \in Thread \ {t}
             PROVE  /\ \A k \in CanReach(u) : ShardOf[k] # s
                    /\ call[u].op = "vacant" => \A k \in call[u].kept : ShardOf[k] # s
  OBVIOUS
<1>1. call[u].op \in Exclusive => \A k \in call[u].todo \cup call[u].kept : ShardOf[k] # s
  BY DEF IInv, PointerInv
<1>2. call[u].op \in Shared => \A k \in call[u].todo \cup call[u].kept : ShardOf[k] # s
  BY DEF IInv, PointerInv
<1>3. call[u].op \in Passive => call[u].todo \cup call[u].kept = {}
  BY DEF IInv, CallInv, Passive, Iterators, Unlocked, Readers, Writers
<1>4. call[u].op # "view_iter"
  BY DEF IInv, CacheInv
<1>5. \A k \in CanReach(u) : ShardOf[k] # s
  BY <1>1, <1>2, <1>3, <1>4, CallType
     DEF CanReach, Exclusive, Shared, Passive, Sweeps, Iterators, Unlocked, IInv
<1> QED BY <1>1, <1>5 DEF Exclusive, WriteGuards

(* So a table that is moved under the write lock leaves no pointer dangling. *)
LEMMA MoveSafe ==
  ASSUME IInv, NEW t \in Thread, NEW s \in Shard, cache # "view",
         \A u \in Thread \ {t} : held[u][s] = "none",
         MoveTable(t, s)
  PROVE  dangling' = {}
BY NoReach DEF MoveTable, IInv, TypeOK

(* And a change of the shard takes nothing away from the other threads.    *)
LEMMA ShardOwned ==
  ASSUME IInv, NEW t \in Thread, NEW s \in Shard, NEW keys \in SUBSET Key,
         cache # "view",
         \A u \in Thread \ {t} : held[u][s] = "none",
         \A k \in keys : ShardOf[k] = s,
         ChangeShard(s, keys)
  PROVE  /\ content' \in [Shard -> SUBSET Key]
         /\ \A x \in Shard : \A k \in content'[x] : ShardOf[k] = x
         /\ stayed' \in [Thread -> SUBSET Key]
         /\ came' \in [Thread -> SUBSET Key]
         /\ Resident' = {k \in Resident : ShardOf[k] # s} \cup keys
         /\ \A u \in Thread \ {t} :
              /\ CanReach(u) \subseteq Resident'
              /\ call[u].op = "vacant" => call[u].kept \cap Resident' = {}
<1>1. /\ content' = [content EXCEPT ![s] = keys]
      /\ content' \in [Shard -> SUBSET Key]
      /\ \A x \in Shard : \A k \in content'[x] : ShardOf[k] = x
  BY DEF ChangeShard, IInv, TypeOK
<1>2. Resident' = {k \in Resident : ShardOf[k] # s} \cup keys
  BY <1>1, NeoCacheAssumption DEF Resident, IInv, TypeOK
<1>3. stayed' \in [Thread -> SUBSET Key] /\ came' \in [Thread -> SUBSET Key]
  <2>1. In(content') \subseteq Key
    BY <1>1 DEF In
  <2>2. /\ stayed' = [x \in Thread |-> stayed[x] \cap In(content')]
        /\ came' = [x \in Thread |-> IF Sweeping(x) THEN came[x] \cup In(content') ELSE came[x]]
    BY <1>1 DEF ChangeShard
  <2> QED BY <2>1, <2>2 DEF IInv, TypeOK
<1>4. ASSUME NEW u \in Thread \ {t}
      PROVE  /\ CanReach(u) \subseteq Resident'
             /\ call[u].op = "vacant" => call[u].kept \cap Resident' = {}
  <2>1. CanReach(u) \subseteq Resident
    BY DEF IInv, PointerInv
  <2>2. call[u].op = "vacant" => call[u].kept \cap Resident = {}
    BY DEF IInv, PointerInv
  <2> QED BY <1>2, <2>1, <2>2, NoReach
<1> QED BY <1>1, <1>2, <1>3, <1>4

(* A thread that changes its guards as the locks allow shares no shard     *)
(* with a writer.                                                          *)
LEMMA LocksKept ==
  ASSUME IInv, NEW t \in Thread, NEW row \in [Shard -> {"none", "read", "write"}],
         held' = [held EXCEPT ![t] = row],
         \A s \in Shard : Allowed(t, s, row[s])
  PROVE  LockInv' /\ held' \in [Thread -> [Shard -> {"none", "read", "write"}]]
BY DEF IInv, TypeOK, LockInv, Allowed, CanRead, CanWrite

(* What alter has moved out stays with the thread that did it.             *)
LEMMA HollowKept ==
  ASSUME IInv, NEW t \in Thread, NEW c,
         call' = [call EXCEPT ![t] = c],
         hollow' = hollow,
         ~Altering(t)
  PROVE  HollowInv' /\ hollow' \subseteq Key
BY DEF IInv, TypeOK, HollowInv, Altering

(* A step of thread t that changes no shard and not the cache as a whole.  *)
LEMMA QuietStep ==
  ASSUME IInv, NEW t \in Thread, NEW c \in Call,
         NEW row \in [Shard -> {"none", "read", "write"}],
         held' = [held EXCEPT ![t] = row],
         call' = [call EXCEPT ![t] = c],
         \A s \in Shard : Allowed(t, s, row[s]),
         UNCHANGED <<content, cache>>,
         stayed' \in [Thread -> SUBSET Key], came' \in [Thread -> SUBSET Key],
         HollowInv', hollow' \subseteq Key, dangling' = {},
         ThreadInv(t)'
  PROVE  IInv'
<1>1. call' \in [Thread -> Call]
  BY DEF IInv, TypeOK
<1>2. TypeOK'
  BY <1>1, LocksKept DEF IInv, TypeOK
<1>3. Resident' = Resident
  BY DEF Resident
<1>4. ASSUME NEW u \in Thread \ {t} PROVE ThreadInv(u)'
  <2>1. call'[u] = call[u] /\ held'[u] = held[u]
    BY DEF IInv, TypeOK
  <2>2. PointerInv(u)
    BY DEF IInv
  <2> QED BY <1>3, <2>1, <2>2, OthersKeep DEF PointerInv
<1> QED BY <1>2, <1>4, LocksKept, Zenon DEF IInv, ThreadInv

(* A step of thread t that changes shard s.                                *)
LEMMA ChangeStep ==
  ASSUME IInv, NEW t \in Thread, NEW c \in Call, NEW s \in Shard, NEW keys \in SUBSET Key,
         NEW row \in [Shard -> {"none", "read", "write"}],
         held' = [held EXCEPT ![t] = row],
         call' = [call EXCEPT ![t] = c],
         \A x \in Shard : row[x] \in {"none", held[t][x]},
         cache # "view", cache' = cache,
         \A u \in Thread \ {t} : held[u][s] = "none",
         \A k \in keys : ShardOf[k] = s,
         ChangeShard(s, keys),
         ~Altering(t), hollow' = hollow, dangling' = {},
         ThreadInv(t)'
  PROVE  IInv'
<1>1. call' \in [Thread -> Call]
  BY DEF IInv, TypeOK
<1>2. LockInv' /\ held' \in [Thread -> [Shard -> {"none", "read", "write"}]]
  BY LocksKept, Zenon DEF Allowed
<1>3. HollowInv' /\ hollow' \subseteq Key
  BY HollowKept, Zenon
<1>4. TypeOK'
  BY <1>1, <1>2, <1>3, ShardOwned, SMTT(60) DEF IInv, TypeOK
<1>5. ASSUME NEW u \in Thread \ {t} PROVE ThreadInv(u)'
  <2>1. call'[u] = call[u] /\ held'[u] = held[u]
    BY DEF IInv, TypeOK
  <2> QED BY <2>1, ShardOwned, OthersKeep
<1> QED BY <1>2, <1>3, <1>4, <1>5 DEF IInv, ThreadInv

-----------------------------------------------------------------------------
(* Operations on one key.                                                  *)

(* The guard that an operation ends with is backed by the lock it has.     *)
LEMMA HoldingInv ==
  ASSUME IInv, NEW t \in Thread, NEW keys \in SUBSET Key,
         NEW op \in {"idle", "alter"} \cup ReadGuards \cup WriteGuards,
         call' = [call EXCEPT ![t] = Holding(op, keys)],
         op = "idle" => keys = {},
         op \in Exclusive => \A k \in keys : held'[t][ShardOf[k]] = "write",
         op \in Shared => \A k \in keys :
           held'[t][ShardOf[k]] = "read" \/ (op = "refs" /\ cache' = "view"),
         op = "vacant" => keys \cap Resident' = {} /\ \A j, k \in keys : j = k,
         op # "vacant" => keys \subseteq Resident',
         cache' = "view" => op \in InView,
         cache' = "consumed" => op = "idle"
  PROVE  ThreadInv(t)'
<1>1. /\ call'[t].op = op /\ call'[t].at = "caller"
      /\ call'[t].todo = {} /\ call'[t].kept = keys
  <2>1. call'[t] = Holding(op, keys)
    BY DEF IInv, TypeOK
  <2> QED BY <2>1, NewCall
<1>2. op \notin {"view_iter", "into_iter"} \cup Iterators \cup Unlocked \cup Readers \cup Writers
  BY DEF ReadGuards, WriteGuards, Iterators, Unlocked, Readers, Writers
<1>3. PointerInv(t)'
  BY <1>1, <1>2 DEF PointerInv, CanReach, Exclusive, Shared, WriteGuards, ReadGuards
<1>4. CallInv(t)'
  BY <1>1, <1>2 DEF CallInv, Passive
<1>5. CacheInv(t)'
  BY <1>1, <1>2 DEF CacheInv
<1> QED BY <1>3, <1>4, <1>5 DEF ThreadInv

(* A thread that enters the cache has no pointers, and alters nothing.     *)
LEMMA EntersFacts ==
  ASSUME IInv, NEW t \in Thread, call[t] = Idle
  PROVE  /\ call[t].op = "idle" /\ call[t].kept = {} /\ call[t].todo = {}
         /\ ~Altering(t)
BY NewCall DEF Idle, Altering, Holding

(* A key that is locked and found gives a guard for it: get, get_mut,      *)
(* entry and alter.                                                        *)
LEMMA GetStep ==
  ASSUME IInv, NEW t \in Thread, NEW k \in Key, Running,
         Get(t, k) \/ GetMut(t, k) \/ GetEntry(t, k) \/ Alter(t, k)
  PROVE  IInv'
<1> DEFINE s == ShardOf[k]
<1>1. s \in Shard
  BY NeoCacheAssumption
<1>2. /\ call[t].op = "idle" /\ ~Altering(t) /\ cache = "shared"
      /\ UNCHANGED <<content, stayed, came, cache>>
  BY EntersFacts DEF Get, GetMut, GetEntry, Alter, Enters, table
<1>3. Resident' = Resident
  BY <1>2 DEF Resident
<1>4. stayed' \in [Thread -> SUBSET Key] /\ came' \in [Thread -> SUBSET Key]
  BY <1>2 DEF IInv, TypeOK
<1>5. ASSUME NEW op \in {"ref", "ref_mut", "occupied", "vacant", "alter"},
             NEW mode \in {"read", "write"},
             Lock(t, s, mode), Now(t, Holding(op, {k})),
             IF mode = "read" THEN CanRead(s) ELSE CanWrite(s),
             op = "ref" <=> mode = "read",
             op = "vacant" <=> k \notin content[s],
             HollowInv', hollow' \subseteq Key, dangling' = {}
      PROVE  IInv'
  <2> DEFINE row == [held[t] EXCEPT ![s] = mode]
  <2>1. /\ row \in [Shard -> {"none", "read", "write"}]
        /\ held' = [held EXCEPT ![t] = row]
        /\ row[s] = mode /\ held'[t] = row
        /\ \A x \in Shard : x # s => row[x] = held[t][x]
    BY <1>1, <1>5 DEF Lock, IInv, TypeOK
  <2>2. \A x \in Shard : Allowed(t, x, row[x])
    BY <1>5, <2>1 DEF Allowed
  <2>3. Holding(op, {k}) \in Call /\ call' = [call EXCEPT ![t] = Holding(op, {k})]
    BY <1>5, NewCall DEF Now, ReadGuards, WriteGuards
  <2> HIDE DEF row
  <2>4. /\ op = "vacant" => {k} \cap Resident' = {}
        /\ op # "vacant" => {k} \subseteq Resident'
    BY <1>3, <1>5 DEF Resident
  <2>5. /\ op \in Exclusive => \A x \in {k} : held'[t][ShardOf[x]] = "write"
        /\ op \in Shared => \A x \in {k} : held'[t][ShardOf[x]] = "read"
    BY <1>5, <2>1 DEF Exclusive, Shared, ReadGuards, WriteGuards
  <2>6. op \in {"idle", "alter"} \cup ReadGuards \cup WriteGuards /\ op # "idle"
    BY DEF ReadGuards, WriteGuards
  <2>7. cache' = "shared" /\ {k} \in SUBSET Key /\ \A i, j \in {k} : i = j
    BY <1>2
  <2>8. ThreadInv(t)'
    <3> DEFINE ks == {k}
    <3> HIDE DEF ks
    <3> QED BY <2>3, <2>4, <2>5, <2>6, <2>7, HoldingInv, Zenon DEF ks
  <2> QED BY <1>2, <1>4, <1>5, <2>1, <2>2, <2>3, <2>8, QuietStep, Zenon
<1>6. CASE Get(t, k)
  <2>1. HollowInv' /\ hollow' \subseteq Key /\ dangling' = {}
    BY <1>2, <1>6, HollowKept, Zenon DEF Get, Now, table, IInv
  <2> QED BY <1>5, <1>6, <2>1 DEF Get
<1>7. CASE GetMut(t, k)
  <2>1. HollowInv' /\ hollow' \subseteq Key /\ dangling' = {}
    BY <1>2, <1>7, HollowKept, Zenon DEF GetMut, Now, table, IInv
  <2> QED BY <1>5, <1>7, <2>1 DEF GetMut
<1>8. CASE GetEntry(t, k)
  <2>1. HollowInv' /\ hollow' \subseteq Key
    BY <1>2, <1>8, HollowKept, Zenon DEF GetEntry, Now
  <2>2. dangling' = {}
    <3>1. (\A u \in Thread \ {t} : held[u][s] = "none") /\ MoveTable(t, s) /\ cache # "view"
      BY <1>2, <1>8 DEF GetEntry, CanWrite
    <3> HIDE DEF s
    <3> QED BY <1>1, <3>1, MoveSafe, Zenon
  <2> QED BY <1>5, <1>8, <2>1, <2>2 DEF GetEntry
<1>9. CASE Alter(t, k)
  <2>1. call' = [call EXCEPT ![t] = Holding("alter", {k})] /\ hollow' = hollow \cup {k}
    BY <1>9 DEF Alter, Now
  <2>2. call'[t].op = "alter" /\ call'[t].kept = {k}
    <3>1. call'[t] = Holding("alter", {k})
      BY <2>1 DEF IInv, TypeOK
    <3> QED BY <3>1 DEF Holding
  <2>3. HollowInv'
    <3> SUFFICES ASSUME NEW x \in hollow'
                 PROVE  \E u \in Thread : Altering(u)' /\ x \in call'[u].kept
      BY DEF HollowInv
    <3>1. CASE x = k
      BY <2>2, <3>1 DEF Altering
    <3>2. CASE x \in hollow
      <4>1. PICK u \in Thread : Altering(u) /\ x \in call[u].kept
        BY <3>2 DEF HollowInv, IInv
      <4>2. u # t /\ call'[u] = call[u]
        BY <1>2, <2>1, <4>1 DEF IInv, TypeOK
      <4> QED BY <4>1, <4>2 DEF Altering
    <3> QED BY <2>1, <3>1, <3>2, Zenon
  <2>4. hollow' \subseteq Key /\ dangling' = {}
    BY <1>9, <2>1 DEF Alter, table, IInv, TypeOK
  <2> QED BY <1>5, <1>9, <2>3, <2>4 DEF Alter
<1> QED BY <1>6, <1>7, <1>8, <1>9

(* A guard becomes another guard for the same key, or is dropped.          *)
LEMMA GuardStep ==
  ASSUME IInv, NEW t \in Thread, Running,
         IntoRef(t) \/ Downgrade(t) \/ MapRef(t) \/ MapRefMut(t) \/ Release(t)
  PROVE  IInv'
<1> DEFINE keys == call[t].kept
<1>1. /\ call[t].op \in ReadGuards \cup WriteGuards
      /\ UNCHANGED <<content, stayed, came, dangling, cache, hollow>>
  BY DEF IntoRef, Downgrade, MapRef, MapRefMut, Release, table, ReadGuards, WriteGuards
<1>2. ~Altering(t) /\ keys \subseteq Key /\ cache \in {"shared", "view", "consumed", "aborted"}
  BY <1>1, CallType DEF Altering, ReadGuards, WriteGuards, IInv, TypeOK
<1>3. Resident' = Resident
  BY <1>1 DEF Resident
<1>4. call[t].op # "vacant" => keys \subseteq Resident
  BY <1>1 DEF IInv, PointerInv, CanReach, ReadGuards, WriteGuards
<1>5. call[t].op # "refs" => cache # "view" /\ cache # "consumed"
  BY <1>1 DEF IInv, CacheInv, InView, ReadGuards, WriteGuards
<1>6. held[t] \in [Shard -> {"none", "read", "write"}]
  BY CallType DEF IInv
<1>7. /\ call[t].op \in {"ref_mut", "occupied"} => \A k \in keys : held[t][ShardOf[k]] = "write"
      /\ call[t].op = "ref" => \A k \in keys : held[t][ShardOf[k]] = "read"
  BY DEF IInv, PointerInv, Exclusive, Shared, ReadGuards, WriteGuards
<1>8. ASSUME NEW op \in {"idle", "ref", "ref_mut", "mapped_ref", "mapped_ref_mut"},
             NEW ks \in SUBSET Key,
             NEW row \in [Shard -> {"none", "read", "write"}],
             Now(t, Holding(op, ks)), held' = [held EXCEPT ![t] = row],
             \A s \in Shard : Allowed(t, s, row[s]),
             op = "idle" => ks = {},
             op # "idle" => ks \subseteq Resident /\ cache # "view" /\ cache # "consumed",
             op \in {"ref_mut", "mapped_ref_mut"} => \A k \in ks : row[ShardOf[k]] = "write",
             op \in {"ref", "mapped_ref"} => \A k \in ks : row[ShardOf[k]] = "read"
      PROVE  IInv'
  <2>1. Holding(op, ks) \in Call /\ call' = [call EXCEPT ![t] = Holding(op, ks)]
    BY <1>8, NewCall DEF Now, ReadGuards, WriteGuards
  <2>2. HollowInv' /\ hollow' \subseteq Key
    BY <1>1, <1>2, <2>1, HollowKept, Zenon
  <2>3. held'[t] = row
    BY <1>8 DEF IInv, TypeOK
  <2>4. /\ op \in Exclusive => \A k \in ks : held'[t][ShardOf[k]] = "write"
        /\ op \in Shared => \A k \in ks : held'[t][ShardOf[k]] = "read"
    BY <1>8, <2>3 DEF Exclusive, Shared, ReadGuards, WriteGuards
  <2>5. op \in {"idle", "alter"} \cup ReadGuards \cup WriteGuards /\ op # "vacant"
        /\ "idle" \in InView
    BY DEF ReadGuards, WriteGuards, InView
  <2>6. ks \subseteq Resident'
    BY <1>3, <1>8
  <2>7. ThreadInv(t)'
    BY <1>1, <1>8, <2>1, <2>4, <2>5, <2>6, HoldingInv, Zenon
  <2>8. stayed' \in [Thread -> SUBSET Key] /\ came' \in [Thread -> SUBSET Key] /\ dangling' = {}
    BY <1>1 DEF IInv, TypeOK
  <2> QED BY <1>1, <1>8, <2>1, <2>2, <2>7, <2>8, QuietStep, Zenon
<1>9. held = [held EXCEPT ![t] = held[t]] /\ \A s \in Shard : Allowed(t, s, held[t][s])
  BY DEF IInv, TypeOK, Allowed
<1>10. CASE IntoRef(t)
  BY <1>1, <1>2, <1>4, <1>5, <1>6, <1>7, <1>8, <1>9, <1>10 DEF IntoRef
<1>11. CASE MapRef(t)
  BY <1>1, <1>2, <1>4, <1>5, <1>6, <1>7, <1>8, <1>9, <1>11 DEF MapRef
<1>12. CASE MapRefMut(t)
  BY <1>1, <1>2, <1>4, <1>5, <1>6, <1>7, <1>8, <1>9, <1>12 DEF MapRefMut
<1>13. CASE Downgrade(t)
  <2> DEFINE row == [s \in Shard |-> IF s \in Shards(keys) THEN "read" ELSE "none"]
  <2>1. /\ call[t].op = "ref_mut" /\ held' = [held EXCEPT ![t] = row]
        /\ Now(t, Holding("ref", keys))
    BY <1>13 DEF Downgrade, LockOnly
  <2>2. \A s \in Shard : Allowed(t, s, row[s])
    BY <1>7, <2>1 DEF Shards, Allowed
  <2>3. \A k \in keys : row[ShardOf[k]] = "read"
    BY <1>2, NeoCacheAssumption DEF Shards
  <2>4. row \in [Shard -> {"none", "read", "write"}]
    OBVIOUS
  <2> HIDE DEF row
  <2> QED BY <1>2, <1>4, <1>5, <1>8, <2>1, <2>2, <2>3, <2>4, Zenon
<1>14. CASE Release(t)
  <2>1. /\ held' = [held EXCEPT ![t] = NoGuards]
        /\ Now(t, Holding("idle", {}))
    BY <1>14 DEF Release, Unlock, Idle
  <2>2. /\ NoGuards \in [Shard -> {"none", "read", "write"}]
        /\ \A x \in Shard : Allowed(t, x, NoGuards[x])
    BY DEF NoGuards, Allowed
  <2> QED BY <1>8, <2>1, <2>2, Zenon
<1> QED BY <1>10, <1>11, <1>12, <1>13, <1>14

(* What an insertion leaves is of the shard.                               *)
LEMMA InsertType ==
  ASSUME TypeOK, NEW k \in Key
  PROVE  /\ \A keys \in AfterEviction(ShardOf[k]) \cup AfterInsert(ShardOf[k], k) :
              keys \subseteq Key /\ \A x \in keys : ShardOf[x] = ShardOf[k]
         /\ \A keys \in AfterInsert(ShardOf[k], k) : k \in keys
         /\ \A keys \in AfterEviction(ShardOf[k]) : keys \subseteq content[ShardOf[k]]
<1> DEFINE s == ShardOf[k]
<1>1. s \in Shard /\ content[s] \subseteq Key /\ \A x \in content[s] : ShardOf[x] = s
  BY NeoCacheAssumption DEF TypeOK
<1>2. \A keys \in AfterEviction(s) : keys \subseteq content[s]
  BY DEF AfterEviction
<1>3. \A keys \in AfterInsert(s, k) : k \in keys /\ keys \subseteq content[s] \cup {k}
  BY <1>2 DEF AfterInsert
<1> QED BY <1>1, <1>2, <1>3

(* A call that locks, changes its shard and lets go.                       *)
LEMMA InsertStep ==
  ASSUME IInv, NEW t \in Thread, NEW k \in Key, Running,
         Insert(t, k) \/ InsertPanics(t, k) \/ Remove(t, k)
  PROVE  IInv'
<1> DEFINE s == ShardOf[k]
<1>1. s \in Shard /\ content[s] \subseteq Key /\ \A x \in content[s] : ShardOf[x] = s
  BY NeoCacheAssumption DEF TypeOK, IInv
<1>2. /\ call[t] = Idle /\ cache = "shared" /\ CanWrite(s)
      /\ UNCHANGED <<cache, held, call, hollow>>
  BY DEF Insert, InsertPanics, Remove, Enters
<1>3. PICK keys \in SUBSET Key : ChangeShard(s, keys) /\ \A x \in keys : ShardOf[x] = s
  BY <1>1, InsertType DEF Insert, InsertPanics, Remove, IInv
<1>4. \A u \in Thread \ {t} : held[u][s] = "none"
  BY <1>2 DEF CanWrite
<1>5. dangling' = {}
  BY <1>1, <1>2, <1>4, MoveSafe DEF Insert, InsertPanics, Remove, IInv
<1>6. /\ call' = [call EXCEPT ![t] = Holding("idle", {})] /\ Holding("idle", {}) \in Call
      /\ held' = [held EXCEPT ![t] = held[t]]
      /\ held[t] \in [Shard -> {"none", "read", "write"}]
      /\ \A x \in Shard : held[t][x] \in {"none", held[t][x]}
  BY <1>2, NewCall, CallType DEF IInv, TypeOK, Idle
<1>7. ThreadInv(t)'
  BY <1>2, <1>6, HoldingInv, Zenon DEF Exclusive, Shared, ReadGuards, WriteGuards
<1>8. ~Altering(t)
  BY <1>2, EntersFacts
<1>9. cache # "view" /\ cache' = cache /\ hollow' = hollow
  BY <1>2
<1> HIDE DEF s
<1> QED BY <1>1, <1>3, <1>4, <1>5, <1>6, <1>7, <1>8, <1>9, ChangeStep, Zenon

(* A change made through an entry, which has the write lock.               *)
LEMMA EntryStep ==
  ASSUME IInv, NEW t \in Thread, Running,
         \/ \E op \in {"ref_mut", "occupied"} : VacantInsert(t, op)
         \/ VacantInsertPanics(t)
         \/ OccupiedRemove(t)
  PROVE  IInv'
<1>1. /\ call[t].op \in {"vacant", "occupied"}
      /\ UNCHANGED <<dangling, cache, hollow>>
  BY DEF VacantInsert, VacantInsertPanics, OccupiedRemove
<1>2. /\ cache \notin {"view", "consumed"} /\ ~Altering(t)
      /\ call[t].kept \subseteq Key
      /\ \A k \in call[t].kept : held[t][ShardOf[k]] = "write"
      /\ call[t].op = "vacant" => \A j, k \in call[t].kept : j = k
  BY <1>1, CallType DEF IInv, CacheInv, InView, Altering, PointerInv, CallInv, Exclusive, WriteGuards
<1>3. cache # "view" /\ cache' = cache /\ hollow' = hollow /\ dangling' = {}
      /\ cache' # "view" /\ cache' # "consumed"
  BY <1>1, <1>2 DEF IInv
<1>4. ASSUME NEW k \in call[t].kept
      PROVE  /\ k \in Key /\ ShardOf[k] \in Shard /\ held[t][ShardOf[k]] = "write"
             /\ \A u \in Thread \ {t} : held[u][ShardOf[k]] = "none"
  <2>1. k \in Key /\ ShardOf[k] \in Shard /\ held[t][ShardOf[k]] = "write"
    BY <1>2, NeoCacheAssumption
  <2> QED BY <2>1 DEF IInv, LockInv
<1>5. ASSUME NEW k \in call[t].kept, NEW keys \in SUBSET Key,
             ChangeShard(ShardOf[k], keys), \A x \in keys : ShardOf[x] = ShardOf[k],
             Now(t, Holding("idle", {})), held' = [held EXCEPT ![t] = NoGuards]
      PROVE  IInv'
  <2>1. Holding("idle", {}) \in Call /\ call' = [call EXCEPT ![t] = Holding("idle", {})]
    BY <1>5, NewCall DEF Now
  <2>2. /\ NoGuards \in [Shard -> {"none", "read", "write"}]
        /\ \A x \in Shard : NoGuards[x] \in {"none", held[t][x]}
    BY DEF NoGuards
  <2>3. ThreadInv(t)'
    BY <1>3, <2>1, HoldingInv, Zenon DEF Exclusive, Shared, ReadGuards, WriteGuards
  <2> QED BY <1>2, <1>3, <1>4, <1>5, <2>1, <2>2, <2>3, ChangeStep, Zenon
<1>6. ASSUME NEW op \in {"ref_mut", "occupied"}, VacantInsert(t, op) PROVE IInv'
  <2>1. PICK k \in call[t].kept :
          \E keys \in AfterInsert(ShardOf[k], k) : ChangeShard(ShardOf[k], keys)
    BY <1>6 DEF VacantInsert
  <2>2. PICK keys \in AfterInsert(ShardOf[k], k) : ChangeShard(ShardOf[k], keys)
    BY <2>1
  <2>3. k \in keys /\ keys \in SUBSET Key /\ \A x \in keys : ShardOf[x] = ShardOf[k]
    BY <1>4, InsertType DEF IInv
  <2>4. /\ call[t].op = "vacant" /\ held' = held
        /\ call' = [call EXCEPT ![t] = Holding(op, call[t].kept)]
    BY <1>6 DEF VacantInsert, Now
  <2>5. call[t].kept \subseteq keys
    BY <1>2, <2>3, <2>4
  <2>6. Resident' = {x \in Resident : ShardOf[x] # ShardOf[k]} \cup keys
    <3>1. ShardOf[k] \in Shard /\ \A u \in Thread \ {t} : held[u][ShardOf[k]] = "none"
      BY <1>4
    <3> QED BY <1>3, <2>2, <2>3, <3>1, ShardOwned
  <2>7. call[t].kept \subseteq Resident'
    BY <2>5, <2>6
  <2>8. /\ op \in Exclusive => \A x \in call[t].kept : held'[t][ShardOf[x]] = "write"
        /\ op \notin Shared /\ op # "vacant" /\ op # "idle"
        /\ op \in {"idle", "alter"} \cup ReadGuards \cup WriteGuards
    BY <1>2, <2>4 DEF Exclusive, Shared, ReadGuards, WriteGuards
  <2>9. ThreadInv(t)'
    BY <1>2, <1>3, <2>4, <2>7, <2>8, HoldingInv, Zenon
  <2>10. Holding(op, call[t].kept) \in Call
    BY <1>2, <2>8, NewCall, Zenon
  <2>11. /\ held[t] \in [Shard -> {"none", "read", "write"}]
         /\ held' = [held EXCEPT ![t] = held[t]]
         /\ \A x \in Shard : held[t][x] \in {"none", held[t][x]}
    BY <2>4 DEF IInv, TypeOK
  <2> QED BY <1>2, <1>3, <1>4, <2>2, <2>3, <2>4, <2>9, <2>10, <2>11, ChangeStep, Zenon
<1>7. CASE VacantInsertPanics(t)
  <2>1. PICK k \in call[t].kept :
          \E keys \in AfterEviction(ShardOf[k]) : ChangeShard(ShardOf[k], keys)
    BY <1>7 DEF VacantInsertPanics
  <2>2. PICK keys \in AfterEviction(ShardOf[k]) : ChangeShard(ShardOf[k], keys)
    BY <2>1
  <2>3. keys \subseteq Key /\ \A x \in keys : ShardOf[x] = ShardOf[k]
    BY <1>2, InsertType DEF IInv
  <2>4. Now(t, Holding("idle", {})) /\ held' = [held EXCEPT ![t] = NoGuards]
    BY <1>7 DEF VacantInsertPanics, Unlock, Idle
  <2> QED BY <1>5, <2>2, <2>3, <2>4
<1>8. CASE OccupiedRemove(t)
  <2>1. PICK k \in call[t].kept : ChangeShard(ShardOf[k], content[ShardOf[k]] \ {k})
    BY <1>8 DEF OccupiedRemove
  <2>2. /\ content[ShardOf[k]] \ {k} \subseteq Key
        /\ \A x \in content[ShardOf[k]] \ {k} : ShardOf[x] = ShardOf[k]
    BY <1>2, NeoCacheAssumption DEF IInv, TypeOK
  <2>3. Now(t, Holding("idle", {})) /\ held' = [held EXCEPT ![t] = NoGuards]
    BY <1>8 DEF OccupiedRemove, Unlock, Idle
  <2> QED BY <1>5, <2>1, <2>2, <2>3
<1> QED BY <1>6, <1>7, <1>8

-----------------------------------------------------------------------------
(* Calls over all shards.                                                  *)

(* A thread without pointers has nothing to lose.                          *)
LEMMA EmptyInv ==
  ASSUME NEW t \in Thread, call'[t].todo = {}, call'[t].kept = {},
         call'[t].at = "caller", CacheInv(t)'
  PROVE  ThreadInv(t)'
BY DEF ThreadInv, PointerInv, CallInv, CanReach

(* A thread in a sweep without an iterator has no pointers.                *)
LEMMA PassiveFacts ==
  ASSUME IInv, NEW t \in Thread, call[t].op \in Passive
  PROVE  /\ call[t].todo = {} /\ call[t].kept = {} /\ call[t].at = "caller"
         /\ ~Altering(t)
<1>1. call[t].op \notin Iterators \cup Unlocked
  BY DEF Passive, Readers, Writers, Iterators, Unlocked
<1>2. call[t].todo = {} /\ call[t].kept = {} /\ call[t].at # "next"
  BY <1>1 DEF IInv, CallInv
<1> QED BY <1>2, CallType DEF Altering, IInv

(* A step that leaves the locks alone.                                     *)
LEMMA LocksAlone ==
  ASSUME IInv, NEW t \in Thread
  PROVE  /\ held[t] \in [Shard -> {"none", "read", "write"}]
         /\ held = [held EXCEPT ![t] = held[t]]
         /\ \A s \in Shard : Allowed(t, s, held[t][s])
BY DEF IInv, TypeOK, Allowed

(* The calls that change nothing but what the thread itself is about.      *)
LEMMA OwnStep ==
  ASSUME IInv, NEW t \in Thread, NEW c \in Call,
         call' = [call EXCEPT ![t] = c],
         UNCHANGED <<content, cache, held, hollow, dangling>>,
         stayed' \in [Thread -> SUBSET Key], came' \in [Thread -> SUBSET Key],
         ~Altering(t), ThreadInv(t)'
  PROVE  IInv'
<1>1. HollowInv' /\ hollow' \subseteq Key
  BY HollowKept, Zenon
<1>2. dangling' = {}
  BY DEF IInv
<1> QED BY <1>1, <1>2, LocksAlone, QuietStep, Zenon

(* len, is_empty and clone, and the start of serialize.                    *)
LEMMA ReadStep ==
  ASSUME IInv, NEW t \in Thread, Running, ReadShard(t) \/ SerializeMap(t)
  PROVE  IInv'
<1>1. /\ call[t].op \in Readers
      /\ UNCHANGED <<content, stayed, came, dangling, cache, held, hollow>>
  BY DEF ReadShard, SerializeMap, Readers, table
<1>2. /\ call[t].todo = {} /\ call[t].kept = {} /\ call[t].at = "caller" /\ ~Altering(t)
  BY <1>1, PassiveFacts DEF Passive
<1>3. stayed' \in [Thread -> SUBSET Key] /\ came' \in [Thread -> SUBSET Key]
  BY <1>1 DEF IInv, TypeOK
<1>4. CASE ReadShard(t)
  <2> DEFINE i == call[t].shard_i
             c == [call[t] EXCEPT !.shard_i = i + 1, !.seen = @ \cup content[i]]
  <2>1. i \in 0..ShardCount /\ i < ShardCount
    BY <1>4, CallType DEF ReadShard, IInv
  <2>2. i + 1 \in 0..ShardCount /\ content[i] \subseteq Key
    BY <2>1, NeoCacheAssumption DEF IInv, TypeOK, Shard
  <2>3. call' = [call EXCEPT ![t] = c]
    BY <1>4, Zenon DEF ReadShard, IInv, TypeOK
  <2>4. /\ c \in Call
        /\ c.op = call[t].op /\ c.at = call[t].at /\ c.todo = call[t].todo /\ c.kept = call[t].kept
    BY <2>2, CallType, Zenon DEF Call, IInv
  <2>5. call'[t] = c
    BY <2>3 DEF IInv, TypeOK
  <2> HIDE DEF c
  <2>6. CacheInv(t)'
    BY <1>1, <2>4, <2>5 DEF CacheInv, IInv
  <2>7. ThreadInv(t)'
    BY <1>2, <2>4, <2>5, <2>6, EmptyInv
  <2> QED BY <1>1, <1>2, <1>3, <2>3, <2>4, <2>7, OwnStep, Zenon
<1>5. CASE SerializeMap(t)
  <2> DEFINE c == [op |-> "serialize", at |-> "caller", shard_i |-> 0, todo |-> {}, seen |-> {},
                   kept |-> {}, hint |-> Cardinality(call[t].seen)]
  <2>1. call' = [call EXCEPT ![t] = c]
    <3>1. [Sweep("serialize") EXCEPT !.hint = Cardinality(call[t].seen)] = c
      BY DEF Sweep, Holding
    <3> QED BY <1>5, <3>1, Zenon DEF SerializeMap, Now
  <2>2. Cardinality(call[t].seen) \in Sizes
    BY CallType DEF Sizes, IInv
  <2>3. c \in Call
    BY <2>2, NeoCacheAssumption DEF Call, Sweeps, Iterators
  <2>4. call'[t] = c
    BY <2>1 DEF IInv, TypeOK
  <2>5. cache \notin {"view", "consumed"}
    BY <1>5 DEF SerializeMap, IInv, CacheInv, InView
  <2>6. CacheInv(t)'
    BY <1>1, <2>4, <2>5 DEF CacheInv
  <2>7. ThreadInv(t)'
    BY <2>4, <2>6, EmptyInv
  <2> QED BY <1>1, <1>2, <1>3, <2>1, <2>3, <2>7, OwnStep, Zenon
<1> QED BY <1>4, <1>5

(* A sweep begins.                                                         *)
LEMMA BeginStep ==
  ASSUME IInv, NEW t \in Thread, NEW op \in OfCache \cup OfView, Running, BeginSweep(t, op)
  PROVE  IInv'
<1>1. /\ op \in Sweeps /\ op # "into_iter"
      /\ cache \in {"shared", "view"}
      /\ cache = "view" => op \in InView
      /\ op = "view_iter" => cache = "view"
  BY DEF BeginSweep, OfCache, OfView, Sweeps, Readers, Writers, Iterators, Unlocked, InView
<1>2. ~Altering(t)
  BY EntersFacts DEF BeginSweep
<1>3. /\ call' = [call EXCEPT ![t] = Holding(op, {})]
      /\ UNCHANGED <<content, cache, held, hollow, dangling>>
  BY DEF BeginSweep, Now, Sweep
<1>4. /\ Holding(op, {}) \in Call
      /\ Holding(op, {}).op = op /\ Holding(op, {}).at = "caller"
      /\ Holding(op, {}).todo = {} /\ Holding(op, {}).kept = {}
  BY <1>1, NeoCacheAssumption DEF Holding, Call
<1>5. call'[t] = Holding(op, {})
  BY <1>3 DEF IInv, TypeOK
<1>6. CacheInv(t)'
  BY <1>1, <1>3, <1>4, <1>5 DEF CacheInv
<1>7. ThreadInv(t)'
  BY <1>4, <1>5, <1>6, EmptyInv
<1>8. stayed' \in [Thread -> SUBSET Key] /\ came' \in [Thread -> SUBSET Key]
  BY InContent DEF BeginSweep, IInv, TypeOK, Resident
<1> QED BY <1>2, <1>3, <1>4, <1>7, <1>8, OwnStep, Zenon

(* clear, retain and shrink_to_fit, a shard at a time.                     *)
LEMMA WriteStep ==
  ASSUME IInv, NEW t \in Thread, Running, WriteShard(t) \/ RetainPanics(t)
  PROVE  IInv'
<1> DEFINE i == call[t].shard_i
<1>1. /\ call[t].op \in Writers /\ i < ShardCount /\ CanWrite(i)
      /\ \E keys \in Survivors(t) : ChangeShard(i, keys)
      /\ UNCHANGED <<cache, held, hollow>>
  BY DEF WriteShard, RetainPanics, Writers
<1>2. /\ i \in Shard /\ i + 1 \in 0..ShardCount
      /\ content[i] \subseteq Key /\ \A x \in content[i] : ShardOf[x] = i
  <2>1. i \in 0..ShardCount
    BY CallType DEF IInv
  <2>2. i \in Shard /\ i + 1 \in 0..ShardCount
    BY <1>1, <2>1, NeoCacheAssumption DEF Shard
  <2> QED BY <2>2 DEF IInv, TypeOK
<1>3. /\ call[t].todo = {} /\ call[t].kept = {} /\ call[t].at = "caller" /\ ~Altering(t)
  BY <1>1, PassiveFacts DEF Passive
<1>4. PICK keys \in Survivors(t) : ChangeShard(i, keys)
  BY <1>1
<1>5. keys \in SUBSET Key /\ \A x \in keys : ShardOf[x] = i
  <2>1. keys \subseteq content[i]
    BY DEF Survivors
  <2> QED BY <1>2, <2>1
<1>6. cache \notin {"view", "consumed"}
  BY <1>1 DEF IInv, CacheInv, InView, Writers
<1>7. \A u \in Thread \ {t} : held[u][i] = "none"
  BY <1>1 DEF CanWrite
<1>8. dangling' = {}
  <2>1. CASE MoveTable(t, i)
    BY <1>2, <1>6, <1>7, <2>1, MoveSafe
  <2>2. CASE dangling' = dangling
    BY <2>2 DEF IInv
  <2> QED BY <2>1, <2>2 DEF WriteShard, RetainPanics
<1>9. ASSUME NEW c \in Call, call' = [call EXCEPT ![t] = c],
             c.op \in Writers \cup {"idle"}, c.todo = {}, c.kept = {}, c.at = "caller"
      PROVE  IInv'
  <2>1. call'[t] = c
    BY <1>9 DEF IInv, TypeOK
  <2>2. CacheInv(t)'
    BY <1>1, <1>6, <1>9, <2>1 DEF CacheInv, Writers
  <2>3. ThreadInv(t)'
    BY <1>9, <2>1, <2>2, EmptyInv
  <2>4. /\ held[t] \in [Shard -> {"none", "read", "write"}]
        /\ held' = [held EXCEPT ![t] = held[t]]
        /\ \A x \in Shard : held[t][x] \in {"none", held[t][x]}
    BY <1>1, LocksAlone
  <2>5. cache # "view" /\ cache' = cache /\ hollow' = hollow
    BY <1>1, <1>6
  <2> HIDE DEF i
  <2> QED BY <1>2, <1>3, <1>4, <1>5, <1>7, <1>8, <1>9, <2>3, <2>4, <2>5, ChangeStep, Zenon
<1>10. CASE WriteShard(t)
  <2> DEFINE c == [call[t] EXCEPT !.shard_i = i + 1]
  <2>1. call' = [call EXCEPT ![t] = c]
    BY <1>10 DEF WriteShard, IInv, TypeOK
  <2>2. /\ c \in Call
        /\ c.op = call[t].op /\ c.at = call[t].at /\ c.todo = call[t].todo /\ c.kept = call[t].kept
    BY <1>2, CallType DEF Call, IInv
  <2> HIDE DEF c
  <2> QED BY <1>1, <1>3, <1>9, <2>1, <2>2, Zenon
<1>11. CASE RetainPanics(t)
  <2>1. call' = [call EXCEPT ![t] = Holding("idle", {})]
    BY <1>11 DEF RetainPanics, Now, Idle
  <2>2. /\ Holding("idle", {}) \in Call
        /\ Holding("idle", {}).op = "idle" /\ Holding("idle", {}).at = "caller"
        /\ Holding("idle", {}).todo = {} /\ Holding("idle", {}).kept = {}
    BY NewCall
  <2> QED BY <1>9, <2>1, <2>2, Zenon
<1> QED BY <1>10, <1>11

-----------------------------------------------------------------------------
(* Iterators.                                                              *)

(* A thread that goes on with the same entries goes on altering them.      *)
LEMMA HollowSame ==
  ASSUME IInv, NEW t \in Thread, NEW c,
         call' = [call EXCEPT ![t] = c], hollow' = hollow,
         c.op = call[t].op, c.kept = call[t].kept
  PROVE  HollowInv' /\ hollow' \subseteq Key
<1>1. call'[t] = c /\ \A u \in Thread \ {t} : call'[u] = call[u]
  BY DEF IInv, TypeOK
<1>2. \A u \in Thread : call'[u].op = call[u].op /\ call'[u].kept = call[u].kept
  BY <1>1
<1> QED BY <1>2 DEF IInv, TypeOK, HollowInv, Altering

(* An iterator that has come to the end of a shard calls next again.       *)
LEMMA CallNextStep ==
  ASSUME IInv, NEW t \in Thread, Running, CallNext(t)
  PROVE  IInv'
<1> DEFINE c == [call[t] EXCEPT !.at = "next"]
<1>1. /\ call[t].op \in Iterators /\ call[t].todo = {} /\ call[t].shard_i < ShardCount
      /\ ~Altering(t)
      /\ UNCHANGED <<content, stayed, came, dangling, cache, held, hollow>>
  BY DEF CallNext, table
<1>2. call' = [call EXCEPT ![t] = c]
  BY DEF CallNext, IInv, TypeOK
<1>3. /\ c \in Call
      /\ c.op = call[t].op /\ c.at = "next" /\ c.shard_i = call[t].shard_i
      /\ c.todo = {} /\ c.kept = call[t].kept
  BY <1>1, CallType DEF Call, IInv
<1>4. call'[t] = c
  BY <1>2 DEF IInv, TypeOK
<1> HIDE DEF c
<1>5. Resident' = Resident
  BY <1>1 DEF Resident
<1>6. PointerInv(t) /\ CallInv(t) /\ CacheInv(t)
  BY DEF IInv
<1>7. PointerInv(t)'
  BY <1>1, <1>3, <1>4, <1>5, <1>6 DEF PointerInv, CanReach
<1>8. CallInv(t)'
  BY <1>1, <1>3, <1>4, <1>6 DEF CallInv
<1>9. CacheInv(t)'
  BY <1>1, <1>3, <1>4, <1>6 DEF CacheInv
<1>10. stayed' \in [Thread -> SUBSET Key] /\ came' \in [Thread -> SUBSET Key]
  BY <1>1 DEF IInv, TypeOK
<1>11. ThreadInv(t)'
  BY <1>7, <1>8, <1>9 DEF ThreadInv
<1> QED BY <1>1, <1>2, <1>3, <1>10, <1>11, OwnStep, Zenon

(* An iterator has the lock of its kind for every entry it leads to.       *)
LEMMA IteratorLocks ==
  ASSUME IInv, NEW t \in Thread, call[t].op \in Iterators
  PROVE  \A k \in call[t].todo \cup call[t].kept : held[t][ShardOf[k]] = Mode(call[t].op)
<1>1. PointerInv(t)
  BY DEF IInv
<1>2. CASE call[t].op \in {"iter", "serialize"}
  BY <1>1, <1>2 DEF PointerInv, Shared, Mode
<1>3. CASE call[t].op \in {"iter_mut", "alter_all"}
  BY <1>1, <1>3 DEF PointerInv, Exclusive, Mode
<1> QED BY <1>2, <1>3 DEF Iterators

(* It locks the next shard and lets go of the last.                        *)
LEMMA NextShardStep ==
  ASSUME IInv, NEW t \in Thread, Running, NextShard(t)
  PROVE  IInv'
<1> DEFINE s == call[t].shard_i
           op == call[t].op
           keep == {s} \cup Shards(call[t].kept)
           row == [x \in Shard |-> IF x \in keep THEN Mode(op) ELSE "none"]
           goto == IF content[s] = {} /\ s + 1 < ShardCount THEN "next" ELSE "caller"
           c == [call[t] EXCEPT !.shard_i = s + 1, !.todo = content[s], !.at = goto]
<1>1. /\ op \in Iterators /\ call[t].at = "next" /\ CanLock(op, s)
      /\ held' = [held EXCEPT ![t] = row]
      /\ UNCHANGED <<content, stayed, came, dangling, cache, hollow>>
  BY DEF NextShard, LockOnly, table
<1>2. PointerInv(t) /\ CallInv(t) /\ CacheInv(t)
  BY DEF IInv
<1>3. s \in Shard /\ s \in Nat /\ s + 1 \in 0..ShardCount
  <2>1. s < ShardCount /\ s \in 0..ShardCount
    BY <1>1, <1>2, CallType DEF CallInv, IInv
  <2> QED BY <2>1, NeoCacheAssumption DEF Shard
<1>4. content[s] \in SUBSET Key /\ (\A k \in content[s] : ShardOf[k] = s) /\ goto \in {"caller", "next"}
  BY <1>3 DEF IInv, TypeOK
<1>5. call' = [call EXCEPT ![t] = c]
  BY Zenon DEF NextShard, IInv, TypeOK
<1>6. /\ c \in Call
      /\ c.op = op /\ c.at = goto /\ c.shard_i = s + 1
      /\ c.todo = content[s] /\ c.kept = call[t].kept
  <2> HIDE DEF goto
  <2> QED BY <1>3, <1>4, CallType, Zenon DEF Call, IInv
<1>7. call'[t] = c
  BY <1>5 DEF IInv, TypeOK
<1> HIDE DEF c
<1>8. Mode(op) \in {"read", "write"} /\ (Mode(op) = "read" => CanRead(s))
      /\ (Mode(op) = "write" => CanWrite(s))
  BY <1>1 DEF Mode, CanLock
<1>9. row \in [Shard -> {"none", "read", "write"}]
  BY <1>8
<1>10. ASSUME NEW x \in Shard PROVE Allowed(t, x, row[x])
  <2>1. CASE x = s
    BY <1>8, <2>1 DEF Allowed
  <2>2. CASE x # s /\ x \in Shards(call[t].kept)
    <3>1. PICK k \in call[t].kept : x = ShardOf[k]
      BY <2>2 DEF Shards
    <3>2. held[t][x] = Mode(op)
      BY <1>1, <3>1, IteratorLocks
    <3> QED BY <2>2, <3>2 DEF Allowed
  <2>3. CASE x \notin keep
    BY <2>3 DEF Allowed
  <2> QED BY <2>1, <2>2, <2>3
<1>11. \A k \in content[s] \cup call[t].kept : row[ShardOf[k]] = Mode(op)
  BY <1>3, <1>4, CallType, NeoCacheAssumption DEF Shards, IInv
<1>12. held'[t] = row
  BY <1>1 DEF IInv, TypeOK
<1> HIDE DEF row
<1>13. Resident' = Resident /\ content[s] \subseteq Resident
  BY <1>1, <1>4 DEF Resident
<1>14. PointerInv(t)'
  <2>1. op \notin {"vacant", "into_iter"} /\ call[t].kept \subseteq Resident
    BY <1>1, <1>2, Zenon DEF Iterators, PointerInv, CanReach
  <2>2. CanReach(t)' \subseteq Resident'
    BY <1>6, <1>7, <1>13, <2>1 DEF CanReach
  <2>3. op \in Exclusive => Mode(op) = "write"
    BY DEF Exclusive, Mode, WriteGuards
  <2>4. op \in Shared => Mode(op) = "read"
    BY <1>1 DEF Shared, Mode, ReadGuards, Iterators
  <2> QED BY <1>6, <1>7, <1>11, <1>12, <2>1, <2>2, <2>3, <2>4 DEF PointerInv
<1>15. CallInv(t)'
  <2>1. op \notin Passive /\ op # "vacant"
    BY <1>1 DEF Passive, Iterators, Readers, Writers
  <2> QED BY <1>1, <1>3, <1>4, <1>6, <1>7, <2>1 DEF CallInv
<1>16. CacheInv(t)'
  BY <1>1, <1>2, <1>6, <1>7 DEF CacheInv
<1>17. HollowInv' /\ hollow' \subseteq Key
  BY <1>1, <1>5, <1>6, HollowSame, Zenon
<1>18. stayed' \in [Thread -> SUBSET Key] /\ came' \in [Thread -> SUBSET Key] /\ dangling' = {}
  BY <1>1 DEF IInv, TypeOK
<1>19. ThreadInv(t)'
  BY <1>14, <1>15, <1>16 DEF ThreadInv
<1> QED BY <1>1, <1>5, <1>6, <1>9, <1>10, <1>17, <1>18, <1>19, QuietStep, Zenon

(* It yields an item.                                                      *)
LEMMA YieldStep ==
  ASSUME IInv, NEW t \in Thread, NEW k \in Key, NEW keep \in BOOLEAN, Running, Yield(t, k, keep)
  PROVE  IInv'
<1> DEFINE keys == IF keep THEN call[t].kept \cup {k} ELSE call[t].kept
           c == [call[t] EXCEPT !.todo = @ \ {k}, !.seen = @ \cup {k}, !.kept = keys]
<1>1. /\ call[t].op \in {"iter", "iter_mut", "serialize", "view_iter", "into_iter"}
      /\ k \in call[t].todo
      /\ UNCHANGED <<content, stayed, came, dangling, cache, held, hollow>>
  BY DEF Yield, table, Unlocked
<1>2. PointerInv(t) /\ CallInv(t) /\ CacheInv(t)
  BY DEF IInv
<1>3. call' = [call EXCEPT ![t] = c]
  BY Zenon DEF Yield, IInv, TypeOK
<1>4. keys \in SUBSET Key /\ keys \subseteq call[t].todo \cup call[t].kept
  BY <1>1, CallType DEF IInv
<1> HIDE DEF keys
<1>5. /\ c \in Call
      /\ c.op = call[t].op /\ c.at = call[t].at /\ c.shard_i = call[t].shard_i
      /\ c.todo = call[t].todo \ {k} /\ c.kept = keys
  BY <1>4, CallType, Zenon DEF Call, IInv
<1>6. call'[t] = c
  BY <1>3 DEF IInv, TypeOK
<1> HIDE DEF c
<1>7. Resident' = Resident /\ held'[t] = held[t]
  BY <1>1 DEF Resident
<1>8. c.todo \cup c.kept \subseteq call[t].todo \cup call[t].kept
  BY <1>4, <1>5
<1>9. PointerInv(t)'
  <2>1. CanReach(t)' \subseteq CanReach(t)
    BY <1>5, <1>6, <1>8 DEF CanReach
  <2> QED BY <1>1, <1>2, <1>5, <1>6, <1>7, <1>8, <2>1 DEF PointerInv
<1>10. CallInv(t)'
  <2>1. call[t].op \notin Passive /\ call[t].op # "vacant"
    BY <1>1 DEF Passive, Readers, Writers
  <2>2. call[t].at # "next" /\ call[t].op \in Iterators \cup Unlocked
    BY <1>1, <1>2 DEF CallInv, Iterators, Unlocked
  <2> QED BY <1>2, <1>5, <1>6, <2>1, <2>2 DEF CallInv
<1>11. CacheInv(t)'
  BY <1>1, <1>2, <1>5, <1>6 DEF CacheInv
<1>12. stayed' \in [Thread -> SUBSET Key] /\ came' \in [Thread -> SUBSET Key] /\ ~Altering(t)
  BY <1>1 DEF IInv, TypeOK, Altering
<1>13. ThreadInv(t)'
  BY <1>9, <1>10, <1>11 DEF ThreadInv
<1> QED BY <1>1, <1>3, <1>5, <1>12, <1>13, OwnStep, Zenon

(* An item is dropped; the guards of the others stay.                      *)
LEMMA DropItemStep ==
  ASSUME IInv, NEW t \in Thread, NEW k \in Key, Running, DropItem(t, k)
  PROVE  IInv'
<1> DEFINE keys == call[t].kept \ {k}
           row == [s \in Shard |-> IF s \in Guarded(t, keys) THEN held[t][s] ELSE "none"]
<1>1. /\ call[t].op \in {"iter", "iter_mut", "refs", "refs_mut"}
      /\ held' = [held EXCEPT ![t] = row]
      /\ UNCHANGED <<content, stayed, came, dangling, cache, hollow>>
  BY DEF DropItem, table, IInv, TypeOK
<1>2. PointerInv(t) /\ CallInv(t) /\ CacheInv(t)
  BY DEF IInv
<1>3. row \in [Shard -> {"none", "read", "write"}] /\ \A s \in Shard : Allowed(t, s, row[s])
  BY CallType DEF Allowed, IInv
<1>4. \A x \in keys : row[ShardOf[x]] = held[t][ShardOf[x]]
  BY CallType, NeoCacheAssumption DEF Guarded, Shards, IInv
<1>5. \A x \in call[t].todo : row[ShardOf[x]] = held[t][ShardOf[x]]
  <2>1. call[t].todo \subseteq Key
    BY CallType DEF IInv
  <2>2. call[t].op \in Iterators =>
          \A x \in call[t].todo : call[t].shard_i > 0 /\ ShardOf[x] = call[t].shard_i - 1
    BY <1>2 DEF CallInv
  <2>3. call[t].op \notin Iterators => call[t].todo = {}
    BY <1>1, <1>2 DEF CallInv, Unlocked
  <2> QED BY <2>1, <2>2, <2>3, NeoCacheAssumption DEF Guarded
<1>6. held'[t] = row
  BY <1>1 DEF IInv, TypeOK
<1>7. Resident' = Resident
  BY <1>1 DEF Resident
<1>8. ~Altering(t) /\ dangling' = {}
      /\ stayed' \in [Thread -> SUBSET Key] /\ came' \in [Thread -> SUBSET Key]
  BY <1>1 DEF Altering, IInv, TypeOK
<1> HIDE DEF row
<1>9. CASE call' = [call EXCEPT ![t] = Idle]
  <2>1. Idle \in Call /\ call' = [call EXCEPT ![t] = Holding("idle", {})]
    BY <1>9, NewCall DEF Idle
  <2>2. HollowInv' /\ hollow' \subseteq Key
    BY <1>1, <1>8, <1>9, HollowKept, Zenon
  <2>3. ThreadInv(t)'
    BY <2>1, HoldingInv, Zenon DEF Exclusive, Shared, ReadGuards, WriteGuards, InView
  <2> QED BY <1>1, <1>3, <1>8, <1>9, <2>1, <2>2, <2>3, QuietStep, Zenon
<1>10. CASE call' = [call EXCEPT ![t].kept = @ \ {k}]
  <2> DEFINE c == [call[t] EXCEPT !.kept = @ \ {k}]
  <2>1. call' = [call EXCEPT ![t] = c] /\ call'[t] = c
    BY <1>10 DEF IInv, TypeOK
  <2>2. /\ c \in Call
        /\ c.op = call[t].op /\ c.at = call[t].at /\ c.shard_i = call[t].shard_i
        /\ c.todo = call[t].todo /\ c.kept = keys
    BY CallType DEF Call, IInv
  <2> HIDE DEF c
  <2>3. HollowInv' /\ hollow' \subseteq Key
    BY <1>1, <1>8, <2>1, HollowKept, Zenon
  <2>4. PointerInv(t)'
    <3>1. CanReach(t)' \subseteq CanReach(t)
      BY <2>1, <2>2 DEF CanReach
    <3>2. \A x \in c.todo \cup c.kept :
            x \in call[t].todo \cup call[t].kept /\ held'[t][ShardOf[x]] = held[t][ShardOf[x]]
      BY <1>4, <1>5, <1>6, <2>2
    <3> QED BY <1>1, <1>2, <1>7, <2>1, <2>2, <3>1, <3>2 DEF PointerInv
  <2>5. CallInv(t)'
    BY <1>1, <1>2, <2>1, <2>2 DEF CallInv, Passive, Readers, Writers
  <2>6. CacheInv(t)'
    BY <1>1, <1>2, <2>1, <2>2 DEF CacheInv
  <2>7. ThreadInv(t)'
    BY <2>4, <2>5, <2>6 DEF ThreadInv
  <2> QED BY <1>1, <1>3, <1>8, <2>1, <2>2, <2>3, <2>7, QuietStep, Zenon
<1> QED BY <1>9, <1>10 DEF DropItem, Now

(* A sweep ends, and the items that were kept live on.                     *)
LEMMA EndStep ==
  ASSUME IInv, NEW t \in Thread, Running, EndSweep(t)
  PROVE  IInv'
<1> DEFINE keys == call[t].kept
           row == [s \in Shard |-> IF s \in Shards(keys) THEN held[t][s] ELSE "none"]
           op == IF keys = {} THEN "idle"
                 ELSE IF call[t].op = "iter_mut" THEN "refs_mut" ELSE "refs"
<1>1. /\ call[t].op # "into_iter" /\ call[t].op \in Sweeps /\ ~Altering(t)
      /\ held' = [held EXCEPT ![t] = row]
      /\ UNCHANGED <<content, dangling, cache, hollow>>
  BY Zenon DEF EndSweep, Done, Sweeping, Sweeps, Iterators, Unlocked, Altering, IInv, TypeOK
<1>2. PointerInv(t) /\ CallInv(t) /\ CacheInv(t)
  BY DEF IInv
<1>3. keys \in SUBSET Key /\ cache \in {"shared", "view", "consumed", "aborted"}
  BY CallType, Zenon DEF IInv, TypeOK
<1>4. row \in [Shard -> {"none", "read", "write"}] /\ \A s \in Shard : Allowed(t, s, row[s])
  BY CallType DEF Allowed, IInv
<1>5. \A x \in keys : row[ShardOf[x]] = held[t][ShardOf[x]]
  BY <1>3, NeoCacheAssumption DEF Shards
<1>6. held'[t] = row
  BY <1>1 DEF IInv, TypeOK
<1>7. Resident' = Resident
  BY <1>1 DEF Resident
<1> HIDE DEF row
<1>8. call' = [call EXCEPT ![t] = Holding(op, keys)]
  <2>1. CASE keys = {}
    BY <2>1 DEF EndSweep, Now, Idle
  <2>2. CASE keys # {}
    BY <2>2, Zenon DEF EndSweep, Now
  <2> QED BY <2>1, <2>2
<1>9. keys # {} => call[t].op \in {"iter", "iter_mut", "serialize", "view_iter"}
  BY <1>1, <1>2 DEF CallInv, Passive, Sweeps, Iterators, Unlocked, Altering
<1>10. keys \subseteq Resident'
  BY <1>2, <1>7, <1>9 DEF PointerInv, CanReach
<1>11. op = "refs_mut" => \A x \in keys : held'[t][ShardOf[x]] = "write"
  BY <1>2, <1>5, <1>6 DEF PointerInv, Exclusive
<1>12. op = "refs" => \A x \in keys : held'[t][ShardOf[x]] = "read" \/ cache' = "view"
  <2> SUFFICES ASSUME op = "refs"
               PROVE  \A x \in keys : held'[t][ShardOf[x]] = "read" \/ cache' = "view"
    OBVIOUS
  <2>1. call[t].op \in {"iter", "serialize", "view_iter"}
    BY <1>9
  <2>2. CASE call[t].op = "view_iter"
    BY <1>1, <1>2, <2>2 DEF CacheInv
  <2>3. CASE call[t].op \in {"iter", "serialize"}
    BY <1>2, <1>5, <1>6, <2>3 DEF PointerInv, Shared
  <2> QED BY <2>1, <2>2, <2>3
<1>13. cache = "view" => op \in InView
  BY <1>1, <1>2 DEF CacheInv, InView
<1>14. cache # "consumed"
  BY <1>1, <1>2 DEF CacheInv, Sweeps, Readers, Writers, Iterators, Unlocked
<1>15. op \in {"idle", "refs", "refs_mut"} /\ (op = "idle" => keys = {})
  OBVIOUS
<1> HIDE DEF op
<1>16. /\ op \in {"idle", "alter"} \cup ReadGuards \cup WriteGuards /\ op # "vacant"
       /\ op \in Exclusive => op = "refs_mut"
       /\ op \in Shared => op = "refs"
  BY <1>15 DEF ReadGuards, WriteGuards, Exclusive, Shared
<1>17. ThreadInv(t)'
  BY <1>1, <1>3, <1>8, <1>10, <1>11, <1>12, <1>13, <1>14, <1>15, <1>16, HoldingInv, Zenon
<1>18. Holding(op, keys) \in Call
  BY <1>3, <1>16, NewCall
<1>19. HollowInv' /\ hollow' \subseteq Key
  BY <1>1, <1>8, HollowKept, Zenon
<1>20. stayed' \in [Thread -> SUBSET Key] /\ came' \in [Thread -> SUBSET Key] /\ dangling' = {}
  BY <1>1, Zenon DEF EndSweep, IInv, TypeOK
<1> QED BY <1>1, <1>4, <1>8, <1>17, <1>18, <1>19, <1>20, QuietStep, Zenon

(* The closure of alter is called on an entry, or has returned.            *)
LEMMA AlterStep ==
  ASSUME IInv, NEW t \in Thread, Running,
         (\E k \in Key : AlterItem(t, k)) \/ AlterDone(t)
  PROVE  IInv'
<1>1. PointerInv(t) /\ CallInv(t) /\ CacheInv(t)
  BY DEF IInv
<1>2. /\ call[t].op \in {"alter", "alter_all"}
      /\ UNCHANGED <<content, stayed, came, dangling, cache>>
  BY Zenon DEF AlterItem, AlterDone, Altering, table
<1>3. Resident' = Resident
  BY <1>2 DEF Resident
<1>4. stayed' \in [Thread -> SUBSET Key] /\ came' \in [Thread -> SUBSET Key] /\ dangling' = {}
  BY <1>2 DEF IInv, TypeOK
<1>5. cache \notin {"view", "consumed"} /\ cache' = cache
  BY <1>1, <1>2 DEF CacheInv, InView
<1>6. ASSUME NEW c \in Call, call' = [call EXCEPT ![t] = c], held' = held,
             call[t].op = "alter_all", c.op = "alter_all", c.at = call[t].at,
             c.shard_i = call[t].shard_i, c.todo \subseteq call[t].todo,
             c.kept \subseteq call[t].todo \cup call[t].kept,
             HollowInv', hollow' \subseteq Key
      PROVE  IInv'
  <2>1. call'[t] = c
    BY <1>6, Zenon DEF IInv, TypeOK
  <2>2. PointerInv(t)'
    BY <1>1, <1>2, <1>3, <1>6, <2>1 DEF PointerInv, CanReach, Exclusive, Shared, ReadGuards
  <2>3. CallInv(t)'
    BY <1>1, <1>6, <2>1, Zenon DEF CallInv, Passive, Readers, Writers, Iterators
  <2>4. CacheInv(t)'
    BY <1>5, <1>6, <2>1, Zenon DEF CacheInv
  <2>5. ThreadInv(t)'
    BY <2>2, <2>3, <2>4 DEF ThreadInv
  <2> QED BY <1>2, <1>4, <1>6, <2>5, LocksAlone, QuietStep, Zenon
<1>7. ASSUME NEW k \in Key, AlterItem(t, k) PROVE IInv'
  <2> DEFINE c == [call[t] EXCEPT !.todo = @ \ {k}, !.seen = @ \cup {k}, !.kept = {k}]
  <2>1. call' = [call EXCEPT ![t] = c]
    BY <1>7, Zenon DEF AlterItem, IInv, TypeOK
  <2>2. /\ c \in Call
        /\ c.op = call[t].op /\ c.at = call[t].at /\ c.shard_i = call[t].shard_i
        /\ c.todo = call[t].todo \ {k} /\ c.kept = {k}
    BY CallType, Zenon DEF Call, IInv
  <2> HIDE DEF c
  <2>3. /\ call[t].op = "alter_all" /\ k \in call[t].todo /\ call[t].kept = {}
        /\ held' = held /\ hollow' = hollow \cup {k}
    BY <1>7, Zenon DEF AlterItem
  <2>4. call'[t] = c /\ \A u \in Thread \ {t} : call'[u] = call[u]
    BY <2>1 DEF IInv, TypeOK
  <2>5. ASSUME NEW x \in hollow' PROVE \E u \in Thread : Altering(u)' /\ x \in call'[u].kept
    <3>1. CASE x = k
      BY <2>2, <2>3, <2>4, <3>1 DEF Altering
    <3>2. CASE x \in hollow
      <4>1. PICK u \in Thread : Altering(u) /\ x \in call[u].kept
        BY <3>2 DEF HollowInv, IInv
      <4>2. u # t /\ call'[u] = call[u]
        BY <2>3, <2>4, <4>1
      <4> QED BY <4>1, <4>2 DEF Altering
    <3> QED BY <2>3, <3>1, <3>2
  <2>6. HollowInv' /\ hollow' \subseteq Key
    BY <2>3, <2>5, Zenon DEF HollowInv, IInv, TypeOK
  <2> QED BY <1>6, <2>1, <2>2, <2>3, <2>6, Zenon
<1>8. CASE AlterDone(t)
  <2>1. hollow' = hollow \ call[t].kept
    BY <1>8 DEF AlterDone
  <2>2. ASSUME NEW c, call' = [call EXCEPT ![t] = c]
        PROVE  HollowInv' /\ hollow' \subseteq Key
    <3>1. \A u \in Thread \ {t} : call'[u] = call[u]
      BY <2>2 DEF IInv, TypeOK
    <3>2. ASSUME NEW x \in hollow' PROVE \E u \in Thread : Altering(u)' /\ x \in call'[u].kept
      <4>1. PICK u \in Thread : Altering(u) /\ x \in call[u].kept
        BY <2>1 DEF HollowInv, IInv
      <4>2. u # t /\ call'[u] = call[u]
        BY <2>1, <3>1, <4>1
      <4> QED BY <4>1, <4>2 DEF Altering
    <3> QED BY <2>1, <3>2 DEF HollowInv, IInv, TypeOK
  <2>3. CASE call[t].op = "alter"
    <3>1. /\ call' = [call EXCEPT ![t] = Holding("idle", {})]
          /\ held' = [held EXCEPT ![t] = NoGuards]
      BY <1>8, <2>3 DEF AlterDone, Unlock, Now, Idle
    <3>2. Holding("idle", {}) \in Call
      BY NewCall
    <3>3. /\ NoGuards \in [Shard -> {"none", "read", "write"}]
          /\ \A x \in Shard : Allowed(t, x, NoGuards[x])
      BY DEF NoGuards, Allowed
    <3>4. ThreadInv(t)'
      BY <1>5, <3>1, HoldingInv, Zenon DEF Exclusive, Shared, ReadGuards, WriteGuards
    <3>5. HollowInv' /\ hollow' \subseteq Key
      BY <2>2, <3>1, Zenon
    <3> QED BY <1>2, <1>4, <3>1, <3>2, <3>3, <3>4, <3>5, QuietStep, Zenon
  <2>4. CASE call[t].op = "alter_all"
    <3> DEFINE c == [call[t] EXCEPT !.kept = {}]
    <3>1. call' = [call EXCEPT ![t] = c] /\ held' = held
      BY <1>8, <2>4 DEF AlterDone, IInv, TypeOK
    <3>2. /\ c \in Call
          /\ c.op = call[t].op /\ c.at = call[t].at /\ c.shard_i = call[t].shard_i
          /\ c.todo = call[t].todo /\ c.kept = {}
      BY CallType DEF Call, IInv
    <3> HIDE DEF c
    <3>3. HollowInv' /\ hollow' \subseteq Key
      BY <2>2, <3>1, Zenon
    <3> QED BY <1>6, <2>4, <3>1, <3>2, <3>3, Zenon
  <2> QED BY <1>2, <2>3, <2>4
<1> QED BY <1>7, <1>8

-----------------------------------------------------------------------------
(* The cache as one value.                                                 *)

(* A reader of a ReadOnlyView takes a reference, or comes to a shard.      *)
LEMMA ViewStep ==
  ASSUME IInv, NEW t \in Thread, Running, (\E k \in Key : ViewGet(t, k)) \/ ViewShard(t)
  PROVE  IInv'
<1>1. UNCHANGED <<content, stayed, came, dangling, cache, held, hollow>>
  BY Zenon DEF ViewGet, ViewShard, table
<1>2. Resident' = Resident
  BY <1>1 DEF Resident
<1>3. stayed' \in [Thread -> SUBSET Key] /\ came' \in [Thread -> SUBSET Key]
  BY <1>1 DEF IInv, TypeOK
<1>4. ASSUME NEW k \in Key, ViewGet(t, k) PROVE IInv'
  <2> DEFINE ks == {k}
  <2>1. /\ call[t] = Idle /\ cache = "view" /\ ks \in SUBSET Key /\ ks \subseteq Resident'
        /\ call' = [call EXCEPT ![t] = Holding("refs", ks)]
    BY <1>2, <1>4 DEF ViewGet, Now, Resident
  <2> HIDE DEF ks
  <2>2. Holding("refs", ks) \in Call
    BY <2>1, NewCall DEF ReadGuards
  <2>3. ThreadInv(t)'
    BY <1>1, <2>1, HoldingInv, Zenon DEF Exclusive, ReadGuards, WriteGuards, InView
  <2>4. ~Altering(t)
    BY <2>1, EntersFacts
  <2> QED BY <1>1, <1>3, <2>1, <2>2, <2>3, <2>4, OwnStep, Zenon
<1>5. CASE ViewShard(t)
  <2> DEFINE i == call[t].shard_i
             c == [call[t] EXCEPT !.shard_i = i + 1, !.todo = content[i]]
  <2>1. call[t].op = "view_iter" /\ i \in 0..ShardCount /\ i < ShardCount
    BY <1>5, CallType DEF ViewShard, IInv
  <2>2. i + 1 \in 0..ShardCount /\ content[i] \subseteq Key /\ content[i] \subseteq Resident
    BY <2>1, NeoCacheAssumption DEF IInv, TypeOK, Shard, Resident
  <2>3. call' = [call EXCEPT ![t] = c] /\ call'[t] = c
    BY <1>5, Zenon DEF ViewShard, IInv, TypeOK
  <2>4. /\ c \in Call
        /\ c.op = call[t].op /\ c.at = call[t].at /\ c.todo = content[i] /\ c.kept = call[t].kept
    BY <2>2, CallType, Zenon DEF Call, IInv
  <2> HIDE DEF c
  <2>5. PointerInv(t) /\ CallInv(t) /\ CacheInv(t)
    BY DEF IInv
  <2>6. PointerInv(t)'
    BY <1>2, <2>1, <2>2, <2>3, <2>4, <2>5
       DEF PointerInv, CanReach, Exclusive, Shared, ReadGuards, WriteGuards
  <2>7. CallInv(t)'
    BY <2>1, <2>3, <2>4, <2>5, Zenon DEF CallInv, Passive, Readers, Writers, Iterators, Unlocked
  <2>8. CacheInv(t)'
    BY <1>1, <2>3, <2>4, <2>5 DEF CacheInv
  <2>9. ThreadInv(t)' /\ ~Altering(t)
    BY <2>1, <2>6, <2>7, <2>8 DEF ThreadInv, Altering
  <2> QED BY <1>1, <1>3, <2>3, <2>4, <2>9, OwnStep, Zenon
<1> QED BY <1>4, <1>5

(* An OwningIter takes a shard.                                            *)
LEMMA TakeStep ==
  ASSUME IInv, NEW t \in Thread, Running, TakeShard(t)
  PROVE  IInv'
<1> DEFINE i == call[t].shard_i
           c == [call[t] EXCEPT !.shard_i = i + 1, !.todo = content[i]]
           none == {}
<1>1. /\ call[t].op = "into_iter" /\ i < ShardCount /\ CanWrite(i) /\ ChangeShard(i, none)
      /\ UNCHANGED <<dangling, cache, held, hollow>>
  BY DEF TakeShard
<1>2. i \in Shard /\ i + 1 \in 0..ShardCount /\ content[i] \subseteq Key
  <2>1. i \in 0..ShardCount
    BY CallType DEF IInv
  <2>2. i \in Shard /\ i + 1 \in 0..ShardCount
    BY <1>1, <2>1, NeoCacheAssumption DEF Shard
  <2> QED BY <2>2 DEF IInv, TypeOK
<1>3. call' = [call EXCEPT ![t] = c] /\ call'[t] = c
  BY Zenon DEF TakeShard, IInv, TypeOK
<1>4. /\ c \in Call
      /\ c.op = "into_iter" /\ c.at = call[t].at /\ c.kept = call[t].kept
  BY <1>1, <1>2, CallType, Zenon DEF Call, IInv
<1> HIDE DEF c
<1>5. PointerInv(t) /\ CallInv(t) /\ CacheInv(t)
  BY DEF IInv
<1>6. cache # "view" /\ cache' = cache /\ hollow' = hollow /\ dangling' = {} /\ ~Altering(t)
  BY <1>1, <1>5 DEF CacheInv, InView, Altering, IInv
<1>7. PointerInv(t)'
  BY <1>3, <1>4 DEF PointerInv, CanReach, Exclusive, Shared, ReadGuards, WriteGuards
<1>8. CallInv(t)'
  BY <1>1, <1>3, <1>4, <1>5 DEF CallInv, Passive, Readers, Writers, Iterators, Unlocked
<1>9. CacheInv(t)'
  BY <1>1, <1>3, <1>4, <1>5, <1>6 DEF CacheInv
<1>10. ThreadInv(t)'
  BY <1>7, <1>8, <1>9 DEF ThreadInv
<1>11. /\ held[t] \in [Shard -> {"none", "read", "write"}]
       /\ held' = [held EXCEPT ![t] = held[t]]
       /\ \A x \in Shard : held[t][x] \in {"none", held[t][x]}
  BY <1>1, LocksAlone
<1>12. \A u \in Thread \ {t} : held[u][i] = "none"
  BY <1>1 DEF CanWrite
<1>13. none \in SUBSET Key /\ \A x \in none : ShardOf[x] = i
  OBVIOUS
<1> HIDE DEF i, none
<1> QED BY <1>1, <1>2, <1>3, <1>4, <1>6, <1>10, <1>11, <1>12, <1>13, ChangeStep, Zenon

(* The steps that replace the cache as a whole: nobody else has pointers.  *)
LEMMA WholeStep ==
  ASSUME Inv,
         \/ IntoReadOnly \/ IntoInner
         \/ \E t \in Thread : IntoIter(t) \/ DropOwningIter(t)
  PROVE  IInv'
<1>1. ASSUME content' \in [Shard -> SUBSET Key],
             \A s \in Shard : \A k \in content'[s] : ShardOf[k] = s,
             cache' \in {"shared", "view", "consumed"},
             call' \in [Thread -> Call], came' \in [Thread -> SUBSET Key],
             UNCHANGED <<held, hollow, stayed, dangling>>,
             \A t \in Thread : ~Altering(t),
             \A t \in Thread :
               /\ call'[t].todo = {} /\ call'[t].kept = {} /\ call'[t].at = "caller"
               /\ CacheInv(t)'
      PROVE  IInv'
  <2>1. TypeOK'
    BY <1>1 DEF IInv, Inv, TypeOK
  <2>2. LockInv' /\ dangling' = {}
    BY <1>1 DEF IInv, Inv, LockInv
  <2>3. hollow = {}
    BY <1>1 DEF IInv, Inv, HollowInv
  <2>4. HollowInv'
    BY <1>1, <2>3 DEF HollowInv
  <2>5. \A t \in Thread : ThreadInv(t)'
    BY <1>1, EmptyInv
  <2> QED BY <2>1, <2>2, <2>4, <2>5 DEF IInv, ThreadInv
<1>2. /\ Idle \in Call /\ Sweep("into_iter") \in Call
      /\ Idle.op = "idle" /\ Idle.todo = {} /\ Idle.kept = {} /\ Idle.at = "caller"
      /\ Sweep("into_iter").op = "into_iter" /\ Sweep("into_iter").todo = {}
      /\ Sweep("into_iter").kept = {} /\ Sweep("into_iter").at = "caller"
  BY NeoCacheAssumption DEF Idle, Sweep, Holding, Call, Sweeps, Unlocked
<1>3. TypeOK /\ content \in [Shard -> SUBSET Key]
      /\ \A s \in Shard : \A k \in content[s] : ShardOf[k] = s
  BY DEF Inv, IInv, TypeOK
<1>4. CASE IntoReadOnly \/ IntoInner
  <2>1. /\ \A t \in Thread : call[t] = Idle
        /\ cache' \in {"shared", "view"}
        /\ UNCHANGED <<content, stayed, came, dangling, held, call, hollow>>
    BY <1>4 DEF IntoReadOnly, IntoInner, AllIdle, table
  <2>2. \A t \in Thread : CacheInv(t)' /\ ~Altering(t)
    BY <1>2, <2>1, Zenon DEF CacheInv, InView, Altering
  <2>3. call' \in [Thread -> Call] /\ came' \in [Thread -> SUBSET Key]
    BY <1>3, <2>1 DEF TypeOK
  <2> QED BY <1>1, <1>2, <1>3, <2>1, <2>2, <2>3
<1>5. ASSUME NEW t \in Thread, IntoIter(t) PROVE IInv'
  <2>1. /\ \A u \in Thread : call[u] = Idle
        /\ cache' = "consumed"
        /\ call' = [call EXCEPT ![t] = Sweep("into_iter")]
        /\ came' = [came EXCEPT ![t] = In(content)]
        /\ UNCHANGED <<content, stayed, dangling, held, hollow>>
    BY <1>5 DEF IntoIter, AllIdle, Now
  <2>2. call' \in [Thread -> Call] /\ came' \in [Thread -> SUBSET Key]
    BY <1>2, <1>3, <2>1, InContent DEF TypeOK, Resident
  <2>3. \A u \in Thread : call'[u] = IF u = t THEN Sweep("into_iter") ELSE Idle
    BY <1>3, <2>1 DEF TypeOK
  <2>4. \A u \in Thread : CacheInv(u)' /\ ~Altering(u)
    BY <1>2, <2>1, <2>3 DEF CacheInv, Altering
  <2> QED BY <1>1, <1>2, <1>3, <2>1, <2>2, <2>3, <2>4, Zenon
<1>6. ASSUME NEW t \in Thread, DropOwningIter(t) PROVE IInv'
  <2>1. /\ call[t].op = "into_iter"
        /\ content' = [s \in Shard |-> {}] /\ cache' = "shared"
        /\ call' = [call EXCEPT ![t] = Idle]
        /\ came' = [came EXCEPT ![t] = {}]
        /\ UNCHANGED <<stayed, dangling, held, hollow>>
    BY <1>6 DEF DropOwningIter, Now
  <2>2. ASSUME NEW u \in Thread \ {t}
        PROVE  /\ call[u].op = "idle" /\ call[u].todo = {} /\ call[u].kept = {}
               /\ call[u].at = "caller"
    <3>1. cache = "consumed"
      BY <2>1 DEF Inv, IInv, CacheInv
    <3>2. call[u].op = "idle"
      BY <2>1, <3>1 DEF Inv, IInv, CacheInv, OneOwner
    <3> QED BY <3>2, PassiveFacts DEF Inv, Passive
  <2>3. call' \in [Thread -> Call] /\ came' \in [Thread -> SUBSET Key]
    BY <1>2, <1>3, <2>1 DEF TypeOK
  <2>4. call'[t] = Idle /\ \A u \in Thread \ {t} : call'[u] = call[u]
    BY <1>3, <2>1 DEF TypeOK
  <2>5. \A u \in Thread :
          /\ call'[u].op = "idle" /\ call'[u].todo = {} /\ call'[u].kept = {}
          /\ call'[u].at = "caller" /\ ~Altering(u)
    BY <1>2, <2>1, <2>2, <2>4 DEF Altering
  <2>6. \A u \in Thread : CacheInv(u)'
    BY <2>1, <2>5 DEF CacheInv
  <2>7. content' \in [Shard -> SUBSET Key] /\ \A s \in Shard : \A k \in content'[s] : ShardOf[k] = s
    BY <2>1
  <2> QED BY <1>1, <2>1, <2>3, <2>5, <2>6, <2>7
<1> QED BY <1>4, <1>5, <1>6

(* A closure panics in alter, and the process is gone.                     *)
LEMMA AbortStep ==
  ASSUME IInv, NEW t \in Thread, Running, AlterPanics(t)
  PROVE  IInv'
<1>1. /\ call[t].op \in {"alter", "alter_all"} /\ cache' = "aborted"
      /\ UNCHANGED <<content, stayed, came, dangling, held, call, hollow>>
  BY DEF AlterPanics, Altering, table
<1>2. cache \notin {"view", "consumed"}
  BY <1>1 DEF IInv, CacheInv, InView
<1>3. TypeOK' /\ LockInv' /\ dangling' = {}
  BY <1>1 DEF IInv, TypeOK, LockInv
<1>4. HollowInv'
  BY <1>1 DEF IInv, HollowInv, Altering
<1>5. Resident' = Resident
  BY <1>1 DEF Resident
<1>6. ASSUME NEW u \in Thread PROVE PointerInv(u)' /\ CallInv(u)' /\ CacheInv(u)'
  <2>1. PointerInv(u) /\ CallInv(u) /\ CacheInv(u)
    BY DEF IInv
  <2>2. PointerInv(u)'
    BY <1>1, <1>2, <1>5, <2>1 DEF PointerInv, CanReach
  <2>3. CallInv(u)'
    BY <1>1, <2>1, Zenon DEF CallInv
  <2>4. CacheInv(u)'
    BY <1>1, <1>2, <2>1 DEF CacheInv
  <2> QED BY <2>2, <2>3, <2>4
<1> QED BY <1>3, <1>4, <1>6 DEF IInv

-----------------------------------------------------------------------------
(* The steps put together, and what follows from the invariant.            *)

(* A new cache has no entries, and no thread is in it.                     *)
LEMMA InitInv == Init => Inv
<1> SUFFICES ASSUME Init PROVE Inv
  OBVIOUS
<1>1. /\ Idle \in Call
      /\ Idle.op = "idle" /\ Idle.todo = {} /\ Idle.kept = {} /\ Idle.at = "caller"
  BY NeoCacheAssumption DEF Idle, Holding, Call
<1>2. \A t \in Thread : call[t] = Idle
  BY DEF Init
<1>3. TypeOK
  BY <1>1 DEF Init, TypeOK, NoGuards
<1>4. LockInv /\ HollowInv /\ dangling = {} /\ cache = "shared"
  BY DEF Init, LockInv, HollowInv, NoGuards
<1>5. ASSUME NEW t \in Thread PROVE PointerInv(t) /\ CallInv(t) /\ CacheInv(t)
  BY <1>1, <1>2, <1>4 DEF PointerInv, CallInv, CacheInv, CanReach
<1>6. OneOwner
  BY <1>1, <1>2 DEF OneOwner
<1> QED BY <1>3, <1>4, <1>5, <1>6 DEF Inv, IInv

(* Every step keeps the locks behind the pointers.                         *)
LEMMA StepInv == Inv /\ [Next]_vars => IInv'
<1> SUFFICES ASSUME Inv, [Next]_vars PROVE IInv'
  OBVIOUS
<1>1. IInv
  BY DEF Inv
<1>2. CASE UNCHANGED vars
  <2>1. UNCHANGED <<content, stayed, came, dangling, cache, held, call, hollow>>
    BY <1>2 DEF vars, table
  <2>2. TypeOK' /\ LockInv' /\ dangling' = {}
    BY <1>1, <2>1 DEF IInv, TypeOK, LockInv
  <2>3. HollowInv'
    BY <1>1, <2>1 DEF IInv, HollowInv, Altering
  <2>4. Resident' = Resident
    BY <2>1 DEF Resident
  <2>5. ASSUME NEW t \in Thread PROVE ThreadInv(t)'
    <3>1. CanReach(t) \subseteq Resident /\ (call[t].op = "vacant" => call[t].kept \cap Resident = {})
      BY <1>1 DEF IInv, PointerInv
    <3> QED BY <1>1, <2>1, <2>4, <3>1, OthersKeep
  <2> QED BY <2>2, <2>3, <2>5 DEF IInv, ThreadInv
<1>3. ASSUME NEW t \in Thread, Running, Enter(t) PROVE IInv'
  BY <1>1, <1>3, InsertStep, GetStep, ViewStep, BeginStep, WholeStep, Zenon DEF Enter
<1>4. ASSUME NEW t \in Thread, Running, Proceed(t) PROVE IInv'
  <2>1. ReadShard(t) \/ SerializeMap(t) \/ WriteShard(t) => IInv'
    BY <1>1, <1>4, ReadStep, WriteStep, Zenon
  <2>2. CallNext(t) \/ NextShard(t) \/ ViewShard(t) \/ TakeShard(t) => IInv'
    BY <1>1, <1>4, CallNextStep, NextShardStep, ViewStep, TakeStep, Zenon
  <2>3. ASSUME NEW k \in Key, AlterItem(t, k) \/ \E keep \in BOOLEAN : Yield(t, k, keep)
        PROVE  IInv'
    BY <1>1, <1>4, <2>3, AlterStep, YieldStep, Zenon
  <2>4. AlterDone(t) \/ EndSweep(t) => IInv'
    BY <1>1, <1>4, AlterStep, EndStep, Zenon
  <2>5. DropOwningIter(t) \/ Release(t) => IInv'
    BY <1>1, <1>4, WholeStep, GuardStep, Zenon
  <2> QED BY <1>4, <2>1, <2>2, <2>3, <2>4, <2>5, Zenon DEF Proceed
<1>5. ASSUME NEW t \in Thread, Running, UseGuard(t) \/ Panic(t) PROVE IInv'
  <2>1. UseGuard(t) => IInv'
    BY <1>1, <1>5, EntryStep, GuardStep, DropItemStep, Zenon DEF UseGuard
  <2>2. Panic(t) => IInv'
    BY <1>1, <1>5, EntryStep, WriteStep, AbortStep, Zenon DEF Panic
  <2> QED BY <1>5, <2>1, <2>2
<1>6. Aborted => IInv'
  BY <1>2 DEF Aborted
<1>7. IntoReadOnly \/ IntoInner => IInv'
  BY WholeStep
<1> QED BY <1>2, <1>3, <1>4, <1>5, <1>6, <1>7, Zenon DEF Next

(* A pointer with a lock behind it stays good.                             *)
LEMMA LocksPin == Inv => GuardsPin
<1> SUFFICES ASSUME Inv PROVE GuardsPin
  OBVIOUS
<1>1. IInv /\ TypeOK /\ dangling = {}
  BY DEF Inv, IInv
<1>2. In(content) = Resident
  BY <1>1, InContent
<1>3. \A t \in Thread : PointerInv(t)
  BY <1>1 DEF IInv
<1> QED BY <1>1, <1>2, <1>3 DEF PointerInv, GuardsPin

(* Two pointers to an entry that can be written have one lock between them.*)
LEMMA LocksSeparate == Inv => NoAliasing
<1> SUFFICES ASSUME Inv, NEW t \in Thread, NEW u \in Thread, t # u,
                    NEW k \in CanWriteTo(t), k \in CanReach(u)
             PROVE  FALSE
  BY DEF NoAliasing
<1>1. IInv /\ call[t].op \in Exclusive /\ k \in call[t].todo \cup call[t].kept
  BY DEF Inv, CanWriteTo, CanReach, Exclusive
<1>2. held[t][ShardOf[k]] = "write"
  BY <1>1 DEF IInv, PointerInv
<1>3. k \in Key /\ ShardOf[k] \in Shard
  BY <1>1, CallType, NeoCacheAssumption DEF IInv
<1>4. \A x \in Thread \ {t} : held[x][ShardOf[k]] = "none"
  BY <1>1, <1>2, <1>3 DEF IInv, LockInv
<1>5. cache # "view"
  BY <1>1 DEF IInv, CacheInv, InView, Exclusive, WriteGuards
<1> QED BY <1>1, <1>3, <1>4, <1>5, NoReach

(* What alter has moved out is out of reach for the others.                *)
LEMMA LocksHide == Inv /\ NoAliasing => MovedOutUnseen
<1> SUFFICES ASSUME Inv, NoAliasing, NEW k \in hollow
             PROVE  \E t \in Thread : /\ Altering(t) /\ k \in call[t].kept
                                      /\ \A u \in Thread \ {t} : k \notin CanReach(u)
  BY DEF MovedOutUnseen
<1>1. PICK t \in Thread : Altering(t) /\ k \in call[t].kept
  BY DEF Inv, IInv, HollowInv
<1>2. k \in CanWriteTo(t)
  BY <1>1 DEF CanWriteTo, CanReach, Altering
<1> QED BY <1>1, <1>2 DEF NoAliasing
=============================================================================
