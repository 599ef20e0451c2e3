------------------------- MODULE NeoCacheInvariants -------------------------
(***************************************************************************)
(* The inductive invariant of module NeoCache.                             *)
(*                                                                         *)
(* GuardsPin and NoAliasing are about entries and say nothing of locks, so *)
(* they are not inductive.  ThreadInv says which lock stands behind every  *)
(* pointer a thread has: the write lock of the entry's shard, its read     *)
(* lock, or, for a ReadOnlyView, that no thread can write at all.          *)
(***************************************************************************)
EXTENDS NeoCache

Exclusive == WriteGuards \cup {"alter", "alter_all", "iter_mut"}
Shared == ReadGuards \cup {"iter", "serialize"}
Passive == {"idle"} \cup Readers \cup Writers
InView == {"idle", "len", "clone", "refs", "view_iter"}

Resident == {k \in Key : k \in content[ShardOf[k]]}

LockInv ==
  \A t, u \in Thread, s \in Shard :
    t # u /\ held[t][s] = "write" => held[u][s] = "none"

PointerInv(t) ==
  /\ CanReach(t) \subseteq Resident
  /\ call[t].op = "vacant" => call[t].kept \cap Resident = {}
  /\ call[t].op \in Exclusive =>
       \A k \in call[t].todo \cup call[t].kept : held[t][ShardOf[k]] = "write"
  /\ call[t].op \in Shared =>
       \A k \in call[t].todo \cup call[t].kept :
         \/ held[t][ShardOf[k]] = "read"
         \/ call[t].op = "refs" /\ cache = "view"

CallInv(t) ==
  /\ call[t].op \in Passive => call[t].kept = {}
  /\ call[t].op = "vacant" => \A j, k \in call[t].kept : j = k
  /\ call[t].op \notin Iterators \cup Unlocked => call[t].todo = {}
  /\ call[t].op \in Iterators =>
       \A k \in call[t].todo : call[t].shard_i > 0 /\ ShardOf[k] = call[t].shard_i - 1
  /\ call[t].at = "next" =>
       /\ call[t].op \in Iterators
       /\ call[t].todo = {}
       /\ call[t].shard_i < ShardCount

CacheInv(t) ==
  /\ cache = "view" => call[t].op \in InView
  /\ cache = "consumed" => call[t].op \in {"idle", "into_iter"}
  /\ call[t].op = "view_iter" => cache = "view"
  /\ call[t].op = "into_iter" => cache = "consumed"

HollowInv ==
  \A k \in hollow : \E t \in Thread : Altering(t) /\ k \in call[t].kept

IInv ==
  /\ TypeOK
  /\ LockInv
  /\ \A t \in Thread : PointerInv(t) /\ CallInv(t) /\ CacheInv(t)
  /\ HollowInv
  /\ dangling = {}

ThreadInv(t) == PointerInv(t) /\ CallInv(t) /\ CacheInv(t)

(* Only one thread can have taken the cache by value.                      *)
OneOwner ==
  \A t, u \in Thread : call[t].op = "into_iter" /\ call[u].op = "into_iter" => t = u

Inv == IInv /\ OneOwner

(* What a thread may turn its guard on shard s into.                       *)
Allowed(t, s, mode) ==
  \/ mode \in {"none", held[t][s]}
  \/ mode = "read" /\ (CanRead(s) \/ held[t][s] = "write")
  \/ mode = "write" /\ CanWrite(s)
=============================================================================
