-------------------------- MODULE ShardRefinement --------------------------
(* A shard implements a bounded map: forget the queues, the counters, the  *)
(* ghost set and the frequencies, and the eviction sweep becomes the single*)
(* entry an insertion gives up.                                            *)
EXTENDS Shard

Content == [k \in Live |-> map[k].value]
Pending == IF pc = "idle" THEN <<>>
           ELSE <<op.key, op.value, IF evicted = {} THEN 1 ELSE 0>>

Map == INSTANCE BoundedMap
         WITH Cap <- ShardCap, content <- Content, pending <- Pending

(* Every step of a shard is a step of the bounded map, or leaves the map   *)
(* as it is: get, insert, remove, retain, clear and the eviction sweep     *)
(* neither lose nor invent a value, and the capacity is respected at every *)
(* insertion.                                                              *)
ImplementsBoundedMap == Map!BSpec
=============================================================================
