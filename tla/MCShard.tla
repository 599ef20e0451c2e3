------------------------------ MODULE MCShard ------------------------------
(* Instances of Shard for TLC.                                             *)
EXTENDS Shard, TLC

(* Hashes are the keys themselves.                                         *)
DistinctHash == [k \in Key |-> k]

KeySymmetry == Permutations(Key)
=============================================================================
