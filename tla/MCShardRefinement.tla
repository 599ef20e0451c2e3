------------------------- MODULE MCShardRefinement -------------------------
(* An instance of ShardRefinement for TLC.                                 *)
EXTENDS ShardRefinement

(* All keys have the same hash.                                            *)
CollidingHash == [k \in Key |-> CHOOSE j \in Key : TRUE]
=============================================================================
