----------------------------- MODULE MCNeoCache -----------------------------
(* Instances of NeoCache for TLC.                                          *)
EXTENDS NeoCache, TLC

CONSTANTS a, b, c

(* Two keys share the first shard, and one has the second for itself.      *)
TwoAndOne == a :> 0 @@ b :> 0 @@ c :> 1

(* A key for the first shard and one for the last; the one between them    *)
(* stays empty.                                                            *)
FirstAndLast == a :> 0 @@ b :> 2

(* Threads are alike, and so are keys that share a shard.                  *)
Symmetry == Permutations(Thread) \cup Permutations({a, b})
=============================================================================
