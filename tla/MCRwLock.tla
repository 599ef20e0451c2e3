------------------------------ MODULE MCRwLock ------------------------------
(* Instances of RwLock for TLC.                                            *)
EXTENDS RwLockRefinement, TLC

ThreadSymmetry == Permutations(Thread)
=============================================================================
