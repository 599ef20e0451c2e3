-------------------------- MODULE RwLockRefinement --------------------------
(* The lock of a shard implements a shared lock: forget the word and the   *)
(* parking, and look only at who is past its acquisition and not yet past  *)
(* its release.                                                            *)
EXTENDS RwLock

Mode ==
  [t \in Thread |-> CASE t \in HoldsWrite -> "write"
                      [] t \in HoldsRead -> "read"
                      [] OTHER -> "none"]

Lock == INSTANCE SharedLock WITH mode <- Mode

(* Every step of RawRwLock acquires, downgrades or releases the lock as a  *)
(* shared lock allows, or leaves it as it is: no compare-and-swap, plain   *)
(* store or wakeup hands the lock to one thread while another has it.      *)
ImplementsSharedLock == Lock!LSpec
=============================================================================
