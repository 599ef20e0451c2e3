--------------------------- MODULE NeoCacheProofs ---------------------------
(***************************************************************************)
(* What holds in every run of module NeoCache, for any number of threads,  *)
(* keys and shards.  The steps are in NeoCacheStepProofs (the locks behind *)
(* the pointers), NeoCacheSweepProofs (sweeps) and NeoCacheLockProofs (the *)
(* order of the locks, the way of a call to its end, the owner).           *)
(***************************************************************************)
EXTENDS NeoCacheStepProofs, NeoCacheSweepProofs, NeoCacheLockProofs, FiniteSetTheorems

(* In every run a lock stands behind every pointer that a guard, an        *)
(* iterator or a kept item has, and a cache has at most one owner.         *)
THEOREM InvHolds == Spec => []Inv
<1>1. Inv /\ UNCHANGED vars => OneOwner'
  BY DEF Inv, OneOwner, vars
<1>2. Inv /\ Next => OneOwner'
  BY OwnerStep, Zenon
<1>3. IInv' /\ OneOwner' => Inv'
  BY DEF Inv
<1> QED BY <1>1, <1>2, <1>3, InitInv, StepInv, PTL DEF Spec

(* The state of the cache keeps its shape; above all, a key is only ever   *)
(* in the shard that determine_shard gives for its hash.                   *)
THEOREM TypeCorrect == Spec => []TypeOK
<1>1. Inv => TypeOK
  BY DEF Inv, IInv
<1> QED BY <1>1, InvHolds, PTL

(* The entry behind a guard, an iterator or a reference from a view is     *)
(* neither removed nor moved, and nobody inserts the key of a VacantEntry. *)
THEOREM EntriesStayPinned == Spec => []GuardsPin
BY InvHolds, LocksPin, PTL

(* An entry that one thread can write, no other thread can reach, though   *)
(* items outlive their iterators and views hand out references unlocked.   *)
THEOREM NothingAliased == Spec => []NoAliasing
BY InvHolds, LocksSeparate, PTL

(* A value that alter or alter_all has moved out is not seen by any other  *)
(* thread, whether the closure returns or panics.                          *)
THEOREM MovedOutStaysUnseen == Spec => []MovedOutUnseen
BY InvHolds, NothingAliased, LocksHide, PTL

(* In every run, a sweep has found what stayed in the shards behind it,    *)
(* and nothing that never was there.                                       *)
THEOREM SweepInvHolds == Spec => []SInv
BY InvHolds, InitSweeps, StepSweeps, PTL DEF Spec

(* len, clone, the iterators, clear and into_iter end as they promise,     *)
(* whatever other threads do meanwhile.                                    *)
THEOREM SweepsAreExact == Spec => []SweepExact
BY SweepInvHolds, SweepsEnd, PTL

(* With finitely many keys, the length that serialize announces and the    *)
(* number of entries it writes are both between the number of keys that    *)
(* stayed and the number of those that came.                               *)
THEOREM HintsAreBracketed ==
  ASSUME IsFiniteSet(Key)
  PROVE  Spec => []HintBracketed
<1>1. SInv /\ SweepExact => HintBracketed
  <2> SUFFICES ASSUME SInv, SweepExact, NEW t \in Thread, Done(t), call[t].op = "serialize"
               PROVE  /\ call[t].hint \in Cardinality(stayed[t])..Cardinality(came[t])
                      /\ Cardinality(call[t].seen) \in Cardinality(stayed[t])..Cardinality(came[t])
    BY DEF HintBracketed
  <2>1. /\ stayed[t] \subseteq Key /\ came[t] \subseteq Key /\ call[t].seen \subseteq Key
        /\ stayed[t] \subseteq call[t].seen /\ call[t].seen \subseteq came[t]
        /\ \E keys \in SUBSET Key : /\ call[t].hint = Cardinality(keys)
                                     /\ stayed[t] \subseteq keys /\ keys \subseteq came[t]
    BY HintFacts, Zenon
  <2>2. ASSUME NEW keys \in SUBSET Key, stayed[t] \subseteq keys, keys \subseteq came[t]
        PROVE  Cardinality(keys) \in Cardinality(stayed[t])..Cardinality(came[t])
    <3>1. IsFiniteSet(came[t])
      BY <2>1, FS_Subset, Zenon
    <3>2. IsFiniteSet(keys) /\ IsFiniteSet(stayed[t])
      <4>1. stayed[t] \subseteq came[t]
        BY <2>1
      <4> QED BY <2>2, <3>1, <4>1, FS_Subset, Zenon
    <3>3. /\ Cardinality(stayed[t]) \in Nat /\ Cardinality(keys) \in Nat
          /\ Cardinality(came[t]) \in Nat
      BY <3>1, <3>2, FS_CardinalityType, Zenon
    <3>4. Cardinality(stayed[t]) <= Cardinality(keys)
      BY <2>2, <3>2, FS_Subset, Zenon
    <3>5. Cardinality(keys) <= Cardinality(came[t])
      BY <2>2, <3>1, FS_Subset, Zenon
    <3> QED BY <3>3, <3>4, <3>5
  <2> QED BY <2>1, <2>2
<1> QED BY <1>1, SweepInvHolds, SweepsAreExact, PTL

(* Every guard is taken, downgraded and dropped as the lock of its shard   *)
(* allows: by gets, entries, iterators with kept items, panics and drops.  *)
THEOREM GuardsFollowLocks == Spec => LocksObeyed
BY InvHolds, LocksFree, StepIsLockStep, PTL DEF Spec, LocksObeyed

(* In every run, guards are taken in the order of the shards.              *)
THEOREM OrderHolds == Spec => []OInv
BY InvHolds, InitOrder, StepOrder, PTL DEF Spec

(* No call waits in a circle, for any number of threads and shards: the    *)
(* one that has come farthest waits for a shard that none of the others    *)
(* has come to.                                                            *)
THEOREM NobodyWaitsInACircle == Spec => []NoCircularWait
BY OrderHolds, OrderBreaksCircles, PTL

(* Every step of a call brings its end nearer, whatever the calls of other *)
(* threads do.                                                             *)
THEOREM EveryCallAdvances == Spec => CallsAdvance
BY TypeCorrect, StepAdvances, PTL DEF Spec, CallsAdvance
=============================================================================
