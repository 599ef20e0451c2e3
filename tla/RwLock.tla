------------------------------- MODULE RwLock -------------------------------
(***************************************************************************)
(* The reader-writer lock of a shard: RawRwLock (src/src/lock.rs).         *)
(*                                                                         *)
(* The lock is one atomic word: a count in the high bits, all ones when a  *)
(* writer has the lock and else the number of readers, and two flags that  *)
(* tell that readers or writers are parked.  Threads park in two FIFO      *)
(* queues of parking_lot_core, which validates and enqueues in one step.   *)
(*                                                                         *)
(* A round of a compare-and-swap loop takes effect at its last access to   *)
(* the word, so it is one step here; a round that fails leaves everything  *)
(* as it was, and is no step; nor is a round of spinning.  Variables of a   *)
(* call, acquire_with and seen, are reset when it ends.                    *)
(***************************************************************************)
EXTENDS Integers, Sequences, FiniteSets

CONSTANTS
  Thread,   \* the threads that use the lock, each for one guard at a time
  Writer    \* the count that stands for a writer: 2^62 - 1 in the code

ASSUME RwLockAssumption == Writer \in Nat /\ Writer >= 2

VARIABLES
  state,         \* the word: a count and flags
  pc,            \* pc[t]: where thread t is
  acquire_with,  \* acquire_with[t]: flags that t sets on acquiring, once it has parked
  seen,          \* seen[t]: the word that unlock_exclusive_slow loaded
  readers,       \* the parking queue of the readers
  writers        \* the parking queue of the writers

queues == <<readers, writers>>
vars == <<state, pc, acquire_with, seen, queues>>

-----------------------------------------------------------------------------
READERS_PARKED == "readers_parked"
WRITERS_PARKED == "writers_parked"
Flag == {READERS_PARKED, WRITERS_PARKED}

Word(count, flags) == [count |-> count, flags |-> flags]
Unlocked == Word(0, {})

(* checked_add overflows when a writer has the lock; a sum that reads as a *)
(* writer is refused.                                                      *)
Mut_RoomForReaderNoCheck == state.count < Writer
Mut_RoomForReaderWrapping == TRUE
RoomForReader == state.count + 1 < Writer

Goto(t, label) == pc' = [pc EXCEPT ![t] = label]

-----------------------------------------------------------------------------
(* lock_exclusive, try_lock_exclusive.                                     *)

(* A quick attempt succeeds ...                                            *)
LockExclusive(t) ==
  /\ pc[t] = "idle"
  /\ state = Unlocked
  /\ state' = Word(Writer, {})
  /\ Goto(t, "writing")
  /\ UNCHANGED <<acquire_with, seen, queues>>

(* ... or both fail, which a weak compare-and-swap may do on a free lock.  *)
LockExclusiveFails(t) ==
  /\ pc[t] = "idle"
  /\ Goto(t, "write_slow")
  /\ UNCHANGED <<state, acquire_with, seen, queues>>

Mut_LockExclusiveSlowNoFlag(t) ==
  /\ pc[t] = "write_slow"
  /\ state.count = 0
  /\ state' = Word(Writer, state.flags)
  /\ acquire_with' = [acquire_with EXCEPT ![t] = {}]
  /\ Goto(t, "writing")
  /\ UNCHANGED <<seen, queues>>
LockExclusiveSlow(t) ==
  /\ pc[t] = "write_slow"
  /\ state.count = 0
  /\ state' = Word(Writer, state.flags \cup acquire_with[t])
  /\ acquire_with' = [acquire_with EXCEPT ![t] = {}]
  /\ Goto(t, "writing")
  /\ UNCHANGED <<seen, queues>>

SetWritersParked(t) ==
  /\ pc[t] = "write_slow"
  /\ state.count # 0
  /\ state' = Word(state.count, state.flags \cup {WRITERS_PARKED})
  /\ Goto(t, "write_park")
  /\ UNCHANGED <<acquire_with, seen, queues>>

ParkWriter(t) ==
  /\ pc[t] = "write_park"
  /\ IF state.count # 0 /\ WRITERS_PARKED \in state.flags
       THEN writers' = Append(writers, t) /\ Goto(t, "write_parked")
       ELSE UNCHANGED writers /\ Goto(t, "write_slow")
  /\ acquire_with' = [acquire_with EXCEPT ![t] = {WRITERS_PARKED}]
  /\ UNCHANGED <<state, seen, readers>>

-----------------------------------------------------------------------------
(* lock_shared, try_lock_shared.                                           *)

LockShared(t) ==
  /\ pc[t] = "idle"
  /\ RoomForReader
  /\ state' = Word(state.count + 1, state.flags)
  /\ Goto(t, "reading")
  /\ UNCHANGED <<acquire_with, seen, queues>>

LockSharedFails(t) ==
  /\ pc[t] = "idle"
  /\ Goto(t, "read_slow")
  /\ UNCHANGED <<state, acquire_with, seen, queues>>

LockSharedSlow(t) ==
  /\ pc[t] = "read_slow"
  /\ RoomForReader
  /\ state' = Word(state.count + 1, state.flags)
  /\ Goto(t, "reading")
  /\ UNCHANGED <<acquire_with, seen, queues>>

(* The assertion "reader count overflowed" fails, and the thread panics.   *)
ReaderOverflow(t) ==
  /\ pc[t] = "read_slow"
  /\ state.count # Writer
  /\ ~RoomForReader
  /\ Goto(t, "idle")
  /\ UNCHANGED <<state, acquire_with, seen, queues>>

SetReadersParked(t) ==
  /\ pc[t] = "read_slow"
  /\ state.count = Writer
  /\ state' = Word(state.count, state.flags \cup {READERS_PARKED})
  /\ Goto(t, "read_park")
  /\ UNCHANGED <<acquire_with, seen, queues>>

ParkReader(t) ==
  /\ pc[t] = "read_park"
  /\ IF state.count = Writer /\ READERS_PARKED \in state.flags
       THEN readers' = Append(readers, t) /\ Goto(t, "read_parked")
       ELSE UNCHANGED readers /\ Goto(t, "read_slow")
  /\ UNCHANGED <<state, acquire_with, seen, writers>>

-----------------------------------------------------------------------------
(* unlock_exclusive.                                                       *)

Mut_UnlockExclusiveWeak(t) ==
  /\ pc[t] = "writing"
  /\ UNCHANGED state /\ Goto(t, "unlock_slow")
  /\ UNCHANGED <<acquire_with, seen, queues>>
UnlockExclusive(t) ==
  /\ pc[t] = "writing"
  /\ IF state = Word(Writer, {})
       THEN state' = Unlocked /\ Goto(t, "idle")
       ELSE UNCHANGED state /\ Goto(t, "unlock_slow")
  /\ UNCHANGED <<acquire_with, seen, queues>>

UnlockExclusiveSlow(t) ==
  /\ pc[t] = "unlock_slow"
  /\ IF state.flags = Flag
       THEN UNCHANGED seen /\ Goto(t, "unlock_store")
       ELSE seen' = [seen EXCEPT ![t] = state] /\ Goto(t, "unlock_swap")
  /\ UNCHANGED <<state, acquire_with, queues>>

(* One kind of thread was parked; if the other has parked since, the swap  *)
(* fails.                                                                  *)
Mut_UnlockSwapBlindly(t) ==
  /\ pc[t] = "unlock_swap"
  /\ state' = Unlocked
  /\ Goto(t, IF READERS_PARKED \in seen[t].flags THEN "unpark_readers" ELSE "unpark_writer")
  /\ seen' = [seen EXCEPT ![t] = Unlocked]
  /\ UNCHANGED <<acquire_with, queues>>
UnlockSwap(t) ==
  /\ pc[t] = "unlock_swap"
  /\ IF state = seen[t]
       THEN /\ state' = Unlocked
            /\ Goto(t, IF READERS_PARKED \in seen[t].flags THEN "unpark_readers" ELSE "unpark_writer")
       ELSE UNCHANGED state /\ Goto(t, "unlock_store")
  /\ seen' = [seen EXCEPT ![t] = Unlocked]
  /\ UNCHANGED <<acquire_with, queues>>

(* A plain store: both kinds are parked, and the readers go first.         *)
UnlockStore(t) ==
  /\ pc[t] = "unlock_store"
  /\ state' = Word(0, {WRITERS_PARKED})
  /\ Goto(t, "unpark_readers")
  /\ UNCHANGED <<acquire_with, seen, queues>>

-----------------------------------------------------------------------------
(* unlock_shared and downgrade.                                            *)

Mut_UnlockSharedSilently(t) ==
  /\ pc[t] = "reading"
  /\ state' = Word(state.count - 1, state.flags)
  /\ Goto(t, "idle")
  /\ UNCHANGED <<acquire_with, seen, queues>>
UnlockShared(t) ==
  /\ pc[t] = "reading"
  /\ state' = Word(state.count - 1, state.flags)
  /\ Goto(t, IF state = Word(1, {WRITERS_PARKED}) THEN "unlock_shared_slow" ELSE "idle")
  /\ UNCHANGED <<acquire_with, seen, queues>>

UnlockSharedSlow(t) ==
  /\ pc[t] = "unlock_shared_slow"
  /\ IF state = Word(0, {WRITERS_PARKED})
       THEN state' = Unlocked /\ Goto(t, "unpark_writer")
       ELSE UNCHANGED state /\ Goto(t, "idle")
  /\ UNCHANGED <<acquire_with, seen, queues>>

Downgrade(t) ==
  /\ pc[t] = "writing"
  /\ state' = Word(1, state.flags \ {READERS_PARKED})
  /\ Goto(t, IF READERS_PARKED \in state.flags THEN "downgrade_unpark" ELSE "reading")
  /\ UNCHANGED <<acquire_with, seen, queues>>

-----------------------------------------------------------------------------
(* parking_lot_core::unpark_all on the readers and unpark_one on the       *)
(* writers.                                                                *)

Parked(queue) == {queue[i] : i \in 1..Len(queue)}

UnparkReaders(t) ==
  /\ pc[t] \in {"unpark_readers", "downgrade_unpark"}
  /\ pc' = [u \in Thread |->
              IF u = t THEN IF pc[t] = "unpark_readers" THEN "idle" ELSE "reading"
              ELSE IF u \in Parked(readers) THEN "read_slow" ELSE pc[u]]
  /\ readers' = <<>>
  /\ UNCHANGED <<state, acquire_with, seen, writers>>

UnparkWriter(t) ==
  /\ pc[t] = "unpark_writer"
  /\ IF writers = <<>>
       THEN Goto(t, "idle") /\ UNCHANGED writers
       ELSE /\ pc' = [pc EXCEPT ![t] = "idle", ![Head(writers)] = "write_slow"]
            /\ writers' = Tail(writers)
  /\ UNCHANGED <<state, acquire_with, seen, readers>>

-----------------------------------------------------------------------------
Init ==
  /\ state = Unlocked
  /\ pc = [t \in Thread |-> "idle"]
  /\ acquire_with = [t \in Thread |-> {}]
  /\ seen = [t \in Thread |-> Unlocked]
  /\ readers = <<>>
  /\ writers = <<>>

Request(t) ==
  \/ LockExclusive(t) \/ LockExclusiveFails(t) \/ LockShared(t) \/ LockSharedFails(t)

Acquire(t) == LockExclusiveSlow(t) \/ LockSharedSlow(t)

Proceed(t) ==
  \/ Acquire(t) \/ SetWritersParked(t) \/ ParkWriter(t)
  \/ ReaderOverflow(t) \/ SetReadersParked(t) \/ ParkReader(t)
  \/ UnlockExclusive(t) \/ UnlockExclusiveSlow(t) \/ UnlockSwap(t) \/ UnlockStore(t)
  \/ UnlockShared(t) \/ UnlockSharedSlow(t) \/ UnparkReaders(t) \/ UnparkWriter(t)

Next == \E t \in Thread : Request(t) \/ Downgrade(t) \/ Proceed(t)

Spec == Init /\ [][Next]_vars

(* A thread that can go on does, and a guard is dropped sooner or later.   *)
(* Nobody has to ask for the lock, or to downgrade it.                     *)
FairSpec == Spec /\ \A t \in Thread : WF_vars(Proceed(t))

(* A scheduler that, beyond this, favours a thread that can have the lock  *)
(* again and again.                                                        *)
StronglyFairSpec == FairSpec /\ \A t \in Thread : SF_vars(Acquire(t))

-----------------------------------------------------------------------------
(* Properties.                                                             *)

Label ==
  {"idle", "write_slow", "write_park", "write_parked", "writing",
   "read_slow", "read_park", "read_parked", "reading",
   "unlock_slow", "unlock_swap", "unlock_store", "unlock_shared_slow",
   "downgrade_unpark", "unpark_readers", "unpark_writer"}
WordType == [count : 0..Writer, flags : SUBSET Flag]

(* The shape of the state; the count never leaves its bits.                *)
TypeOK ==
  /\ state \in WordType
  /\ pc \in [Thread -> Label]
  /\ acquire_with \in [Thread -> SUBSET {WRITERS_PARKED}]
  /\ seen \in [Thread -> WordType]
  /\ readers \in Seq(Thread)
  /\ writers \in Seq(Thread)

HoldsWrite == {t \in Thread : pc[t] \in {"writing", "unlock_slow", "unlock_swap", "unlock_store"}}
HoldsRead == {t \in Thread : pc[t] \in {"reading", "downgrade_unpark"}}

(* A writer has the lock alone, and the count tells who has it: also when  *)
(* so many readers come that their number would read as a writer.          *)
Exclusion ==
  /\ HoldsWrite # {} => /\ Cardinality(HoldsWrite) = 1
                        /\ HoldsRead = {}
                        /\ state.count = Writer
  /\ HoldsWrite = {} => /\ state.count = Cardinality(HoldsRead)
                        /\ state.count # Writer

(* The assertions of unlock_exclusive_slow hold, and its plain store       *)
(* overwrites no flag that was set since the word was read.                *)
UnlockAsserts ==
  \A t \in Thread :
    /\ pc[t] = "unlock_slow" => /\ state.count = Writer
                                /\ state.flags # {}
    /\ pc[t] = "unlock_swap" => state \in {seen[t], Word(Writer, Flag)}
    /\ pc[t] = "unlock_store" => state = Word(Writer, Flag)

At(labels) == \E t \in Thread : pc[t] \in labels

(* A parked reader has a writer to wake it, or is being woken.  A parked   *)
(* writer has its flag set, or a writer that has parked before is up, and  *)
(* will set the flag when it takes the lock or parks again, or one is      *)
(* being woken.                                                            *)
NoLostWakeup ==
  /\ readers # <<>> => \/ state.count = Writer /\ READERS_PARKED \in state.flags
                       \/ At({"unpark_readers", "downgrade_unpark"})
  /\ writers # <<>> => \/ WRITERS_PARKED \in state.flags
                       \/ At({"unpark_writer"})
                       \/ \E t \in Thread : /\ pc[t] \in {"write_slow", "write_park"}
                                            /\ acquire_with[t] # {}

(* The flag of parked writers on a free lock is taken care of: by the      *)
(* reader that left last, or by a reader that is about to come.            *)
FlagIsServed ==
  state.count = 0 /\ WRITERS_PARKED \in state.flags =>
    At({"unlock_shared_slow", "unpark_readers", "read_slow", "read_park"})

(* Threads never park behind one another with nobody left to wake them:    *)
(* while one is parked, another has the lock, is letting it go, or is on   *)
(* its way to it.                                                          *)
NobodyStranded ==
  At({"read_parked", "write_parked"}) => At(Label \ {"idle", "read_parked", "write_parked"})

Waits(t) == pc[t] \in {"read_slow", "read_park", "read_parked",
                       "write_slow", "write_park", "write_parked"}

(* Once nobody asks for the lock any more, whoever waits for it gets it,   *)
(* unless it is a reader that panics because there are too many: no wakeup *)
(* is lost, and nobody waits for nobody.                                   *)
EveryWaiterServed ==
  <>[][\A t \in Thread : pc[t] = "idle" => pc'[t] = "idle"]_vars =>
    \A t \in Thread : Waits(t) ~> ~Waits(t)

(* What the documentation of TryResult says: a try_ call reports a shard    *)
(* as locked when it is.  So a lock that nobody has can be taken.           *)
FreeLockCanBeTaken == HoldsRead \cup HoldsWrite = {} => state = Unlocked

(* What docs/internals.md says: the two queues prevent starvation, so a    *)
(* writer that waits gets the lock.                                        *)
NoWriterStarvation ==
  \A t \in Thread : pc[t] = "write_slow" ~> t \in HoldsWrite
=============================================================================
