---------------------------- MODULE RwLockProofs ----------------------------
(***************************************************************************)
(* Proofs about the lock of a shard (module RwLock), for any number of     *)
(* threads and any width of the count: mutual exclusion, the assertions of *)
(* unlock_exclusive_slow, that no wakeup is lost, and that the lock        *)
(* implements a shared lock.  IInv is the inductive invariant; there is    *)
(* one lemma for each of its conjuncts, with one step for each action.     *)
(***************************************************************************)
EXTENDS RwLockRefinement, FiniteSetTheorems, TLAPS

(* Who has the lock, and what the count says of it.                        *)
LockInv ==
  /\ IsFiniteSet(HoldsRead)
  /\ \/ HoldsWrite = {} /\ state.count = Cardinality(HoldsRead) /\ state.count < Writer
     \/ \E w \in Thread : HoldsWrite = {w} /\ HoldsRead = {} /\ state.count = Writer

(* What unlock_exclusive_slow knows of the word at each of its steps.      *)
UnlockInv ==
  \A t \in Thread :
    /\ pc[t] = "unlock_slow" => state.flags # {}
    /\ pc[t] = "unlock_swap" => /\ seen[t] \in {Word(Writer, {READERS_PARKED}), Word(Writer, {WRITERS_PARKED})}
                                /\ state \in {seen[t], Word(Writer, Flag)}
    /\ pc[t] = "unlock_store" => state = Word(Writer, Flag)

(* Whoever is in a parking queue is parked, writers once and with their    *)
(* flag remembered.                                                        *)
QueueInv ==
  /\ \A t \in Parked(readers) : pc[t] = "read_parked"
  /\ \A i \in 1..Len(writers) : pc[writers[i]] = "write_parked"
  /\ \A i, j \in 1..Len(writers) : writers[i] = writers[j] => i = j
  /\ \A t \in Thread : pc[t] = "write_parked" => acquire_with[t] = {WRITERS_PARKED}

(* The readers' flag is set only under a writer, and for a reader that is  *)
(* there.                                                                  *)
ReadersInv ==
  READERS_PARKED \in state.flags => /\ state.count = Writer
                          /\ \/ readers # <<>>
                             \/ At({"read_slow", "read_park"})

(* FlagIsServed, and a thread about to wake readers finds some.            *)
FlagInv ==
  state.count = 0 /\ WRITERS_PARKED \in state.flags =>
    \/ At({"unlock_shared_slow", "read_slow", "read_park"})
    \/ At({"unpark_readers"}) /\ readers # <<>>

IInv ==
  TypeOK /\ LockInv /\ UnlockInv /\ QueueInv /\ ReadersInv /\ NoLostWakeup /\ FlagInv

-----------------------------------------------------------------------------
(* The shape of the state.                                                 *)

(* A step of one thread leaves the others where they are.                  *)
LEMMA GotoType ==
  ASSUME TypeOK, NEW t \in Thread, NEW l \in Label, Goto(t, l)
  PROVE  /\ pc' \in [Thread -> Label]
         /\ pc'[t] = l
         /\ \A u \in Thread \ {t} : pc'[u] = pc[u]
BY DEF TypeOK, Goto

(* The types are kept.  That the count stays in its bits when a reader     *)
(* leaves takes LockInv: there is a reader to leave.                       *)
LEMMA TypeStep ==
  ASSUME TypeOK, NEW t \in Thread, Request(t) \/ Downgrade(t) \/ Proceed(t),
         pc[t] = "reading" => state.count > 0
  PROVE  TypeOK'
<1> DEFINE Step == Request(t) \/ Downgrade(t) \/ Proceed(t)
<1>1. pc' \in [Thread -> Label]
  <2> USE DEF TypeOK, Goto, Label
  <2>1. CASE Request(t) \/ Downgrade(t)
    BY <2>1 DEF Request, LockExclusive, LockExclusiveFails, LockShared, LockSharedFails, Downgrade
  <2>2. CASE LockExclusiveSlow(t) \/ SetWritersParked(t) \/ ParkWriter(t)
    BY <2>2 DEF LockExclusiveSlow, SetWritersParked, ParkWriter
  <2>3. CASE LockSharedSlow(t) \/ ReaderOverflow(t) \/ SetReadersParked(t) \/ ParkReader(t)
    BY <2>3 DEF LockSharedSlow, ReaderOverflow, SetReadersParked, ParkReader
  <2>4. CASE UnlockExclusive(t) \/ UnlockExclusiveSlow(t) \/ UnlockSwap(t) \/ UnlockStore(t)
    <3>1. UnlockExclusive(t) \/ UnlockExclusiveSlow(t) => pc' \in [Thread -> Label]
      BY DEF UnlockExclusive, UnlockExclusiveSlow
    <3>2. UnlockSwap(t) \/ UnlockStore(t) => pc' \in [Thread -> Label]
      BY DEF UnlockSwap, UnlockStore
    <3> QED BY <2>4, <3>1, <3>2
  <2>5. CASE UnlockShared(t) \/ UnlockSharedSlow(t)
    BY <2>5 DEF UnlockShared, UnlockSharedSlow
  <2>6. CASE UnparkReaders(t) \/ UnparkWriter(t)
    BY <2>6 DEF UnparkReaders, UnparkWriter
  <2> QED BY <2>1, <2>2, <2>3, <2>4, <2>5, <2>6 DEF Proceed, Acquire
<1>2. state' \in WordType
  <2>1. /\ state = Word(state.count, state.flags)
        /\ state.count \in 0..Writer /\ state.flags \in SUBSET Flag
    BY DEF TypeOK, WordType, Word
  <2>2. ASSUME NEW c \in 0..Writer, NEW f \in SUBSET Flag, state' = Word(c, f)
        PROVE  state' \in WordType
    BY <2>2 DEF WordType, Word
  <2>3. {} \in SUBSET Flag /\ {READERS_PARKED} \in SUBSET Flag /\ {WRITERS_PARKED} \in SUBSET Flag
        /\ acquire_with[t] \in SUBSET Flag
        /\ \A f, g \in SUBSET Flag : f \cup g \in SUBSET Flag /\ f \ g \in SUBSET Flag
    BY DEF TypeOK, Flag
  <2>5. CASE state' = state
    BY <2>5 DEF TypeOK
  <2>6. CASE LockExclusive(t) \/ LockExclusiveSlow(t)
    BY <2>1, <2>2, <2>3, <2>6, RwLockAssumption DEF LockExclusive, LockExclusiveSlow
  <2>7. CASE LockShared(t) \/ LockSharedSlow(t)
    <3>1. state.count + 1 \in 0..Writer
      BY <2>1, <2>7, RwLockAssumption DEF LockShared, LockSharedSlow, RoomForReader
    <3> QED BY <2>1, <2>2, <2>7, <3>1 DEF LockShared, LockSharedSlow
  <2>8. CASE SetWritersParked(t) \/ SetReadersParked(t)
    BY <2>1, <2>2, <2>3, <2>8 DEF SetWritersParked, SetReadersParked
  <2>9. CASE UnlockShared(t)
    <3>1. state.count - 1 \in 0..Writer
      BY <2>1, <2>9, RwLockAssumption DEF UnlockShared
    <3> QED BY <2>1, <2>2, <2>9, <3>1 DEF UnlockShared
  <2>10. CASE Downgrade(t)
    <3>1. state' = Word(1, state.flags \ {READERS_PARKED})
      BY <2>10 DEF Downgrade
    <3> QED BY <2>1, <2>2, <2>3, <3>1, RwLockAssumption
  <2>11. CASE state' \in {Word(0, {}), Word(0, {WRITERS_PARKED})}
    BY <2>2, <2>3, <2>11, RwLockAssumption
  <2>12. \/ state' = state \/ state' \in {Word(0, {}), Word(0, {WRITERS_PARKED})}
         \/ LockExclusive(t) \/ LockExclusiveSlow(t) \/ LockShared(t) \/ LockSharedSlow(t)
         \/ SetWritersParked(t) \/ SetReadersParked(t) \/ UnlockShared(t) \/ Downgrade(t)
    BY DEF Request, Proceed, Acquire, LockExclusiveFails, LockSharedFails, ParkWriter,
      ReaderOverflow, ParkReader, UnlockExclusive, UnlockExclusiveSlow, UnlockSwap,
      UnlockStore, UnlockSharedSlow, UnparkReaders, UnparkWriter, Unlocked
  <2> QED BY <2>5, <2>6, <2>7, <2>8, <2>9, <2>10, <2>11, <2>12
<1>3. /\ acquire_with' \in [Thread -> SUBSET {WRITERS_PARKED}]
      /\ seen' \in [Thread -> WordType]
  <2>1. CASE acquire_with' = acquire_with /\ seen' = seen
    BY <2>1 DEF TypeOK
  <2>2. CASE LockExclusiveSlow(t) \/ ParkWriter(t)
    BY <2>2 DEF TypeOK, LockExclusiveSlow, ParkWriter
  <2>3. CASE UnlockSwap(t) \/ UnlockExclusiveSlow(t)
    <3>1. Unlocked \in WordType
      BY RwLockAssumption DEF WordType, Unlocked, Word
    <3> QED BY <2>3, <3>1 DEF TypeOK, UnlockExclusiveSlow, UnlockSwap
  <2>4. \/ acquire_with' = acquire_with /\ seen' = seen
        \/ LockExclusiveSlow(t) \/ ParkWriter(t) \/ UnlockSwap(t) \/ UnlockExclusiveSlow(t)
    BY DEF Request, Proceed, Acquire, LockExclusive, LockExclusiveFails, LockShared,
      LockSharedFails, Downgrade, SetWritersParked, LockSharedSlow, ReaderOverflow,
      SetReadersParked, ParkReader, UnlockExclusive, UnlockStore, UnlockShared,
      UnlockSharedSlow, UnparkReaders, UnparkWriter
  <2> QED BY <2>1, <2>2, <2>3, <2>4
<1>4. readers' \in Seq(Thread) /\ writers' \in Seq(Thread)
  <2>1. \/ UNCHANGED queues
        \/ ParkWriter(t) \/ ParkReader(t) \/ UnparkReaders(t) \/ UnparkWriter(t)
    BY DEF Request, Proceed, Acquire, LockExclusive, LockExclusiveFails, LockShared,
      LockSharedFails, Downgrade, SetWritersParked, LockSharedSlow, ReaderOverflow,
      SetReadersParked, UnlockExclusive, UnlockStore, UnlockShared, LockExclusiveSlow,
      UnlockSharedSlow, UnlockSwap, UnlockExclusiveSlow
  <2>2. readers \in Seq(Thread) /\ writers \in Seq(Thread)
    BY DEF TypeOK
  <2>3. CASE UNCHANGED queues
    BY <2>2, <2>3 DEF queues
  <2>4. /\ Append(readers, t) \in Seq(Thread) /\ Append(writers, t) \in Seq(Thread)
        /\ writers # <<>> => Tail(writers) \in Seq(Thread)
    BY <2>2
  <2>5. CASE ParkWriter(t)
    <3>1. readers' = readers /\ writers' \in {writers, Append(writers, t)}
      BY <2>5 DEF ParkWriter
    <3> QED BY <2>2, <2>4, <3>1
  <2>6. CASE ParkReader(t)
    <3>1. writers' = writers /\ readers' \in {readers, Append(readers, t)}
      BY <2>6 DEF ParkReader
    <3> QED BY <2>2, <2>4, <3>1
  <2>7. CASE UnparkReaders(t)
    BY <2>2, <2>7 DEF UnparkReaders
  <2>8. CASE UnparkWriter(t)
    <3>1. readers' = readers /\ (writers' = writers \/ (writers # <<>> /\ writers' = Tail(writers)))
      BY <2>8 DEF UnparkWriter
    <3> QED BY <2>2, <2>4, <3>1, SMTT(60)
  <2> QED BY <2>1, <2>3, <2>5, <2>6, <2>7, <2>8
<1> QED BY <1>1, <1>2, <1>3, <1>4 DEF TypeOK

-----------------------------------------------------------------------------
(* Who has the lock.                                                       *)

WriteLabel == {"writing", "unlock_slow", "unlock_swap", "unlock_store"}
ReadLabel == {"reading", "downgrade_unpark"}

(* A step of one thread changes only whether that thread has the lock.     *)
LEMMA HoldsAfter ==
  ASSUME TypeOK, NEW t \in Thread, NEW l \in Label, Goto(t, l)
  PROVE  /\ HoldsWrite' = IF l \in WriteLabel THEN HoldsWrite \cup {t} ELSE HoldsWrite \ {t}
         /\ HoldsRead' = IF l \in ReadLabel THEN HoldsRead \cup {t} ELSE HoldsRead \ {t}
BY GotoType DEF HoldsWrite, HoldsRead, WriteLabel, ReadLabel

(* LockInv says that the count is 0 just when nobody has the lock.         *)
LEMMA FreeLock ==
  ASSUME TypeOK, LockInv, state.count = 0
  PROVE  HoldsWrite = {} /\ HoldsRead = {}
<1>1. HoldsWrite = {} /\ Cardinality(HoldsRead) = 0 /\ IsFiniteSet(HoldsRead)
  BY RwLockAssumption DEF LockInv
<1> QED BY <1>1, FS_EmptySet

(* A writer comes in when the count is 0.                                  *)
LEMMA AcquireWrite ==
  ASSUME TypeOK, LockInv, NEW t \in Thread, state.count = 0, state'.count = Writer,
         Goto(t, "writing")
  PROVE  LockInv'
<1>1. HoldsWrite' = {t} /\ HoldsRead' = {}
  <2>1. HoldsWrite' = HoldsWrite \cup {t} /\ HoldsRead' = HoldsRead \ {t}
    BY HoldsAfter DEF Label, WriteLabel, ReadLabel
  <2> QED BY <2>1, FreeLock
<1> QED BY <1>1, FS_EmptySet DEF LockInv

(* A reader comes in when the count has room for it.                       *)
LEMMA AcquireRead ==
  ASSUME TypeOK, LockInv, NEW t \in Thread, pc[t] \in {"idle", "read_slow"}, RoomForReader,
         state'.count = state.count + 1, Goto(t, "reading")
  PROVE  LockInv'
<1>1. /\ HoldsWrite = {} /\ IsFiniteSet(HoldsRead)
      /\ state.count = Cardinality(HoldsRead) /\ state.count + 1 < Writer
  BY RwLockAssumption DEF LockInv, RoomForReader
<1>2. HoldsWrite' = {} /\ HoldsRead' = HoldsRead \cup {t}
  <2>1. HoldsWrite' = HoldsWrite \ {t} /\ HoldsRead' = HoldsRead \cup {t}
    BY HoldsAfter DEF Label, WriteLabel, ReadLabel
  <2> QED BY <1>1, <2>1
<1>3. t \notin HoldsRead
  BY DEF HoldsRead
<1>4. IsFiniteSet(HoldsRead') /\ Cardinality(HoldsRead') = Cardinality(HoldsRead) + 1
  BY <1>1, <1>2, <1>3, FS_AddElement
<1> QED BY <1>1, <1>2, <1>4 DEF LockInv

(* A thread with the lock for writing has it alone.                        *)
LEMMA WriterAlone ==
  ASSUME LockInv, NEW t \in HoldsWrite
  PROVE  HoldsWrite = {t} /\ HoldsRead = {} /\ state.count = Writer
BY DEF LockInv

(* The writer leaves.                                                      *)
LEMMA ReleaseWrite ==
  ASSUME TypeOK, LockInv, NEW t \in HoldsWrite, NEW l \in Label \ (WriteLabel \cup ReadLabel),
         state'.count = 0, Goto(t, l)
  PROVE  LockInv'
<1>1. t \in Thread
  BY DEF HoldsWrite
<1>2. HoldsWrite' = {} /\ HoldsRead' = {}
  <2>1. HoldsWrite' = HoldsWrite \ {t} /\ HoldsRead' = HoldsRead \ {t}
    BY <1>1, HoldsAfter
  <2> QED BY <2>1, WriterAlone
<1> QED BY <1>2, FS_EmptySet, RwLockAssumption DEF LockInv

(* The writer downgrades.                                                  *)
LEMMA WriteToRead ==
  ASSUME TypeOK, LockInv, NEW t \in HoldsWrite, NEW l \in ReadLabel, state'.count = 1, Goto(t, l)
  PROVE  LockInv'
<1>1. t \in Thread
  BY DEF HoldsWrite
<1>2. HoldsWrite' = {} /\ HoldsRead' = {t}
  <2>1. HoldsWrite' = HoldsWrite \ {t} /\ HoldsRead' = HoldsRead \cup {t}
    BY <1>1, HoldsAfter DEF Label, WriteLabel, ReadLabel
  <2> QED BY <2>1, WriterAlone
<1>3. IsFiniteSet({t}) /\ Cardinality({t}) = 1
  BY FS_Singleton, Zenon
<1> QED BY <1>2, <1>3, RwLockAssumption DEF LockInv

(* A reader keeps writers out, and the count above 0.                      *)
LEMMA ReaderCounted ==
  ASSUME TypeOK, LockInv, NEW t \in HoldsRead
  PROVE  /\ HoldsWrite = {} /\ IsFiniteSet(HoldsRead)
         /\ state.count = Cardinality(HoldsRead) /\ state.count < Writer /\ state.count > 0
<1>1. /\ HoldsWrite = {} /\ IsFiniteSet(HoldsRead)
      /\ state.count = Cardinality(HoldsRead) /\ state.count < Writer
  BY DEF LockInv
<1>2. Cardinality(HoldsRead) # 0 /\ Cardinality(HoldsRead) \in Nat
  BY <1>1, FS_EmptySet, FS_CardinalityType
<1> QED BY <1>1, <1>2

(* A reader leaves.                                                        *)
LEMMA ReleaseRead ==
  ASSUME TypeOK, LockInv, NEW t \in HoldsRead, NEW l \in Label \ (WriteLabel \cup ReadLabel),
         state'.count = state.count - 1, Goto(t, l)
  PROVE  LockInv'
<1>1. t \in Thread
  BY DEF HoldsRead
<1>2. HoldsWrite' = {} /\ HoldsRead' = HoldsRead \ {t}
  <2>1. HoldsWrite' = HoldsWrite \ {t} /\ HoldsRead' = HoldsRead \ {t}
    BY <1>1, HoldsAfter
  <2> QED BY <2>1, ReaderCounted
<1>3. IsFiniteSet(HoldsRead') /\ Cardinality(HoldsRead') = Cardinality(HoldsRead) - 1
  BY <1>2, ReaderCounted, FS_RemoveElement
<1>4. state'.count = Cardinality(HoldsRead') /\ state'.count < Writer
  BY <1>3, ReaderCounted, FS_CardinalityType, RwLockAssumption
<1> QED BY <1>2, <1>3, <1>4 DEF LockInv

(* A step between two labels of the same kind.                             *)
LEMMA SameHolders ==
  ASSUME TypeOK, LockInv, NEW t \in Thread, NEW l \in Label, Goto(t, l),
         pc[t] \in WriteLabel <=> l \in WriteLabel, pc[t] \in ReadLabel <=> l \in ReadLabel,
         state'.count = state.count
  PROVE  LockInv'
<1>1. HoldsWrite' = HoldsWrite /\ HoldsRead' = HoldsRead
  BY HoldsAfter DEF HoldsWrite, HoldsRead, WriteLabel, ReadLabel
<1> QED BY <1>1 DEF LockInv

(* Waking threads up gives nobody the lock.                                *)
LEMMA WakingHolders ==
  ASSUME TypeOK, LockInv, QueueInv, NEW t \in Thread, UnparkReaders(t) \/ UnparkWriter(t)
  PROVE  HoldsWrite' = HoldsWrite /\ HoldsRead' = HoldsRead /\ LockInv'
<1>1. \A u \in Thread : /\ pc'[u] \in WriteLabel <=> pc[u] \in WriteLabel
                        /\ pc'[u] \in ReadLabel <=> pc[u] \in ReadLabel
  <2>1. CASE UnparkReaders(t)
    BY <2>1 DEF UnparkReaders, QueueInv, WriteLabel, ReadLabel
  <2>2. CASE UnparkWriter(t) /\ writers = <<>>
    BY <2>2, GotoType DEF UnparkWriter, Label, WriteLabel, ReadLabel
  <2>3. CASE UnparkWriter(t) /\ writers # <<>>
    <3>1. Head(writers) \in Thread /\ pc[Head(writers)] = "write_parked"
      <4>1. Head(writers) = writers[1] /\ 1 \in 1..Len(writers) /\ Head(writers) \in Thread
        BY <2>3 DEF TypeOK
      <4> QED BY <4>1 DEF QueueInv
    <3>2. pc' = [pc EXCEPT ![t] = "idle", ![Head(writers)] = "write_slow"] /\ pc[t] = "unpark_writer"
      BY <2>3 DEF UnparkWriter
    <3>3. pc \in [Thread -> Label]
      BY DEF TypeOK
    <3> QED BY <3>1, <3>2, <3>3 DEF WriteLabel, ReadLabel
  <2> QED BY <2>1, <2>2, <2>3
<1>2. HoldsWrite' = HoldsWrite /\ HoldsRead' = HoldsRead
  BY <1>1 DEF HoldsWrite, HoldsRead, WriteLabel, ReadLabel
<1>3. state' = state
  BY DEF UnparkReaders, UnparkWriter
<1> QED BY <1>2, <1>3 DEF LockInv

(* LockInv is kept.                                                        *)
LEMMA LockStep ==
  ASSUME TypeOK, LockInv, QueueInv, NEW t \in Thread, Request(t) \/ Downgrade(t) \/ Proceed(t)
  PROVE  LockInv'
<1>1. CASE LockExclusive(t) \/ LockExclusiveSlow(t)
  BY <1>1, AcquireWrite DEF LockExclusive, LockExclusiveSlow, Unlocked, Word
<1>2. CASE LockShared(t) \/ LockSharedSlow(t)
  BY <1>2, AcquireRead DEF LockShared, LockSharedSlow, Word
<1>3. CASE UnlockShared(t)
  <2>1. t \in HoldsRead /\ state'.count = state.count - 1
    BY <1>3 DEF UnlockShared, HoldsRead, Word
  <2>2. PICK l \in {"unlock_shared_slow", "idle"} : Goto(t, l)
    BY <1>3 DEF UnlockShared
  <2> QED BY <2>1, <2>2, ReleaseRead DEF Label, WriteLabel, ReadLabel
<1>4. CASE Downgrade(t)
  <2>1. t \in HoldsWrite /\ state'.count = 1
    BY <1>4 DEF Downgrade, HoldsWrite, Word
  <2>2. PICK l \in ReadLabel : Goto(t, l)
    BY <1>4 DEF Downgrade, ReadLabel
  <2> QED BY <2>1, <2>2, WriteToRead
<1>5. CASE \/ UnlockStore(t)
           \/ UnlockExclusive(t) /\ state = Word(Writer, {})
           \/ UnlockSwap(t) /\ state = seen[t]
  <2>1. t \in HoldsWrite /\ state'.count = 0
    BY <1>5 DEF UnlockStore, UnlockExclusive, UnlockSwap, HoldsWrite, Word, Unlocked
  <2>2. PICK l \in {"idle", "unpark_readers", "unpark_writer"} : Goto(t, l)
    BY <1>5 DEF UnlockStore, UnlockExclusive, UnlockSwap
  <2> QED BY <2>1, <2>2, ReleaseWrite DEF Label, WriteLabel, ReadLabel
<1>6. CASE \/ UnlockExclusiveSlow(t)
           \/ UnlockExclusive(t) /\ state # Word(Writer, {})
           \/ UnlockSwap(t) /\ state # seen[t]
  <2>1. PICK l \in WriteLabel : Goto(t, l)
    BY <1>6 DEF UnlockExclusiveSlow, UnlockExclusive, UnlockSwap, WriteLabel
  <2>2. pc[t] \in WriteLabel /\ state' = state
    BY <1>6 DEF UnlockExclusiveSlow, UnlockExclusive, UnlockSwap, WriteLabel
  <2> QED BY <2>1, <2>2, SameHolders DEF Label, WriteLabel, ReadLabel
<1>7. CASE \/ LockExclusiveFails(t) \/ LockSharedFails(t) \/ SetWritersParked(t) \/ ParkWriter(t)
           \/ ReaderOverflow(t) \/ SetReadersParked(t) \/ ParkReader(t) \/ UnlockSharedSlow(t)
  <2>1. state'.count = state.count /\ pc[t] \notin WriteLabel \cup ReadLabel
    BY <1>7 DEF LockExclusiveFails, LockSharedFails, SetWritersParked, ParkWriter,
      ReaderOverflow, SetReadersParked, ParkReader, UnlockSharedSlow, Word, Unlocked,
      WriteLabel, ReadLabel
  <2>2. PICK l \in Label \ (WriteLabel \cup ReadLabel) : Goto(t, l)
    BY <1>7 DEF LockExclusiveFails, LockSharedFails, SetWritersParked, ParkWriter,
      ReaderOverflow, SetReadersParked, ParkReader, UnlockSharedSlow, Label, WriteLabel, ReadLabel
  <2> QED BY <2>1, <2>2, SameHolders
<1> QED BY <1>1, <1>2, <1>3, <1>4, <1>5, <1>6, <1>7, WakingHolders DEF Request, Proceed, Acquire

-----------------------------------------------------------------------------
(* unlock_exclusive_slow.                                                  *)

(* The word is what its fields say.                                        *)
LEMMA WordFields ==
  ASSUME TypeOK
  PROVE  state = Word(state.count, state.flags) /\ state.flags \in SUBSET Flag
BY DEF TypeOK, WordType, Word

(* A step that wakes threads up leaves every other one where it is.        *)
LEMMA WakingOthers ==
  ASSUME TypeOK, QueueInv, NEW t \in Thread, UnparkReaders(t) \/ UnparkWriter(t),
         NEW u \in Thread, u # t, pc[u] \notin {"read_parked", "write_parked"}
  PROVE  pc'[u] = pc[u]
<1>1. CASE UnparkReaders(t)
  BY <1>1 DEF UnparkReaders, QueueInv
<1>2. CASE UnparkWriter(t) /\ writers = <<>>
  BY <1>2 DEF UnparkWriter, Goto, TypeOK
<1>3. CASE UnparkWriter(t) /\ writers # <<>>
  <2>1. Head(writers) = writers[1] /\ 1 \in 1..Len(writers) /\ Head(writers) \in Thread
    BY <1>3 DEF TypeOK
  <2>2. Head(writers) # u
    BY <2>1 DEF QueueInv
  <2>3. pc' = [pc EXCEPT ![t] = "idle", ![Head(writers)] = "write_slow"]
    BY <1>3 DEF UnparkWriter
  <2> QED BY <2>1, <2>2, <2>3 DEF TypeOK
<1> QED BY <1>1, <1>2, <1>3

(* Steps that wake nobody move one thread.                                 *)
LEMMA OneMoves ==
  ASSUME TypeOK, NEW t \in Thread, Request(t) \/ Downgrade(t) \/ Proceed(t),
         ~UnparkReaders(t), ~UnparkWriter(t)
  PROVE  \E l \in Label : Goto(t, l)
<1>1. CASE Request(t) \/ Downgrade(t)
  BY <1>1 DEF Request, LockExclusive, LockExclusiveFails, LockShared, LockSharedFails,
              Downgrade, Label
<1>2. CASE LockExclusiveSlow(t) \/ SetWritersParked(t) \/ ParkWriter(t)
  BY <1>2 DEF LockExclusiveSlow, SetWritersParked, ParkWriter, Label
<1>3. CASE LockSharedSlow(t) \/ ReaderOverflow(t) \/ SetReadersParked(t) \/ ParkReader(t)
  BY <1>3 DEF LockSharedSlow, ReaderOverflow, SetReadersParked, ParkReader, Label
<1>4. CASE UnlockExclusive(t) \/ UnlockExclusiveSlow(t) \/ UnlockSwap(t) \/ UnlockStore(t)
  BY <1>4 DEF UnlockExclusive, UnlockExclusiveSlow, UnlockSwap, UnlockStore, Label
<1>5. CASE UnlockShared(t) \/ UnlockSharedSlow(t)
  BY <1>5 DEF UnlockShared, UnlockSharedSlow, Label
<1> QED BY <1>1, <1>2, <1>3, <1>4, <1>5 DEF Proceed, Acquire

(* No step of one thread moves another that is not parked.                 *)
LEMMA OthersStay ==
  ASSUME TypeOK, QueueInv, NEW t \in Thread, Request(t) \/ Downgrade(t) \/ Proceed(t),
         NEW u \in Thread, u # t, pc[u] \notin {"read_parked", "write_parked"}
  PROVE  pc'[u] = pc[u]
BY WakingOthers, OneMoves, GotoType

(* What the others can do while u has the lock for writing: set flags.     *)
LEMMA UnderWriter ==
  ASSUME TypeOK, LockInv, QueueInv, NEW t \in Thread, Request(t) \/ Downgrade(t) \/ Proceed(t),
         NEW u \in HoldsWrite, u # t
  PROVE  /\ pc'[u] = pc[u] /\ seen'[u] = seen[u]
         /\ \E f \in SUBSET Flag : state' = Word(Writer, state.flags \cup f)
<1>1. /\ u \in Thread /\ t \notin HoldsWrite /\ t \notin HoldsRead /\ state.count = Writer
      /\ state = Word(Writer, state.flags)
  BY WriterAlone, WordFields DEF HoldsWrite
<1>2. pc'[u] = pc[u]
  BY <1>1, OthersStay DEF HoldsWrite
<1>3. pc[t] \notin WriteLabel /\ pc[t] \notin ReadLabel
  BY <1>1 DEF HoldsWrite, HoldsRead, WriteLabel, ReadLabel
<1>4. seen' = seen
  BY <1>3 DEF Request, Proceed, Acquire, LockExclusive, LockExclusiveFails, LockShared,
    LockSharedFails, Downgrade, LockExclusiveSlow, SetWritersParked, ParkWriter, LockSharedSlow,
    ReaderOverflow, SetReadersParked, ParkReader, UnlockExclusive, UnlockStore, UnlockShared,
    UnlockSwap, UnlockExclusiveSlow, UnlockSharedSlow, UnparkReaders, UnparkWriter,
    WriteLabel, ReadLabel
<1>5. state.count # 0 /\ ~RoomForReader
  BY <1>1, RwLockAssumption DEF RoomForReader
<1>6. CASE state' = state
  <2>1. {} \in SUBSET Flag /\ state.flags \cup {} = state.flags
    OBVIOUS
  <2> QED BY <1>1, <1>2, <1>4, <1>6, <2>1, Zenon
<1>7. CASE SetWritersParked(t)
  BY <1>1, <1>2, <1>4, <1>7, Zenon DEF SetWritersParked, Flag
<1>8. CASE SetReadersParked(t)
  BY <1>1, <1>2, <1>4, <1>8, Zenon DEF SetReadersParked, Flag
<1>9. state' = state \/ SetWritersParked(t) \/ SetReadersParked(t)
  <2>1. state # Word(0, {WRITERS_PARKED}) /\ state # Unlocked
    BY <1>5 DEF Word, Unlocked
  <2> QED BY <1>3, <1>5, <2>1 DEF Request, Proceed, Acquire, LockExclusive, LockExclusiveFails,
    LockShared, LockSharedFails, Downgrade, LockExclusiveSlow, ParkWriter, LockSharedSlow,
    ReaderOverflow, ParkReader, UnlockExclusive, UnlockStore, UnlockShared, UnlockSwap,
    UnlockExclusiveSlow, UnlockSharedSlow, UnparkReaders, UnparkWriter, WriteLabel, ReadLabel
<1> QED BY <1>6, <1>7, <1>8, <1>9

(* UnlockInv is kept: while a thread is in unlock_exclusive_slow flags are  *)
(* only added.                                                             *)
LEMMA UnlockStep ==
  ASSUME TypeOK, LockInv, UnlockInv, QueueInv, NEW t \in Thread,
         Request(t) \/ Downgrade(t) \/ Proceed(t)
  PROVE  UnlockInv'
<1> SUFFICES ASSUME NEW u \in Thread
             PROVE  /\ pc'[u] = "unlock_slow" => state'.flags # {}
                    /\ pc'[u] = "unlock_swap" =>
                         /\ seen'[u] \in {Word(Writer, {READERS_PARKED}), Word(Writer, {WRITERS_PARKED})}
                         /\ state' \in {seen'[u], Word(Writer, Flag)}
                    /\ pc'[u] = "unlock_store" => state' = Word(Writer, Flag)
  BY Zenon DEF UnlockInv
<1> DEFINE L == {"unlock_slow", "unlock_swap", "unlock_store"}
<1>1. CASE u # t /\ pc[u] \in L
  <2>1. u \in HoldsWrite
    BY <1>1 DEF HoldsWrite
  <2>2. PICK f \in SUBSET Flag : state' = Word(Writer, state.flags \cup f)
    BY <1>1, <2>1, UnderWriter, Zenon
  <2>3. pc'[u] = pc[u] /\ seen'[u] = seen[u]
    BY <1>1, <2>1, UnderWriter
  <2>4. state'.flags = state.flags \cup f
    BY <2>2 DEF Word
  <2>5. \A g, h \in SUBSET Flag : g \cup h \in SUBSET Flag
    OBVIOUS
  <2>6. CASE pc[u] = "unlock_slow"
    BY <2>3, <2>4, <2>6 DEF UnlockInv
  <2>7. CASE pc[u] = "unlock_swap"
    <3>1. PICK x \in Flag : seen[u] = Word(Writer, {x})
      BY <2>7, Zenon DEF UnlockInv, Flag
    <3>2. state.flags \in {{x}, Flag}
      BY <2>7, <3>1 DEF UnlockInv, Word
    <3>3. state.flags \cup f \in {{x}, Flag}
      BY <3>2 DEF Flag
    <3>4. seen[u] \in {Word(Writer, {READERS_PARKED}), Word(Writer, {WRITERS_PARKED})}
      BY <2>7, Zenon DEF UnlockInv
    <3>5. state' \in {seen[u], Word(Writer, Flag)}
      BY <2>2, <3>1, <3>3
    <3> QED BY <2>3, <2>7, <3>4, <3>5
  <2>8. CASE pc[u] = "unlock_store"
    <3>1. state.flags = Flag
      BY <2>8 DEF UnlockInv, Word
    <3>2. state.flags \cup f = Flag
      BY <3>1
    <3> QED BY <2>2, <2>3, <2>8, <3>2
  <2> QED BY <1>1, <2>6, <2>7, <2>8
<1>2. CASE u # t /\ pc[u] \notin L
  <2>1. pc'[u] \notin L
    <3>1. CASE pc[u] \in {"read_parked", "write_parked"} /\ (UnparkReaders(t) \/ UnparkWriter(t))
      <4>1. pc'[u] \in {pc[u], "read_slow", "write_slow", "idle"}
        BY <1>2, <3>1 DEF UnparkReaders, UnparkWriter, Goto, TypeOK
      <4> QED BY <3>1, <4>1
    <3>2. CASE pc'[u] = pc[u]
      BY <1>2, <3>2
    <3> QED BY <1>2, <3>1, <3>2, OthersStay, OneMoves, GotoType
  <2> QED BY <2>1
<1>3. CASE u = t /\ UnlockExclusive(t) /\ state # Word(Writer, {})
  <2>1. t \in HoldsWrite /\ state' = state /\ Goto(t, "unlock_slow")
    BY <1>3 DEF UnlockExclusive, HoldsWrite
  <2>2. state.count = Writer /\ state = Word(state.count, state.flags)
    BY <2>1, WriterAlone, WordFields
  <2>3. state.flags # {} /\ pc'[t] = "unlock_slow"
    <3>1. state.flags # {}
      BY <1>3, <2>2, Zenon
    <3>2. pc'[t] = "unlock_slow"
      BY <2>1, GotoType DEF Label
    <3> QED BY <3>1, <3>2
  <2> QED BY <1>3, <2>1, <2>3
<1>4. CASE u = t /\ UnlockExclusiveSlow(t)
  <2>1. t \in HoldsWrite /\ state' = state
    BY <1>4 DEF UnlockExclusiveSlow, HoldsWrite
  <2>2. state = Word(Writer, state.flags) /\ state.flags \in SUBSET Flag /\ state.flags # {}
    BY <1>4, <2>1, WriterAlone, WordFields DEF UnlockInv, UnlockExclusiveSlow
  <2>3. CASE state.flags = Flag
    <3>1. pc'[t] = "unlock_store"
      BY <1>4, <2>3, GotoType DEF UnlockExclusiveSlow, Label
    <3> QED BY <1>4, <2>1, <2>2, <2>3, <3>1
  <2>4. CASE state.flags # Flag
    <3>1. pc'[t] = "unlock_swap"
      BY <1>4, <2>4, GotoType DEF UnlockExclusiveSlow, Label
    <3>2. seen'[t] = state
      BY <1>4, <2>4 DEF UnlockExclusiveSlow, TypeOK
    <3>3. state.flags = {READERS_PARKED} \/ state.flags = {WRITERS_PARKED}
      BY <2>2, <2>4 DEF Flag
    <3> QED BY <1>4, <2>1, <2>2, <3>1, <3>2, <3>3
  <2> QED BY <2>3, <2>4
<1>5. CASE u = t /\ UnlockSwap(t) /\ state # seen[t]
  <2>1. state' = state /\ pc'[t] = "unlock_store" /\ state = Word(Writer, Flag)
    BY <1>5, GotoType DEF UnlockSwap, Label, UnlockInv
  <2> QED BY <1>5, <2>1
<1>6. CASE /\ u = t
           /\ ~(UnlockExclusive(t) /\ state # Word(Writer, {}))
           /\ ~UnlockExclusiveSlow(t)
           /\ ~(UnlockSwap(t) /\ state # seen[t])
  <2>1. CASE UnparkReaders(t)
    BY <1>6, <2>1 DEF UnparkReaders
  <2>2. CASE UnparkWriter(t)
    <3>1. pc'[t] \in {"idle", "write_slow"}
      BY <2>2 DEF UnparkWriter, Goto, TypeOK
    <3> QED BY <1>6, <3>1
  <2>3. CASE ~UnparkReaders(t) /\ ~UnparkWriter(t)
    <3>1. \E l \in Label \ L : Goto(t, l)
      <4> USE <1>6 DEF Label
      <4>1. CASE Request(t) \/ Downgrade(t)
        BY <4>1 DEF Request, LockExclusive, LockExclusiveFails, LockShared, LockSharedFails,
                    Downgrade
      <4>2. CASE LockExclusiveSlow(t) \/ SetWritersParked(t) \/ ParkWriter(t)
        BY <4>2 DEF LockExclusiveSlow, SetWritersParked, ParkWriter
      <4>3. CASE LockSharedSlow(t) \/ ReaderOverflow(t) \/ SetReadersParked(t) \/ ParkReader(t)
        BY <4>3 DEF LockSharedSlow, ReaderOverflow, SetReadersParked, ParkReader
      <4>4. CASE UnlockExclusive(t) \/ UnlockSwap(t) \/ UnlockStore(t)
        BY <4>4 DEF UnlockExclusive, UnlockSwap, UnlockStore
      <4>5. CASE UnlockShared(t) \/ UnlockSharedSlow(t)
        BY <4>5 DEF UnlockShared, UnlockSharedSlow
      <4> QED BY <2>3, <4>1, <4>2, <4>3, <4>4, <4>5 DEF Proceed, Acquire
    <3>2. PICK l \in Label \ L : Goto(t, l)
      BY <3>1
    <3>3. pc'[t] \notin L
      BY <3>2, GotoType
    <3> QED BY <1>6, <3>3
  <2> QED BY <2>1, <2>2, <2>3
<1> QED BY <1>1, <1>2, <1>3, <1>4, <1>5, <1>6

-----------------------------------------------------------------------------
(* The parking queues.                                                     *)

(* A thread that takes a step is not parked.                               *)
LEMMA ActorAwake ==
  ASSUME NEW t \in Thread, Request(t) \/ Downgrade(t) \/ Proceed(t)
  PROVE  pc[t] \notin {"read_parked", "write_parked"}
BY DEF Request, Proceed, Acquire, LockExclusive, LockExclusiveFails, LockShared, LockSharedFails,
  Downgrade, LockExclusiveSlow, SetWritersParked, ParkWriter, LockSharedSlow, ReaderOverflow,
  SetReadersParked, ParkReader, UnlockExclusive, UnlockStore, UnlockShared, UnlockSwap,
  UnlockExclusiveSlow, UnlockSharedSlow, UnparkReaders, UnparkWriter

(* Steps that neither park nor wake leave the queues alone.                *)
LEMMA QueuesStay ==
  ASSUME NEW t \in Thread, Request(t) \/ Downgrade(t) \/ Proceed(t),
         ~ParkReader(t), ~ParkWriter(t), ~UnparkReaders(t), ~UnparkWriter(t)
  PROVE  readers' = readers /\ writers' = writers
BY Zenon DEF Request, Proceed, Acquire, LockExclusive, LockExclusiveFails, LockShared, LockSharedFails,
  Downgrade, LockExclusiveSlow, SetWritersParked, LockSharedSlow, ReaderOverflow,
  SetReadersParked, UnlockExclusive, UnlockStore, UnlockShared, UnlockSwap,
  UnlockExclusiveSlow, UnlockSharedSlow, queues

(* Only the acting thread changes what it will set on acquiring.           *)
LEMMA FlagsOfOthers ==
  ASSUME TypeOK, NEW t \in Thread, Request(t) \/ Downgrade(t) \/ Proceed(t),
         NEW u \in Thread, u # t
  PROVE  acquire_with'[u] = acquire_with[u]
<1>1. CASE LockExclusiveSlow(t) \/ ParkWriter(t)
  BY <1>1 DEF LockExclusiveSlow, ParkWriter, TypeOK
<1>2. CASE ~LockExclusiveSlow(t) /\ ~ParkWriter(t)
  BY <1>2 DEF Request, Proceed, Acquire, LockExclusive, LockExclusiveFails, LockShared,
    LockSharedFails, Downgrade, SetWritersParked, LockSharedSlow, ReaderOverflow, ParkReader,
    SetReadersParked, UnlockExclusive, UnlockStore, UnlockShared, UnlockSwap,
    UnlockExclusiveSlow, UnlockSharedSlow, UnparkReaders, UnparkWriter
<1> QED BY <1>1, <1>2

(* Nobody parks but in ParkWriter and ParkReader.                          *)
LEMMA WhoParks ==
  ASSUME TypeOK, QueueInv, NEW t \in Thread, Request(t) \/ Downgrade(t) \/ Proceed(t),
         NEW u \in Thread, pc'[u] = "write_parked"
  PROVE  (pc[u] = "write_parked" /\ u # t) \/ (u = t /\ ParkWriter(t))
<1>1. CASE u = t /\ ~ParkWriter(t)
  <2>1. CASE UnparkReaders(t)
    BY <1>1, <2>1 DEF UnparkReaders
  <2>2. CASE UnparkWriter(t)
    <3>1. pc'[t] \in {"idle", "write_slow"}
      BY <2>2 DEF UnparkWriter, Goto, TypeOK
    <3> QED BY <1>1, <3>1
  <2>3. CASE ~UnparkReaders(t) /\ ~UnparkWriter(t)
    <3>1. \E l \in Label \ {"write_parked"} : Goto(t, l)
      <4> USE <1>1 DEF Label
      <4>1. CASE Request(t) \/ Downgrade(t)
        BY <4>1 DEF Request, LockExclusive, LockExclusiveFails, LockShared, LockSharedFails,
                    Downgrade
      <4>2. CASE LockExclusiveSlow(t) \/ SetWritersParked(t)
        BY <4>2 DEF LockExclusiveSlow, SetWritersParked
      <4>3. CASE LockSharedSlow(t) \/ ReaderOverflow(t) \/ SetReadersParked(t) \/ ParkReader(t)
        BY <4>3 DEF LockSharedSlow, ReaderOverflow, SetReadersParked, ParkReader
      <4>4. CASE UnlockExclusive(t) \/ UnlockSwap(t) \/ UnlockStore(t) \/ UnlockExclusiveSlow(t)
        BY <4>4 DEF UnlockExclusive, UnlockSwap, UnlockStore, UnlockExclusiveSlow
      <4>5. CASE UnlockShared(t) \/ UnlockSharedSlow(t)
        BY <4>5 DEF UnlockShared, UnlockSharedSlow
      <4> QED BY <2>3, <4>1, <4>2, <4>3, <4>4, <4>5, SMTT(60) DEF Proceed, Acquire
    <3>2. PICK l \in Label \ {"write_parked"} : Goto(t, l)
      BY <3>1
    <3> QED BY <1>1, <3>2, GotoType
  <2> QED BY <2>1, <2>2, <2>3
<1>2. CASE u # t /\ pc[u] # "write_parked"
  <2>1. CASE UnparkReaders(t)
    BY <1>2, <2>1 DEF UnparkReaders
  <2>2. CASE UnparkWriter(t)
    <3>1. pc'[u] \in {pc[u], "write_slow"}
      BY <1>2, <2>2 DEF UnparkWriter, Goto, TypeOK
    <3> QED BY <1>2, <3>1
  <2> QED BY <1>2, <2>1, <2>2, OneMoves, GotoType
<1> QED BY <1>1, <1>2

(* QueueInv is kept.                                                       *)
LEMMA QueueStep ==
  ASSUME TypeOK, QueueInv, NEW t \in Thread, Request(t) \/ Downgrade(t) \/ Proceed(t)
  PROVE  QueueInv'
<1>1. readers \in Seq(Thread) /\ writers \in Seq(Thread) /\ pc \in [Thread -> Label]
  BY DEF TypeOK
<1>2. \A i \in 1..Len(writers) : writers[i] \in Thread /\ writers[i] # t
  BY <1>1, ActorAwake DEF QueueInv
<1>3. \A u \in Parked(readers) : u \in Thread /\ u # t
  BY <1>1, ActorAwake DEF QueueInv, Parked
<1>4. \A u \in Thread : pc'[u] = "write_parked" => acquire_with'[u] = {WRITERS_PARKED}
  <2> SUFFICES ASSUME NEW u \in Thread, pc'[u] = "write_parked"
               PROVE  acquire_with'[u] = {WRITERS_PARKED}
    OBVIOUS
  <2>1. CASE u # t /\ pc[u] = "write_parked"
    BY <2>1, FlagsOfOthers DEF QueueInv
  <2>2. CASE u = t /\ ParkWriter(t)
    BY <2>2 DEF ParkWriter, TypeOK
  <2> QED BY <2>1, <2>2, WhoParks
<1>5. CASE (\E l \in Label : Goto(t, l)) /\ ~UnparkReaders(t) /\ (UnparkWriter(t) => writers = <<>>)
  <2>1. \A u \in Thread \ {t} : pc'[u] = pc[u]
    BY <1>5, GotoType
  <2>2. CASE readers' = readers /\ writers' = writers
    BY <1>2, <1>3, <1>4, <2>1, <2>2 DEF QueueInv, Parked
  <2>3. CASE ParkReader(t) /\ readers' # readers
    <3>1. readers' = Append(readers, t) /\ writers' = writers /\ pc'[t] = "read_parked"
      BY <1>1, <2>3, GotoType DEF ParkReader, Label
    <3>2. \A u \in Parked(readers') : u = t \/ u \in Parked(readers)
      BY <1>1, <3>1 DEF Parked
    <3> QED BY <1>2, <1>3, <1>4, <2>1, <3>1, <3>2 DEF QueueInv
  <2>4. CASE ParkWriter(t) /\ writers' # writers
    <3>1. /\ writers' = Append(writers, t) /\ readers' = readers /\ pc'[t] = "write_parked"
      BY <1>1, <2>4, GotoType DEF ParkWriter, Label
    <3>2. /\ Len(writers') = Len(writers) + 1 /\ Len(writers) \in Nat
          /\ writers'[Len(writers) + 1] = t
          /\ \A i \in 1..Len(writers) : writers'[i] = writers[i]
      BY <1>1, <3>1
    <3>3. \A i \in 1..Len(writers') : pc'[writers'[i]] = "write_parked"
      BY <1>2, <2>1, <3>1, <3>2 DEF QueueInv
    <3>4. \A i, j \in 1..Len(writers') : writers'[i] = writers'[j] => i = j
      BY <1>2, <3>2 DEF QueueInv
    <3>5. \A u \in Parked(readers) : pc'[u] = "read_parked"
      BY <1>3, <2>1 DEF QueueInv
    <3> QED BY <1>4, <3>1, <3>3, <3>4, <3>5 DEF QueueInv
  <2>5. CASE ParkReader(t) /\ readers' = readers
    BY <2>2, <2>5 DEF ParkReader
  <2>6. CASE ParkWriter(t) /\ writers' = writers
    BY <2>2, <2>6 DEF ParkWriter
  <2>7. CASE UnparkWriter(t)
    BY <1>5, <2>2, <2>7 DEF UnparkWriter
  <2> QED BY <1>5, <2>2, <2>3, <2>4, <2>5, <2>6, <2>7, QueuesStay
<1>6. CASE UnparkReaders(t)
  <2>1. readers' = <<>> /\ writers' = writers
    BY <1>6 DEF UnparkReaders
  <2>2. Parked(readers') = {}
    BY <2>1 DEF Parked
  <2>3. \A i \in 1..Len(writers) : pc'[writers[i]] = "write_parked"
    BY <1>2, <1>6 DEF UnparkReaders, QueueInv
  <2> QED BY <1>4, <2>1, <2>2, <2>3 DEF QueueInv
<1>7. CASE UnparkWriter(t) /\ writers # <<>>
  <2>1. /\ Head(writers) = writers[1] /\ 1 \in 1..Len(writers) /\ Len(writers) \in Nat
        /\ Len(Tail(writers)) = Len(writers) - 1
        /\ \A i \in 1..Len(Tail(writers)) : Tail(writers)[i] = writers[i + 1]
    BY <1>1, <1>7
  <2>2. writers' = Tail(writers) /\ readers' = readers
    BY <1>7 DEF UnparkWriter
  <2>3. \A u \in Thread : u \notin {t, Head(writers)} => pc'[u] = pc[u]
    BY <1>1, <1>7 DEF UnparkWriter
  <2>4. \A i \in 1..Len(Tail(writers)) : i + 1 \in 1..Len(writers) /\ Tail(writers)[i] # writers[1]
    BY <2>1 DEF QueueInv
  <2>5. \A i \in 1..Len(Tail(writers)) : pc'[Tail(writers)[i]] = "write_parked"
    BY <1>2, <2>1, <2>3, <2>4 DEF QueueInv
  <2>6. \A i, j \in 1..Len(Tail(writers)) : Tail(writers)[i] = Tail(writers)[j] => i = j
    BY <2>1, <2>4 DEF QueueInv
  <2>7. \A u \in Parked(readers) : pc'[u] = "read_parked"
    BY <1>3, <2>1, <2>3 DEF QueueInv
  <2> QED BY <1>4, <2>2, <2>5, <2>6, <2>7 DEF QueueInv
<1>8. CASE UnparkWriter(t) /\ writers = <<>>
  <2>1. Goto(t, "idle") /\ ~UnparkReaders(t)
    BY <1>8 DEF UnparkWriter, UnparkReaders
  <2>2. "idle" \in Label
    BY DEF Label
  <2> QED BY <1>5, <1>8, <2>1, <2>2, Zenon
<1> QED BY <1>5, <1>6, <1>7, <1>8, OneMoves

-----------------------------------------------------------------------------
(* Flags and wakeups.                                                      *)

(* What a thread can do next, by where it is.                              *)
LEMMA StepFrom ==
  ASSUME NEW t \in Thread, Request(t) \/ Downgrade(t) \/ Proceed(t)
  PROVE  /\ pc[t] \in {"read_slow", "read_park"} =>
              LockSharedSlow(t) \/ ReaderOverflow(t) \/ SetReadersParked(t) \/ ParkReader(t)
         /\ pc[t] \in {"write_slow", "write_park"} =>
              LockExclusiveSlow(t) \/ SetWritersParked(t) \/ ParkWriter(t)
         /\ pc[t] \in {"unpark_readers", "downgrade_unpark"} => UnparkReaders(t)
         /\ pc[t] = "unpark_writer" => UnparkWriter(t)
         /\ pc[t] = "unlock_shared_slow" => UnlockSharedSlow(t)
BY Zenon DEF Request, Proceed, Acquire, LockExclusive, LockExclusiveFails, LockShared, LockSharedFails,
  Downgrade, LockExclusiveSlow, SetWritersParked, ParkWriter, LockSharedSlow, ReaderOverflow,
  SetReadersParked, ParkReader, UnlockExclusive, UnlockStore, UnlockShared, UnlockSwap,
  UnlockExclusiveSlow, UnlockSharedSlow, UnparkReaders, UnparkWriter

(* The steps that write the word.                                          *)
LEMMA WordWriters ==
  ASSUME NEW t \in Thread, Request(t) \/ Downgrade(t) \/ Proceed(t)
  PROVE  \/ state' = state
         \/ LockExclusive(t) \/ LockExclusiveSlow(t) \/ LockShared(t) \/ LockSharedSlow(t)
         \/ SetWritersParked(t) \/ SetReadersParked(t) \/ UnlockShared(t) \/ Downgrade(t)
         \/ UnlockExclusive(t) /\ state = Word(Writer, {})
         \/ UnlockSwap(t) /\ state = seen[t]
         \/ UnlockStore(t)
         \/ UnlockSharedSlow(t) /\ state = Word(0, {WRITERS_PARKED})
<1>1. /\ LockExclusiveFails(t) \/ LockSharedFails(t) \/ ReaderOverflow(t) => state' = state
      /\ UnlockExclusiveSlow(t) \/ UnparkReaders(t) \/ UnparkWriter(t) => state' = state
  BY DEF LockExclusiveFails, LockSharedFails, ReaderOverflow, UnlockExclusiveSlow,
         UnparkReaders, UnparkWriter
<1>2. ParkWriter(t) \/ ParkReader(t) => state' = state
  BY DEF ParkWriter, ParkReader
<1>3. UnlockExclusive(t) => state' = state \/ state = Word(Writer, {})
  BY DEF UnlockExclusive
<1>4. UnlockSwap(t) => state' = state \/ state = seen[t]
  BY DEF UnlockSwap
<1>5. UnlockSharedSlow(t) => state' = state \/ state = Word(0, {WRITERS_PARKED})
  BY DEF UnlockSharedSlow
<1> QED BY <1>1, <1>2, <1>3, <1>4, <1>5, Zenon DEF Request, Proceed, Acquire

(* The word after those steps.                                             *)
LEMMA WordAfter ==
  ASSUME TypeOK, LockInv, NEW t \in Thread
  PROVE  /\ LockExclusive(t) => state.count = 0 /\ state.flags = {} /\ state' = Word(Writer, {})
         /\ LockExclusiveSlow(t) =>
              state.count = 0 /\ state' = Word(Writer, state.flags \cup acquire_with[t])
         /\ LockShared(t) \/ LockSharedSlow(t) =>
              state.count < Writer /\ state' = Word(state.count + 1, state.flags)
         /\ UnlockShared(t) =>
              /\ state.count < Writer /\ state.count > 0
              /\ state' = Word(state.count - 1, state.flags)
         /\ UnlockExclusive(t) /\ state = Word(Writer, {}) => state' = Word(0, {})
         /\ UnlockSwap(t) /\ state = seen[t] => state' = Word(0, {})
         /\ UnlockStore(t) => state' = Word(0, {WRITERS_PARKED})
         /\ UnlockSharedSlow(t) /\ state = Word(0, {WRITERS_PARKED}) => state' = Word(0, {})
         /\ Downgrade(t) => state' = Word(1, state.flags \ {READERS_PARKED})
<1>1. LockExclusive(t) => state.count = 0 /\ state.flags = {} /\ state' = Word(Writer, {})
  BY DEF LockExclusive, Unlocked, Word
<1>2. LockExclusiveSlow(t) =>
        state.count = 0 /\ state' = Word(Writer, state.flags \cup acquire_with[t])
  BY DEF LockExclusiveSlow
<1>3. LockShared(t) \/ LockSharedSlow(t) =>
        state.count < Writer /\ state' = Word(state.count + 1, state.flags)
  <2>1. state.count \in Nat
    BY DEF TypeOK, WordType
  <2>2. state.count + 1 < Writer => state.count < Writer
    BY <2>1, RwLockAssumption
  <2> QED BY <2>2 DEF LockShared, LockSharedSlow, RoomForReader
<1>4. UnlockShared(t) => /\ state.count < Writer /\ state.count > 0
                         /\ state' = Word(state.count - 1, state.flags)
  <2>1. UnlockShared(t) => t \in HoldsRead /\ state' = Word(state.count - 1, state.flags)
    BY DEF UnlockShared, HoldsRead
  <2> QED BY <2>1, ReaderCounted
<1>5. /\ UnlockExclusive(t) /\ state = Word(Writer, {}) => state' = Word(0, {})
      /\ UnlockSwap(t) /\ state = seen[t] => state' = Word(0, {})
      /\ UnlockSharedSlow(t) /\ state = Word(0, {WRITERS_PARKED}) => state' = Word(0, {})
  BY DEF UnlockExclusive, UnlockSwap, UnlockSharedSlow, Unlocked
<1>6. /\ UnlockStore(t) => state' = Word(0, {WRITERS_PARKED})
      /\ Downgrade(t) => state' = Word(1, state.flags \ {READERS_PARKED})
  BY DEF UnlockStore, Downgrade
<1> QED BY <1>1, <1>2, <1>3, <1>4, <1>5, <1>6, Zenon

(* A queue is not empty when a thread has been put in it.                  *)
LEMMA AppendNonempty ==
  ASSUME NEW q \in Seq(Thread), NEW t \in Thread
  PROVE  Append(q, t) # <<>>
<1>1. Len(Append(q, t)) = Len(q) + 1 /\ Len(q) \in Nat
  OBVIOUS
<1>2. Len(<<>>) = 0
  OBVIOUS
<1> QED BY <1>1, <1>2

(* The flag of the readers is set only by a reader, under a writer, and is *)
(* not there when the lock changes hands.                                  *)
LEMMA ReadersFlag ==
  ASSUME TypeOK, LockInv, ReadersInv, NEW t \in Thread,
         Request(t) \/ Downgrade(t) \/ Proceed(t), READERS_PARKED \in state'.flags
  PROVE  /\ state.count = Writer /\ state'.count = Writer
         /\ SetReadersParked(t) \/ READERS_PARKED \in state.flags
<1> USE DEF READERS_PARKED, WRITERS_PARKED
<1>1. CASE state' = state
  BY <1>1 DEF ReadersInv
<1>2. CASE SetReadersParked(t)
  BY <1>2 DEF SetReadersParked, Word
<1>3. CASE SetWritersParked(t)
  <2>1. state' = Word(state.count, state.flags \cup {WRITERS_PARKED})
    BY <1>3 DEF SetWritersParked
  <2>2. state'.count = state.count /\ READERS_PARKED \in state.flags
    BY <2>1 DEF Word
  <2> QED BY <2>2 DEF ReadersInv
<1>4. READERS_PARKED \in state.flags => state.count = Writer
  BY DEF ReadersInv
<1>5. CASE LockExclusive(t) \/ LockExclusiveSlow(t)
  <2>1. state.count = 0
    BY <1>5, WordAfter, Zenon
  <2>2. state' = Word(Writer, {}) \/ state' = Word(Writer, state.flags \cup acquire_with[t])
    BY <1>5, WordAfter, Zenon
  <2>3. acquire_with[t] \subseteq {WRITERS_PARKED}
    BY DEF TypeOK
  <2>4. READERS_PARKED \in state.flags
    BY <2>2, <2>3 DEF Word
  <2> QED BY <1>4, <2>1, <2>4, RwLockAssumption
<1>6. CASE LockShared(t) \/ LockSharedSlow(t) \/ UnlockShared(t)
  <2>1. state.count < Writer
    BY <1>6, WordAfter, Zenon
  <2>2. \/ state' = Word(state.count + 1, state.flags)
        \/ state' = Word(state.count - 1, state.flags)
    BY <1>6, WordAfter, Zenon
  <2>3. READERS_PARKED \in state.flags
    BY <2>2 DEF Word
  <2> QED BY <1>4, <2>1, <2>3, RwLockAssumption
<1>7. CASE \/ UnlockExclusive(t) /\ state = Word(Writer, {})
           \/ UnlockSwap(t) /\ state = seen[t]
           \/ UnlockStore(t)
           \/ UnlockSharedSlow(t) /\ state = Word(0, {WRITERS_PARKED})
           \/ Downgrade(t)
  <2>1. \/ state' = Word(0, {})
        \/ state' = Word(0, {WRITERS_PARKED})
        \/ state' = Word(1, state.flags \ {READERS_PARKED})
    BY <1>7, WordAfter, Zenon
  <2>2. READERS_PARKED \notin state'.flags
    BY <2>1 DEF Word
  <2> QED BY <2>2
<1> QED BY <1>1, <1>2, <1>3, <1>5, <1>6, <1>7, WordWriters, Zenon

(* ReadersInv is kept.                                                     *)
LEMMA ReadersStep ==
  ASSUME TypeOK, LockInv, QueueInv, ReadersInv, NEW t \in Thread,
         Request(t) \/ Downgrade(t) \/ Proceed(t)
  PROVE  ReadersInv'
<1> SUFFICES ASSUME READERS_PARKED \in state'.flags
             PROVE  /\ state'.count = Writer
                    /\ readers' # <<>> \/ \E u \in Thread : pc'[u] \in {"read_slow", "read_park"}
  BY DEF ReadersInv, At
<1>1. state.count = Writer /\ state'.count = Writer
  BY ReadersFlag
<1>2. CASE SetReadersParked(t)
  BY <1>1, <1>2, GotoType DEF SetReadersParked, Label
<1>3. CASE READERS_PARKED \in state.flags /\ readers # <<>>
  <2>1. CASE UnparkReaders(t)
    <3>1. readers[1] \in Parked(readers) /\ readers[1] \in Thread
      BY <1>3 DEF TypeOK, Parked
    <3>2. readers[1] # t
      BY <2>1, <3>1 DEF QueueInv, UnparkReaders
    <3>3. pc'[readers[1]] = "read_slow"
      BY <2>1, <3>1, <3>2 DEF UnparkReaders
    <3> QED BY <1>1, <3>1, <3>3
  <2>2. CASE ParkReader(t)
    <3>1. readers' = readers \/ readers' = Append(readers, t)
      BY <2>2 DEF ParkReader
    <3>2. Append(readers, t) # <<>>
      BY AppendNonempty DEF TypeOK
    <3> QED BY <1>1, <1>3, <3>1, <3>2
  <2>3. CASE ParkWriter(t) \/ UnparkWriter(t)
    BY <1>1, <1>3, <2>3 DEF ParkWriter, UnparkWriter
  <2> QED BY <1>1, <1>3, <2>1, <2>2, <2>3, QueuesStay
<1>4. ASSUME NEW u \in Thread, pc[u] \in {"read_slow", "read_park"}
      PROVE  readers' # <<>> \/ \E v \in Thread : pc'[v] \in {"read_slow", "read_park"}
  <2>1. CASE u # t
    BY <1>4, <2>1, OthersStay
  <2>2. CASE u = t
    <3>1. ~LockSharedSlow(t) /\ ~ReaderOverflow(t)
      BY <1>1, RwLockAssumption DEF LockSharedSlow, ReaderOverflow, RoomForReader
    <3>2. CASE ParkReader(t)
      <4>1. CASE readers' = Append(readers, t)
        BY <4>1, AppendNonempty DEF TypeOK
      <4>2. CASE Goto(t, "read_slow")
        BY <4>2, GotoType DEF Label
      <4> QED BY <3>2, <4>1, <4>2 DEF ParkReader
    <3>3. CASE SetReadersParked(t)
      BY <3>3, GotoType DEF SetReadersParked, Label
    <3> QED BY <1>4, <2>2, <3>1, <3>2, <3>3, StepFrom
  <2> QED BY <2>1, <2>2
<1> QED BY <1>1, <1>2, <1>3, <1>4, ReadersFlag DEF ReadersInv, At

(* A parked reader is not forgotten.                                       *)
LEMMA ReaderWakeupStep ==
  ASSUME TypeOK, LockInv, UnlockInv, QueueInv, NoLostWakeup, NEW t \in Thread,
         Request(t) \/ Downgrade(t) \/ Proceed(t), readers' # <<>>
  PROVE  \/ state'.count = Writer /\ READERS_PARKED \in state'.flags
         \/ \E u \in Thread : pc'[u] \in {"unpark_readers", "downgrade_unpark"}
<1>1. CASE ParkReader(t) /\ state.count = Writer /\ READERS_PARKED \in state.flags
  BY <1>1 DEF ParkReader
<1>2. CASE readers # <<>> /\ state.count = Writer /\ READERS_PARKED \in state.flags
  <2>1. state.count # 0 /\ state.flags # {} /\ state # Word(Writer, {}) /\ state # Word(0, {WRITERS_PARKED})
    BY <1>2, RwLockAssumption DEF Word
  <2>2. CASE state' = state
    BY <1>2, <2>2
  <2>3. CASE SetReadersParked(t) \/ SetWritersParked(t)
    BY <1>2, <2>3 DEF SetReadersParked, SetWritersParked, Word
  <2>4. CASE UnlockSwap(t) /\ state = seen[t]
    BY <1>2, <2>4, GotoType DEF UnlockSwap, Label
  <2>5. CASE UnlockStore(t)
    BY <2>5, GotoType DEF UnlockStore, Label
  <2>6. CASE Downgrade(t)
    BY <1>2, <2>6, GotoType DEF Downgrade, Label
  <2>7. ~LockExclusive(t) /\ ~LockExclusiveSlow(t)
    BY <2>1, WordAfter, Zenon
  <2>8. ~LockShared(t) /\ ~LockSharedSlow(t) /\ ~UnlockShared(t)
    <3>1. ~(state.count < Writer)
      BY <1>2, RwLockAssumption
    <3> QED BY <3>1, WordAfter, Zenon
  <2> QED BY <2>1, <2>2, <2>3, <2>4, <2>5, <2>6, <2>7, <2>8, WordWriters, Zenon
<1>3. ASSUME NEW u \in Thread, pc[u] \in {"unpark_readers", "downgrade_unpark"}
      PROVE  \E v \in Thread : pc'[v] \in {"unpark_readers", "downgrade_unpark"}
  <2>1. CASE u # t
    BY <1>3, <2>1, OthersStay
  <2>2. CASE u = t
    BY <1>3, <2>2, StepFrom DEF UnparkReaders
  <2> QED BY <2>1, <2>2
<1>4. (ParkReader(t) /\ state.count = Writer /\ READERS_PARKED \in state.flags) \/ readers # <<>>
  BY QueuesStay DEF ParkReader, ParkWriter, UnparkReaders, UnparkWriter
<1> QED BY <1>1, <1>2, <1>3, <1>4 DEF NoLostWakeup, At

(* Nor is a parked writer.                                                 *)
LEMMA WriterWakeupStep ==
  ASSUME TypeOK, LockInv, UnlockInv, QueueInv, NoLostWakeup, NEW t \in Thread,
         Request(t) \/ Downgrade(t) \/ Proceed(t), writers' # <<>>
  PROVE  \/ WRITERS_PARKED \in state'.flags
         \/ \E u \in Thread : pc'[u] = "unpark_writer"
         \/ \E u \in Thread : pc'[u] \in {"write_slow", "write_park"} /\ acquire_with'[u] # {}
<1> USE DEF READERS_PARKED, WRITERS_PARKED
<1>1. CASE ParkWriter(t) /\ state.count # 0 /\ WRITERS_PARKED \in state.flags
  BY <1>1 DEF ParkWriter
<1>2. CASE WRITERS_PARKED \in state.flags
  <2>1. CASE state' = state
    BY <1>2, <2>1
  <2>2. CASE SetReadersParked(t) \/ SetWritersParked(t) \/ Downgrade(t) \/ UnlockStore(t)
    BY <1>2, <2>2 DEF SetReadersParked, SetWritersParked, Downgrade, UnlockStore, Word
  <2>3. CASE LockExclusiveSlow(t) \/ LockShared(t) \/ LockSharedSlow(t) \/ UnlockShared(t)
    BY <1>2, <2>3 DEF LockExclusiveSlow, LockShared, LockSharedSlow, UnlockShared, Word
  <2>4. CASE UnlockSwap(t) /\ state = seen[t]
    <3>1. READERS_PARKED \notin state.flags
      BY <1>2, <2>4 DEF UnlockInv, UnlockSwap, Word
    <3>2. pc'[t] = "unpark_writer"
      BY <2>4, <3>1, GotoType DEF UnlockSwap, Label
    <3> QED BY <3>2
  <2>5. CASE UnlockSharedSlow(t) /\ state = Word(0, {WRITERS_PARKED})
    BY <2>5, GotoType DEF UnlockSharedSlow, Label
  <2>6. ~LockExclusive(t) /\ state # Word(Writer, {})
    BY <1>2 DEF LockExclusive, Unlocked, Word
  <2> QED BY <2>1, <2>2, <2>3, <2>4, <2>5, <2>6, WordWriters, Zenon
<1>3. ASSUME NEW u \in Thread, pc[u] = "unpark_writer"
      PROVE  \/ \E v \in Thread : pc'[v] = "unpark_writer"
             \/ \E v \in Thread : pc'[v] \in {"write_slow", "write_park"} /\ acquire_with'[v] # {}
  <2>1. CASE u # t
    BY <1>3, <2>1, OthersStay
  <2>2. CASE u = t
    <3>1. UnparkWriter(t) /\ writers # <<>>
      BY <1>3, <2>2, StepFrom DEF UnparkWriter
    <3>2. Head(writers) = writers[1] /\ 1 \in 1..Len(writers) /\ Head(writers) \in Thread
      BY <3>1 DEF TypeOK
    <3>3. pc[Head(writers)] = "write_parked"
      BY <3>2 DEF QueueInv
    <3>4. acquire_with'[Head(writers)] # {}
      BY <3>1, <3>2, <3>3, ZenonT(60) DEF QueueInv, UnparkWriter
    <3>5. pc'[Head(writers)] = "write_slow"
      BY <3>1, <3>2, <3>3 DEF UnparkWriter, TypeOK
    <3> QED BY <3>2, <3>4, <3>5
  <2> QED BY <2>1, <2>2
<1>4. ASSUME NEW u \in Thread, pc[u] \in {"write_slow", "write_park"}, acquire_with[u] # {}
      PROVE  \/ WRITERS_PARKED \in state'.flags
             \/ \E v \in Thread : pc'[v] \in {"write_slow", "write_park"} /\ acquire_with'[v] # {}
  <2>1. CASE u # t
    BY <1>4, <2>1, OthersStay, FlagsOfOthers, Zenon
  <2>2. CASE u = t
    <3>1. CASE LockExclusiveSlow(t)
      BY <1>4, <2>2, <3>1 DEF LockExclusiveSlow, TypeOK, Word
    <3>2. CASE SetWritersParked(t)
      BY <3>2 DEF SetWritersParked, Word
    <3>3. CASE ParkWriter(t)
      <4>1. CASE WRITERS_PARKED \in state.flags
        BY <3>3, <4>1 DEF ParkWriter
      <4>2. CASE WRITERS_PARKED \notin state.flags
        <5>1. Goto(t, "write_slow") /\ acquire_with' = [acquire_with EXCEPT ![t] = {WRITERS_PARKED}]
          BY <3>3, <4>2 DEF ParkWriter
        <5>2. pc'[t] = "write_slow" /\ acquire_with'[t] # {}
          BY <5>1, GotoType DEF Label, TypeOK
        <5> QED BY <5>2
      <4> QED BY <4>1, <4>2
    <3> QED BY <1>4, <2>2, <3>1, <3>2, <3>3, StepFrom, Zenon
  <2> QED BY <2>1, <2>2
<1>5. (ParkWriter(t) /\ state.count # 0 /\ WRITERS_PARKED \in state.flags) \/ writers # <<>>
  <2>1. CASE UnparkWriter(t)
    BY <2>1 DEF UnparkWriter
  <2>2. CASE ParkWriter(t)
    BY <2>2 DEF ParkWriter
  <2>3. CASE ParkReader(t) \/ UnparkReaders(t)
    BY <2>3 DEF ParkReader, UnparkReaders
  <2> QED BY <2>1, <2>2, <2>3, QueuesStay, Zenon
<1> QED BY <1>1, <1>2, <1>3, <1>4, <1>5 DEF NoLostWakeup, At

(* FlagInv is kept.                                                        *)
LEMMA FlagStep ==
  ASSUME TypeOK, LockInv, UnlockInv, QueueInv, ReadersInv, FlagInv, NEW t \in Thread,
         Request(t) \/ Downgrade(t) \/ Proceed(t)
  PROVE  FlagInv'
<1> DEFINE Server == {"unlock_shared_slow", "read_slow", "read_park"}
           Served == \/ \E u \in Thread : pc'[u] \in Server
                     \/ (\E u \in Thread : pc'[u] = "unpark_readers") /\ readers' # <<>>
<1> SUFFICES ASSUME state'.count = 0, WRITERS_PARKED \in state'.flags
             PROVE  Served
  BY DEF FlagInv, At
<1> USE DEF READERS_PARKED, WRITERS_PARKED
<1>1. CASE UnlockStore(t)
  <2>1. pc'[t] = "unpark_readers" /\ readers' = readers /\ \A u \in Thread \ {t} : pc'[u] = pc[u]
    BY <1>1, GotoType DEF UnlockStore, Label, queues
  <2>2. READERS_PARKED \in state.flags
    BY <1>1 DEF UnlockStore, UnlockInv, Word, Flag
  <2>3. readers # <<>> \/ \E u \in Thread : pc[u] \in {"read_slow", "read_park"}
    BY <2>2 DEF ReadersInv, At
  <2> QED BY <1>1, <2>1, <2>3 DEF UnlockStore
<1>2. CASE UnlockShared(t)
  <2>1. state'.count = state.count - 1 /\ state'.flags = state.flags /\ state.count < Writer
    <3>1. state' = Word(state.count - 1, state.flags) /\ state.count < Writer
      BY <1>2, WordAfter, Zenon
    <3> QED BY <3>1 DEF Word
  <2>2. state.count = 1 /\ READERS_PARKED \notin state.flags
    BY <2>1, RwLockAssumption DEF ReadersInv, TypeOK, WordType
  <2>3. state.flags = {WRITERS_PARKED}
    BY <2>1, <2>2, WordFields DEF Flag
  <2>4. state = Word(1, {WRITERS_PARKED})
    BY <2>2, <2>3, WordFields
  <2>5. pc'[t] = "unlock_shared_slow"
    BY <1>2, <2>4, GotoType DEF UnlockShared, Label
  <2> QED BY <2>5
<1>3. CASE state' = state
  <2>1. CASE \E u \in Thread : pc[u] \in Server
    <3>1. PICK u \in Thread : pc[u] \in Server
      BY <2>1
    <3>2. CASE u # t
      BY <3>1, <3>2, OthersStay
    <3>3. CASE u = t /\ pc[t] = "unlock_shared_slow"
      <4>1. state # Word(0, {WRITERS_PARKED}) \/ state' # state
        BY <3>3, StepFrom DEF UnlockSharedSlow, Unlocked, Word
      <4>2. READERS_PARKED \in state.flags
        BY <1>3, <4>1, WordFields DEF Flag
      <4> QED BY <1>3, <4>2, RwLockAssumption DEF ReadersInv
    <3>4. CASE u = t /\ pc[t] \in {"read_slow", "read_park"}
      <4>1. ~ReaderOverflow(t) /\ ~SetReadersParked(t) /\ ~LockSharedSlow(t)
        <5>1. state.count = 0
          BY <1>3
        <5>2. ~ReaderOverflow(t)
          BY <5>1, RwLockAssumption DEF ReaderOverflow, RoomForReader
        <5>3. ~SetReadersParked(t)
          BY <5>1, RwLockAssumption DEF SetReadersParked
        <5>4. ~LockSharedSlow(t)
          BY <1>3, <5>1 DEF LockSharedSlow, Word
        <5> QED BY <5>2, <5>3, <5>4
      <4>2. Goto(t, "read_slow")
        <5>1. ParkReader(t)
          BY <3>4, <4>1, StepFrom
        <5>2. state.count # Writer
          BY <1>3, RwLockAssumption
        <5> QED BY <5>1, <5>2 DEF ParkReader
      <4>3. "read_slow" \in Label
        BY DEF Label
      <4> QED BY <4>2, <4>3, GotoType, Zenon
    <3> QED BY <3>1, <3>2, <3>3, <3>4
  <2>2. CASE (\E u \in Thread : pc[u] = "unpark_readers") /\ readers # <<>>
    <3>1. PICK u \in Thread : pc[u] = "unpark_readers"
      BY <2>2
    <3>2. CASE UnparkReaders(t)
      <4>1. readers[1] \in Parked(readers) /\ readers[1] \in Thread
        BY <2>2 DEF TypeOK, Parked
      <4>2. readers[1] # t
        BY <3>2, <4>1 DEF QueueInv, UnparkReaders
      <4>3. pc'[readers[1]] = "read_slow"
        BY <3>2, <4>1, <4>2 DEF UnparkReaders
      <4> QED BY <4>1, <4>3
    <3>3. CASE ~UnparkReaders(t)
      <4>1. u # t
        BY <3>1, <3>3, StepFrom
      <4>2. pc'[u] = "unpark_readers"
        BY <3>1, <4>1, OthersStay
      <4>3. readers' # <<>>
        <5>1. CASE ParkReader(t)
          <6>1. readers' = readers \/ readers' = Append(readers, t)
            BY <5>1 DEF ParkReader
          <6>2. Append(readers, t) # <<>>
            BY AppendNonempty DEF TypeOK
          <6> QED BY <2>2, <6>1, <6>2
        <5>2. CASE ParkWriter(t) \/ UnparkWriter(t)
          BY <2>2, <5>2 DEF ParkWriter, UnparkWriter
        <5> QED BY <2>2, <3>3, <5>1, <5>2, QueuesStay
      <4> QED BY <4>2, <4>3
    <3> QED BY <3>2, <3>3
  <2> QED BY <1>3, <2>1, <2>2 DEF FlagInv, At
<1>4. CASE SetWritersParked(t) \/ SetReadersParked(t)
  BY <1>4, RwLockAssumption DEF SetWritersParked, SetReadersParked, Word
<1>5. CASE LockExclusive(t) \/ LockExclusiveSlow(t) \/ Downgrade(t)
  <2>1. CASE LockExclusive(t) \/ LockExclusiveSlow(t)
    <3>1. PICK flags : state' = Word(Writer, flags)
      BY <2>1, WordAfter, Zenon
    <3> QED BY <3>1, RwLockAssumption DEF Word
  <2>2. CASE Downgrade(t)
    <3>1. state' = Word(1, state.flags \ {READERS_PARKED})
      BY <2>2, WordAfter, Zenon
    <3> QED BY <3>1 DEF Word
  <2> QED BY <1>5, <2>1, <2>2
<1>6. CASE LockShared(t) \/ LockSharedSlow(t)
  <2>1. state' = Word(state.count + 1, state.flags)
    BY <1>6, WordAfter, Zenon
  <2>2. state.count \in Nat
    BY DEF TypeOK, WordType
  <2> QED BY <2>1, <2>2 DEF Word
<1>7. CASE \/ UnlockExclusive(t) /\ state = Word(Writer, {})
           \/ UnlockSwap(t) /\ state = seen[t]
           \/ UnlockSharedSlow(t) /\ state = Word(0, {WRITERS_PARKED})
  <2>1. state' = Word(0, {})
    BY <1>7, WordAfter, Zenon
  <2> QED BY <2>1 DEF Word
<1> QED BY <1>1, <1>2, <1>3, <1>4, <1>5, <1>6, <1>7, WordWriters, Zenon

-----------------------------------------------------------------------------
(* The theorems.                                                           *)

(* A free lock satisfies the invariant.                                    *)
LEMMA InitInv == Init => IInv
<1> SUFFICES ASSUME Init PROVE IInv
  OBVIOUS
<1>1. /\ state = Word(0, {}) /\ pc = [t \in Thread |-> "idle"]
      /\ readers = <<>> /\ writers = <<>>
  BY DEF Init, Unlocked
<1>2. state.count = 0 /\ state.flags = {}
  BY <1>1 DEF Word
<1>3. HoldsWrite = {} /\ HoldsRead = {}
  BY <1>1 DEF HoldsWrite, HoldsRead
<1>4. TypeOK
  BY RwLockAssumption DEF Init, TypeOK, WordType, Word, Unlocked, Label
<1>5. LockInv
  BY <1>2, <1>3, FS_EmptySet, RwLockAssumption DEF LockInv
<1>6. UnlockInv /\ ReadersInv /\ NoLostWakeup /\ FlagInv
  BY <1>1, <1>2 DEF UnlockInv, ReadersInv, NoLostWakeup, FlagInv
<1>7. QueueInv
  BY <1>1 DEF QueueInv, Parked
<1> QED BY <1>4, <1>5, <1>6, <1>7 DEF IInv

(* Every step keeps the invariant.                                         *)
LEMMA StepInv == IInv /\ [Next]_vars => IInv'
<1> SUFFICES ASSUME IInv, [Next]_vars PROVE IInv'
  OBVIOUS
<1>1. ASSUME NEW t \in Thread, Request(t) \/ Downgrade(t) \/ Proceed(t) PROVE IInv'
  <2>1. pc[t] = "reading" => state.count > 0
    BY ReaderCounted, Zenon DEF IInv, HoldsRead
  <2>2. TypeOK' /\ LockInv' /\ UnlockInv' /\ QueueInv'
    BY <1>1, <2>1, TypeStep, LockStep, UnlockStep, QueueStep DEF IInv
  <2>3. ReadersInv' /\ FlagInv'
    BY <1>1, ReadersStep, FlagStep DEF IInv
  <2>4. NoLostWakeup'
    BY <1>1, ReaderWakeupStep, WriterWakeupStep DEF IInv, NoLostWakeup, At
  <2> QED BY <2>2, <2>3, <2>4 DEF IInv
<1>2. CASE UNCHANGED vars
  <2>1. UNCHANGED <<state, pc, acquire_with, seen, readers, writers>>
    BY <1>2 DEF vars, queues
  <2>2. TypeOK' /\ QueueInv'
    BY <2>1 DEF IInv, TypeOK, QueueInv, Parked
  <2>5. UnlockInv'
    BY <2>1, Zenon DEF IInv, UnlockInv
  <2>3. LockInv'
    BY <2>1 DEF IInv, LockInv, HoldsRead, HoldsWrite
  <2>4. ReadersInv' /\ NoLostWakeup' /\ FlagInv'
    BY <2>1 DEF IInv, ReadersInv, NoLostWakeup, FlagInv, At
  <2> QED BY <2>2, <2>3, <2>4, <2>5 DEF IInv
<1> QED BY <1>1, <1>2 DEF Next

(* IInv holds in every reachable state of the lock.                        *)
THEOREM IInvHolds == Spec => []IInv
BY InitInv, StepInv, PTL DEF Spec

(* The count of the word never leaves its bits.                            *)
THEOREM TypeCorrect == Spec => []TypeOK
<1>1. IInv => TypeOK
  BY DEF IInv
<1> QED BY <1>1, IInvHolds, PTL

(* A writer has the lock alone, and the count tells who has it, with any   *)
(* number of threads: even with so many readers that the count fills up.   *)
THEOREM MutualExclusion == Spec => []Exclusion
<1>1. IInv => Exclusion
  <2> SUFFICES ASSUME IInv PROVE Exclusion
    OBVIOUS
  <2>1. CASE HoldsWrite = {}
    <3>1. state.count = Cardinality(HoldsRead) /\ state.count < Writer
      BY <2>1 DEF IInv, LockInv
    <3>2. state.count # Writer
      BY <3>1, RwLockAssumption DEF IInv, TypeOK, WordType
    <3> QED BY <2>1, <3>1, <3>2 DEF Exclusion
  <2>2. CASE HoldsWrite # {}
    <3>1. PICK w \in Thread : HoldsWrite = {w} /\ HoldsRead = {} /\ state.count = Writer
      BY <2>2 DEF IInv, LockInv
    <3>2. Cardinality(HoldsWrite) = 1
      BY <3>1, FS_Singleton
    <3> QED BY <2>2, <3>1, <3>2 DEF Exclusion
  <2> QED BY <2>1, <2>2
<1> QED BY <1>1, IInvHolds, PTL

(* The assertions of unlock_exclusive_slow never fail, and its plain store *)
(* loses no flag.                                                          *)
THEOREM UnlockAssertsHold == Spec => []UnlockAsserts
<1>1. IInv => UnlockAsserts
  <2> SUFFICES ASSUME IInv, NEW t \in Thread
               PROVE  /\ pc[t] = "unlock_slow" => state.count = Writer /\ state.flags # {}
                      /\ pc[t] = "unlock_swap" => state \in {seen[t], Word(Writer, Flag)}
                      /\ pc[t] = "unlock_store" => state = Word(Writer, Flag)
    BY DEF UnlockAsserts
  <2>1. pc[t] = "unlock_slow" => state.count = Writer
    BY WriterAlone DEF IInv, HoldsWrite
  <2> QED BY <2>1 DEF IInv, UnlockInv
<1> QED BY <1>1, IInvHolds, PTL

(* No wakeup is lost: a parked thread always has somebody who will wake it. *)
THEOREM WakeupsKept == Spec => []NoLostWakeup
<1>1. IInv => NoLostWakeup
  BY DEF IInv
<1> QED BY <1>1, IInvHolds, PTL

(* The flag of parked writers on a free lock is never left behind.         *)
THEOREM FlagsServed == Spec => []FlagIsServed
<1>1. IInv => FlagIsServed
  BY DEF IInv, FlagInv, FlagIsServed, At
<1> QED BY <1>1, IInvHolds, PTL

-----------------------------------------------------------------------------
(* Nobody is stranded.                                                     *)

(* Whoever is parked is in a parking queue, the converse of QueueInv.      *)
ParkedInv ==
  \A t \in Thread : /\ pc[t] = "read_parked" => t \in Parked(readers)
                    /\ pc[t] = "write_parked" => t \in Parked(writers)

(* push_back keeps the threads of a queue and adds one; pop_front takes    *)
(* the first away.                                                         *)
LEMMA ParkedAfter ==
  ASSUME NEW q \in Seq(Thread), NEW t \in Thread
  PROVE  /\ t \in Parked(Append(q, t)) /\ Parked(q) \subseteq Parked(Append(q, t))
         /\ q # <<>> => Parked(q) \subseteq Parked(Tail(q)) \cup {Head(q)}
<1>1. /\ Len(Append(q, t)) = Len(q) + 1 /\ Len(q) \in Nat
      /\ Append(q, t)[Len(q) + 1] = t
      /\ \A i \in 1..Len(q) : Append(q, t)[i] = q[i]
  OBVIOUS
<1>2. t \in Parked(Append(q, t))
  BY <1>1 DEF Parked
<1>3. Parked(q) \subseteq Parked(Append(q, t))
  BY <1>1 DEF Parked
<1>4. ASSUME q # <<>>, NEW u \in Parked(q), u # Head(q)
      PROVE  u \in Parked(Tail(q))
  <2>1. PICK i \in 1..Len(q) : u = q[i]
    BY <1>4 DEF Parked
  <2>2. /\ Head(q) = q[1] /\ Len(Tail(q)) = Len(q) - 1
        /\ \A j \in 1..(Len(q) - 1) : Tail(q)[j] = q[j + 1]
    BY <1>4
  <2>3. i - 1 \in 1..Len(Tail(q))
    BY <1>1, <1>4, <2>1, <2>2
  <2>4. Tail(q)[i - 1] = u
    BY <1>1, <2>1, <2>2, <2>3
  <2> QED BY <2>3, <2>4 DEF Parked
<1> QED BY <1>2, <1>3, <1>4

(* A thread that does not park ends its step elsewhere.                    *)
LEMMA ActorStaysUp ==
  ASSUME TypeOK, NEW t \in Thread, Request(t) \/ Downgrade(t) \/ Proceed(t),
         ~ParkReader(t), ~ParkWriter(t), ~UnparkReaders(t), ~UnparkWriter(t)
  PROVE  \E l \in Label \ {"read_parked", "write_parked"} : Goto(t, l)
<1> USE DEF Label
<1>1. CASE Request(t) \/ Downgrade(t)
  <2>1. CASE LockExclusive(t) \/ LockExclusiveFails(t) \/ Downgrade(t)
    BY <2>1 DEF LockExclusive, LockExclusiveFails, Downgrade
  <2>2. CASE LockShared(t) \/ LockSharedFails(t)
    BY <2>2 DEF LockShared, LockSharedFails
  <2> QED BY <1>1, <2>1, <2>2, Zenon DEF Request
<1>2. CASE LockExclusiveSlow(t) \/ SetWritersParked(t)
  BY <1>2 DEF LockExclusiveSlow, SetWritersParked
<1>3. CASE LockSharedSlow(t) \/ ReaderOverflow(t) \/ SetReadersParked(t)
  BY <1>3 DEF LockSharedSlow, ReaderOverflow, SetReadersParked
<1>4. CASE UnlockExclusive(t) \/ UnlockSwap(t) \/ UnlockStore(t) \/ UnlockExclusiveSlow(t)
  BY <1>4, Zenon DEF UnlockExclusive, UnlockSwap, UnlockStore, UnlockExclusiveSlow
<1>5. CASE UnlockShared(t) \/ UnlockSharedSlow(t)
  BY <1>5 DEF UnlockShared, UnlockSharedSlow
<1> QED BY <1>1, <1>2, <1>3, <1>4, <1>5, Zenon DEF Proceed, Acquire

(* ParkedInv is kept.                                                      *)
LEMMA ParkedStep ==
  ASSUME TypeOK, ParkedInv, NEW t \in Thread, Request(t) \/ Downgrade(t) \/ Proceed(t)
  PROVE  ParkedInv'
<1>1. readers \in Seq(Thread) /\ writers \in Seq(Thread) /\ pc \in [Thread -> Label]
  BY DEF TypeOK
<1>2. CASE ~ParkReader(t) /\ ~ParkWriter(t) /\ ~UnparkReaders(t) /\ ~UnparkWriter(t)
  <2>1. PICK l \in Label \ {"read_parked", "write_parked"} : Goto(t, l)
    BY <1>2, ActorStaysUp
  <2>2. pc'[t] = l /\ \A u \in Thread \ {t} : pc'[u] = pc[u]
    BY <2>1, GotoType
  <2>3. readers' = readers /\ writers' = writers
    BY <1>2, QueuesStay
  <2>4. Parked(readers)' = Parked(readers) /\ Parked(writers)' = Parked(writers)
    BY <2>3 DEF Parked
  <2> QED BY <2>2, <2>4, Zenon DEF ParkedInv
<1>3. CASE ParkReader(t)
  <2>1. PICK l \in {"read_parked", "read_slow"} :
          /\ Goto(t, l)
          /\ readers' = IF l = "read_parked" THEN Append(readers, t) ELSE readers
    BY <1>3, Zenon DEF ParkReader
  <2>2. pc'[t] = l /\ \A u \in Thread \ {t} : pc'[u] = pc[u]
    BY <2>1, GotoType DEF Label
  <2>3. Parked(writers)' = Parked(writers)
    BY <1>3 DEF ParkReader, Parked
  <2>4. Parked(readers) \subseteq Parked(readers)' /\ (l = "read_parked" => t \in Parked(readers)')
    <3>1. Parked(readers)' = IF l = "read_parked" THEN Parked(Append(readers, t)) ELSE Parked(readers)
      BY <2>1 DEF Parked
    <3> QED BY <1>1, <3>1, ParkedAfter
  <2> QED BY <2>1, <2>2, <2>3, <2>4 DEF ParkedInv
<1>4. CASE ParkWriter(t)
  <2>1. PICK l \in {"write_parked", "write_slow"} :
          /\ Goto(t, l)
          /\ writers' = IF l = "write_parked" THEN Append(writers, t) ELSE writers
    BY <1>4 DEF ParkWriter
  <2>2. pc'[t] = l /\ \A u \in Thread \ {t} : pc'[u] = pc[u]
    BY <2>1, GotoType DEF Label
  <2>3. Parked(readers)' = Parked(readers)
    BY <1>4 DEF ParkWriter, Parked
  <2>4. Parked(writers) \subseteq Parked(writers)' /\ (l = "write_parked" => t \in Parked(writers)')
    <3>1. Parked(writers)' = IF l = "write_parked" THEN Parked(Append(writers, t)) ELSE Parked(writers)
      BY <2>1 DEF Parked
    <3> QED BY <1>1, <3>1, ParkedAfter
  <2> QED BY <2>1, <2>2, <2>3, <2>4 DEF ParkedInv
<1>5. CASE UnparkReaders(t)
  <2>1. Parked(writers)' = Parked(writers)
    BY <1>5 DEF UnparkReaders, Parked
  <2>2. \A u \in Thread : pc'[u] # "read_parked" /\ (pc'[u] = "write_parked" => pc[u] = "write_parked")
    BY <1>5 DEF UnparkReaders, ParkedInv
  <2> QED BY <2>1, <2>2 DEF ParkedInv
<1>6. CASE UnparkWriter(t) /\ writers = <<>>
  <2>1. pc'[t] = "idle" /\ \A u \in Thread \ {t} : pc'[u] = pc[u]
    BY <1>6, GotoType DEF UnparkWriter, Label
  <2>2. Parked(writers)' = Parked(writers) /\ Parked(readers)' = Parked(readers)
    BY <1>6 DEF UnparkWriter, Parked
  <2> QED BY <2>1, <2>2 DEF ParkedInv
<1>7. CASE UnparkWriter(t) /\ writers # <<>>
  <2>1. pc' = [pc EXCEPT ![t] = "idle", ![Head(writers)] = "write_slow"]
    BY <1>7 DEF UnparkWriter
  <2>2. Head(writers) \in Thread
    BY <1>1, <1>7
  <2>3. /\ pc'[t] \in {"idle", "write_slow"} /\ pc'[Head(writers)] = "write_slow"
        /\ \A u \in Thread \ {t, Head(writers)} : pc'[u] = pc[u]
    BY <1>1, <2>1, <2>2
  <2>4. Parked(readers)' = Parked(readers) /\ Parked(writers)' = Parked(Tail(writers))
    BY <1>7, Zenon DEF UnparkWriter, Parked
  <2>5. Parked(writers) \subseteq Parked(Tail(writers)) \cup {Head(writers)}
    BY <1>1, <1>7, ParkedAfter
  <2> QED BY <2>2, <2>3, <2>4, <2>5 DEF ParkedInv
<1> QED BY <1>2, <1>3, <1>4, <1>5, <1>6, <1>7

(* ParkedInv holds in every reachable state.                               *)
LEMMA ParkedInvHolds == Spec => []ParkedInv
<1>1. Init => ParkedInv
  BY DEF Init, ParkedInv
<1>2. IInv /\ ParkedInv /\ [Next]_vars => ParkedInv'
  <2> SUFFICES ASSUME IInv, ParkedInv, [Next]_vars PROVE ParkedInv'
    OBVIOUS
  <2>1. CASE UNCHANGED vars
    BY <2>1 DEF vars, queues, ParkedInv, Parked
  <2>2. CASE Next
    BY <2>2, ParkedStep DEF Next, IInv
  <2> QED BY <2>1, <2>2
<1> QED BY <1>1, <1>2, IInvHolds, PTL DEF Spec

(* While the count is not 0, somebody has the lock.                        *)
LEMMA CountedHolder ==
  ASSUME IInv, state.count # 0
  PROVE  At(WriteLabel \cup ReadLabel)
<1>1. CASE HoldsWrite = {}
  <2>1. Cardinality(HoldsRead) # 0
    BY <1>1 DEF IInv, LockInv
  <2>2. HoldsRead # {}
    BY <2>1, FS_EmptySet
  <2> QED BY <2>2 DEF At, HoldsRead, ReadLabel
<1>2. CASE HoldsWrite # {}
  BY <1>2 DEF At, HoldsWrite, WriteLabel
<1> QED BY <1>1, <1>2

(* Of any number of threads, never are all that use the lock parked: so a  *)
(* parked thread is always owed a wakeup by one that is not.               *)
THEOREM NobodyIsStranded == Spec => []NobodyStranded
<1>1. IInv /\ ParkedInv => NobodyStranded
  <2> DEFINE Up == Label \ {"idle", "read_parked", "write_parked"}
  <2> SUFFICES ASSUME IInv, ParkedInv, At({"read_parked", "write_parked"})
               PROVE  At(Up)
    BY DEF NobodyStranded
  <2>1. ASSUME NEW labels \in SUBSET Up, At(labels)
        PROVE  At(Up)
    BY <2>1 DEF At
  <2>2. state.count # 0 => At(Up)
    <3>1. WriteLabel \cup ReadLabel \in SUBSET Up
      BY DEF WriteLabel, ReadLabel, Label
    <3> QED BY <2>1, <3>1, CountedHolder
  <2>3. readers # <<>> \/ writers # <<>>
    <3>1. Parked(<<>>) = {}
      BY DEF Parked
    <3> QED BY <3>1 DEF At, ParkedInv
  <2>4. CASE readers # <<>>
    <3>1. \/ state.count = Writer
          \/ At({"unpark_readers", "downgrade_unpark"})
      BY <2>4 DEF IInv, NoLostWakeup
    <3>2. {"unpark_readers", "downgrade_unpark"} \in SUBSET Up
      BY DEF Label
    <3>3. Writer # 0
      BY RwLockAssumption
    <3> QED BY <2>1, <2>2, <3>1, <3>2, <3>3
  <2>5. CASE writers # <<>>
    <3>1. CASE WRITERS_PARKED \in state.flags /\ state.count = 0
      <4>1. \/ At({"unlock_shared_slow", "read_slow", "read_park"})
            \/ At({"unpark_readers"})
        BY <3>1 DEF IInv, FlagInv
      <4>2. /\ {"unlock_shared_slow", "read_slow", "read_park"} \in SUBSET Up
            /\ {"unpark_readers"} \in SUBSET Up
        BY DEF Label
      <4> QED BY <2>1, <4>1, <4>2
    <3>2. CASE At({"unpark_writer"}) \/ At({"write_slow", "write_park"})
      <4>1. {"unpark_writer"} \in SUBSET Up /\ {"write_slow", "write_park"} \in SUBSET Up
        BY DEF Label
      <4> QED BY <2>1, <3>2, <4>1
    <3>3. \/ WRITERS_PARKED \in state.flags
          \/ At({"unpark_writer"}) \/ At({"write_slow", "write_park"})
      BY <2>5, Zenon DEF IInv, NoLostWakeup, At
    <3> QED BY <2>2, <3>1, <3>2, <3>3
  <2> QED BY <2>3, <2>4, <2>5
<1> QED BY <1>1, IInvHolds, ParkedInvHolds, PTL

-----------------------------------------------------------------------------
(* The lock implements a shared lock.                                      *)

(* Nobody has the lock both ways.                                          *)
LEMMA ModeOf ==
  ASSUME NEW t \in Thread
  PROVE  /\ Mode[t] = "write" <=> t \in HoldsWrite
         /\ Mode[t] = "read" <=> t \in HoldsRead
         /\ Mode[t] = "none" <=> t \notin HoldsWrite \cup HoldsRead
         /\ Mode[t] \in {"none", "read", "write"}
<1>1. ~(t \in HoldsWrite /\ t \in HoldsRead)
  BY DEF HoldsWrite, HoldsRead
<1>2. CASE t \in HoldsWrite
  BY <1>1, <1>2 DEF Mode
<1>3. CASE t \in HoldsRead
  BY <1>1, <1>3 DEF Mode
<1>4. CASE t \notin HoldsWrite \cup HoldsRead
  BY <1>4 DEF Mode
<1> QED BY <1>1, <1>2, <1>3, <1>4

(* A step of one thread changes the mode of that thread.                   *)
LEMMA ModeAfter ==
  ASSUME TypeOK, NEW t \in Thread, NEW l \in Label, Goto(t, l)
  PROVE  /\ l \in WriteLabel => Mode' = [Mode EXCEPT ![t] = "write"]
         /\ l \in ReadLabel => Mode' = [Mode EXCEPT ![t] = "read"]
         /\ l \notin WriteLabel \cup ReadLabel => Mode' = [Mode EXCEPT ![t] = "none"]
<1>1. \A u \in Thread \ {t} : /\ u \in HoldsWrite' <=> u \in HoldsWrite
                              /\ u \in HoldsRead' <=> u \in HoldsRead
  BY HoldsAfter
<1>2. \A u \in Thread \ {t} : Mode'[u] = Mode[u]
  BY <1>1 DEF Mode
<1>3. ~(l \in WriteLabel /\ l \in ReadLabel)
  BY DEF WriteLabel, ReadLabel
<1>4. /\ l \in WriteLabel => Mode'[t] = "write"
      /\ l \in ReadLabel => Mode'[t] = "read"
      /\ l \notin WriteLabel \cup ReadLabel => Mode'[t] = "none"
  BY <1>3, HoldsAfter DEF Mode
<1>5. Mode = [u \in Thread |-> Mode[u]] /\ Mode' = [u \in Thread |-> Mode'[u]]
  BY DEF Mode
<1>6. ASSUME NEW m, Mode'[t] = m PROVE Mode' = [Mode EXCEPT ![t] = m]
  BY <1>2, <1>5, <1>6
<1> QED BY <1>4, <1>6

(* Every step is one of the shared lock's, or leaves it alone.             *)
LEMMA LockRefines ==
  ASSUME IInv, NEW t \in Thread, Request(t) \/ Downgrade(t) \/ Proceed(t)
  PROVE  Lock!LNext \/ UNCHANGED Mode
<1> USE DEF IInv
<1>1. CASE LockExclusive(t) \/ LockExclusiveSlow(t)
  <2>1. \A u \in Thread : Mode[u] = "none"
    BY <1>1, FreeLock, WordAfter, ModeOf, Zenon
  <2>2. Mode' = [Mode EXCEPT ![t] = "write"]
    BY <1>1, ModeAfter DEF LockExclusive, LockExclusiveSlow, Label, WriteLabel
  <2> QED BY <2>1, <2>2, Zenon DEF Lock!LNext, Lock!AcquireExclusive
<1>2. CASE LockShared(t) \/ LockSharedSlow(t)
  <2>1. HoldsWrite = {}
    <3>1. state.count < Writer
      BY <1>2, WordAfter, Zenon
    <3> QED BY <3>1, RwLockAssumption DEF LockInv
  <2>2. Mode[t] = "none" /\ \A u \in Thread : Mode[u] # "write"
    BY <1>2, <2>1, ModeOf DEF LockShared, LockSharedSlow, HoldsRead
  <2>3. Mode' = [Mode EXCEPT ![t] = "read"]
    BY <1>2, ModeAfter DEF LockShared, LockSharedSlow, Label, WriteLabel, ReadLabel
  <2> QED BY <2>2, <2>3, Zenon DEF Lock!LNext, Lock!AcquireShared
<1>3. CASE Downgrade(t)
  <2>1. Mode[t] = "write"
    BY <1>3, ModeOf DEF Downgrade, HoldsWrite
  <2>2. PICK l \in ReadLabel : Goto(t, l)
    BY <1>3 DEF Downgrade, ReadLabel
  <2>3. Mode' = [Mode EXCEPT ![t] = "read"]
    BY <2>2, ModeAfter DEF Label, WriteLabel, ReadLabel
  <2> QED BY <2>1, <2>3, Zenon DEF Lock!LNext, Lock!ToShared
<1>4. CASE \/ UnlockStore(t) \/ UnlockShared(t)
           \/ UnlockExclusive(t) /\ state = Word(Writer, {})
           \/ UnlockSwap(t) /\ state = seen[t]
  <2>1. Mode[t] # "none"
    BY <1>4, ModeOf, Zenon DEF UnlockStore, UnlockShared, UnlockExclusive, UnlockSwap, HoldsWrite, HoldsRead
  <2>2. PICK l \in {"idle", "unpark_readers", "unpark_writer", "unlock_shared_slow"} : Goto(t, l)
    BY <1>4, Zenon DEF UnlockStore, UnlockShared, UnlockExclusive, UnlockSwap
  <2>3. Mode' = [Mode EXCEPT ![t] = "none"]
    BY <2>2, ModeAfter DEF Label, WriteLabel, ReadLabel
  <2> QED BY <2>1, <2>3, Zenon DEF Lock!LNext, Lock!LetGo
<1>5. CASE \/ UnlockExclusiveSlow(t)
           \/ UnlockExclusive(t) /\ state # Word(Writer, {})
           \/ UnlockSwap(t) /\ state # seen[t]
  <2>1. Mode[t] = "write"
    BY <1>5, ModeOf, Zenon DEF UnlockExclusiveSlow, UnlockExclusive, UnlockSwap, HoldsWrite
  <2>2. PICK l \in WriteLabel : Goto(t, l)
    BY <1>5, Zenon DEF UnlockExclusiveSlow, UnlockExclusive, UnlockSwap, WriteLabel
  <2>3. Mode' = [Mode EXCEPT ![t] = "write"]
    BY <2>2, ModeAfter DEF Label, WriteLabel
  <2> QED BY <2>1, <2>3, Zenon DEF Mode
<1>6. CASE \/ LockExclusiveFails(t) \/ LockSharedFails(t) \/ SetWritersParked(t) \/ ParkWriter(t)
           \/ ReaderOverflow(t) \/ SetReadersParked(t) \/ ParkReader(t) \/ UnlockSharedSlow(t)
  <2>1. Mode[t] = "none"
    <3>1. pc[t] \in {"idle", "read_slow", "read_park", "write_slow", "write_park", "unlock_shared_slow"}
      BY <1>6, Zenon DEF LockExclusiveFails, LockSharedFails, SetWritersParked, ParkWriter,
        ReaderOverflow, SetReadersParked, ParkReader, UnlockSharedSlow
    <3>2. t \notin HoldsWrite \cup HoldsRead
      BY <3>1 DEF HoldsWrite, HoldsRead
    <3> QED BY <3>2, ModeOf, Zenon
  <2>2. PICK l \in {"idle", "read_slow", "read_park", "read_parked", "write_slow", "write_park",
                    "write_parked", "unpark_writer"} : Goto(t, l)
    <3>1. CASE \/ LockExclusiveFails(t) \/ LockSharedFails(t)
               \/ SetWritersParked(t) \/ ParkWriter(t)
      BY <3>1, Zenon DEF LockExclusiveFails, LockSharedFails, SetWritersParked, ParkWriter
    <3>2. CASE \/ ReaderOverflow(t) \/ SetReadersParked(t) \/ ParkReader(t) \/ UnlockSharedSlow(t)
      BY <3>2 DEF ReaderOverflow, SetReadersParked, ParkReader, UnlockSharedSlow
    <3> QED BY <1>6, <3>1, <3>2, Zenon
  <2>3. Mode' = [Mode EXCEPT ![t] = "none"]
    <3>1. l \in Label /\ l \notin WriteLabel \cup ReadLabel
      BY DEF Label, WriteLabel, ReadLabel
    <3> QED BY <2>2, <3>1, ModeAfter, Zenon
  <2> QED BY <2>1, <2>3, Zenon DEF Mode
<1>7. CASE UnparkReaders(t) \/ UnparkWriter(t)
  <2>1. HoldsWrite' = HoldsWrite /\ HoldsRead' = HoldsRead
    BY <1>7, WakingHolders, Zenon
  <2> QED BY <2>1 DEF Mode
<1> QED BY <1>1, <1>2, <1>3, <1>4, <1>5, <1>6, <1>7, Zenon DEF Request, Proceed, Acquire

(* RawRwLock is a shared lock for any number of threads: no interleaving   *)
(* of its compare-and-swaps, plain stores and wakeups gives the lock away  *)
(* while a writer has it.                                                  *)
THEOREM RwLockIsSharedLock == Spec => ImplementsSharedLock
<1>1. Init => Lock!LInit
  <2>1. Init => HoldsWrite = {} /\ HoldsRead = {}
    BY DEF Init, HoldsWrite, HoldsRead
  <2> QED BY <2>1 DEF Lock!LInit, Mode
<1>2. IInv /\ [Next]_vars => [Lock!LNext]_Mode
  <2>1. UNCHANGED vars => UNCHANGED Mode
    BY DEF vars, Mode, HoldsWrite, HoldsRead
  <2> QED BY <2>1, LockRefines DEF Next
<1> QED BY <1>1, <1>2, IInvHolds, PTL DEF Spec, ImplementsSharedLock, Lock!LSpec
=============================================================================
