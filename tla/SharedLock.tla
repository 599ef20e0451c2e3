----------------------------- MODULE SharedLock -----------------------------
(***************************************************************************)
(* What the lock of a shard promises, with no word, flags or parking: many *)
(* readers or one writer, and a writer may turn into a reader.             *)
(***************************************************************************)
CONSTANT Thread

VARIABLE mode   \* mode[t]: "none", "read" or "write"

AcquireShared(t) ==
  /\ mode[t] = "none"
  /\ \A u \in Thread : mode[u] # "write"
  /\ mode' = [mode EXCEPT ![t] = "read"]

AcquireExclusive(t) ==
  /\ \A u \in Thread : mode[u] = "none"
  /\ mode' = [mode EXCEPT ![t] = "write"]

ToShared(t) ==
  /\ mode[t] = "write"
  /\ mode' = [mode EXCEPT ![t] = "read"]

LetGo(t) ==
  /\ mode[t] # "none"
  /\ mode' = [mode EXCEPT ![t] = "none"]

LInit == mode = [t \in Thread |-> "none"]

LNext ==
  \E t \in Thread : AcquireShared(t) \/ AcquireExclusive(t) \/ ToShared(t) \/ LetGo(t)

LStep == [LNext]_mode

LSpec == LInit /\ [][LNext]_mode
=============================================================================
