SPECIFICATION FairSpec
CONSTANTS
  Thread = {t1, t2, t3, t4}
  Writer = 4
INVARIANTS
  TypeOK
  Exclusion
  UnlockAsserts
  NoLostWakeup
  FlagIsServed
  NobodyStranded
PROPERTIES
  EveryWaiterServed
  ImplementsSharedLock
