SPECIFICATION FairSpec
CONSTANTS
  Key = {k1, k2, k3}
  Value = {v1}
  Hash <- DistinctHash
  ShardCap = 2
  SmallDiv = 10
  MaxSlots = 5
INVARIANTS
  TypeOK
  CapacityBound
  LiveQueued
  OneVictim
  DriftBounded
  EvictionProgress
  GhostSound
PROPERTIES
  InsertTerminates
  WorkShrinks
  InsertOutcome
