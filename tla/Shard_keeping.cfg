SPECIFICATION SpecKeeping
CONSTANTS
  Key = {k1, k2, k3, k4, k5, k6, k7}
  Value = {v1}
  Hash <- DistinctHash
  ShardCap = 3
  SmallDiv = 2
  MaxSlots = 4
SYMMETRY KeySymmetry
INVARIANTS
  LiveCountsExact NoStaleSlots
  GhostSound
PROPERTIES
  EvictsOnlyWhenFull
