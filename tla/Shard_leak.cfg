SPECIFICATION Spec
CONSTANTS
  Key = {k1, k2, k3}
  Value = {v1}
  Hash <- DistinctHash
  ShardCap = 2
  SmallDiv = 10
  MaxSlots = 5
SYMMETRY KeySymmetry
INVARIANTS
  EmptyCountsNothing
