SPECIFICATION FairSpecPanicking
CONSTANTS
  Key = {k1, k2}
  Value = {v1}
  Hash <- DistinctHash
  ShardCap = 1
  SmallDiv = 10
  MaxSlots = 2
PROPERTIES InsertTerminates
