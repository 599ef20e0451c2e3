SPECIFICATION Spec
CONSTANTS
  Key = {k1, k2, k3}
  Value = {v1, v2}
  Hash <- CollidingHash
  ShardCap = 2
  SmallDiv = 10
  MaxSlots = 3
PROPERTIES
  ImplementsBoundedMap
