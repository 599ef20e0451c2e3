CONSTANTS
  WordBits = 8
  TagBits = 3
  MaxCapacity = 80
  MaxShards = 64
SPECIFICATION Spec
INVARIANTS AtLeastFour
CHECK_DEADLOCK FALSE
