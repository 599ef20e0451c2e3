SPECIFICATION FairSpec
CONSTANTS
  a = a
  b = b
  c = c
  Thread = {t1, t2}
  Key = {a, b}
  ShardCount = 3
  ShardOf <- FirstAndLast
  ShardCap = 1
INVARIANTS NoCircularWait
PROPERTIES AllCallsEnd CallsAdvance
