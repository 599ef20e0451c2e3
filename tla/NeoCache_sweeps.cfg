SPECIFICATION Spec
CONSTANTS
  a = a
  b = b
  c = c
  Thread = {t1, t2}
  Key = {a, b, c}
  ShardCount = 2
  ShardOf <- TwoAndOne
  ShardCap = 2
SYMMETRY Symmetry
INVARIANTS TypeOK GuardsPin NoAliasing MovedOutUnseen SweepExact HintBracketed
PROPERTIES LocksObeyed
