CONSTANTS
  Thread = {t1, t2, t3}
  Writer = 4
SPECIFICATION StronglyFairSpec
PROPERTIES NoWriterStarvation
