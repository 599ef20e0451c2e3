CONSTANTS
  Thread = {t1, t2, t3, t4}
  Writer = 4
SYMMETRY ThreadSymmetry
SPECIFICATION Spec
INVARIANTS FreeLockCanBeTaken
