SPECIFICATION FairSpec
CONSTANTS
  w1 = w1  w2 = w2
  k1 = k1
  t1 = t1
  c1 = c1  c2 = c2
  i1 = i1  i2 = i2
  Absent = Absent
  Text = Text
  Key = {k1}
  Tag = {t1}
  Worker = {w1, w2}
  Initial <- MCInitial
  Call = {c1, c2}
  Idem = {i1, i2}
  KeyOf <- MCKeyOf
  Written <- MCWritten
  Stamp = {1}
  Restored <- MCRestored
  MaxAttempts = 2
  DedupMax = 1
  MaxOps = 2
  MaxCrashes = 1
INVARIANTS Accounted Converged AtMostOnce
PROPERTIES ServiceSpec EventuallyConverged
CHECK_DEADLOCK FALSE
