SPECIFICATION FairSpec
CONSTANTS
  ann = ann  t1 = t1  t2 = t2  m1 = m1  m2 = m2  r1 = r1
  Guest = Guest
  None = None
  People = {ann}
  Threads = {t1, t2}
  Posts = {m1, m2}
  Gifs = {m1}
  Replies = {r1}
  MaxWidgets = 2
  MaxSetbacks = 2
INVARIANT ShownIsTrue
PROPERTIES StreamRuns
CHECK_DEADLOCK FALSE
