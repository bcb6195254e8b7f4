SPECIFICATION FairSpec
CONSTANTS
  Threads = {t1, t2, t3}
  Messages = {m1, m2, m3}
  Calls <- MCOneConsumer
  NULL = NULL
  PENDING = PENDING
  t1 = t1
  t2 = t2
  t3 = t3
  m1 = m1
  m2 = m2
  m3 = m3
  consumer = t1
INVARIANTS
  MutualExclusion
  OnePlace
  CountExact
  NoNullDeref
PROPERTIES
  IsDeque
  SomeoneEnters
