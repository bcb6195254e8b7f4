SPECIFICATION Spec
CONSTANTS
  Threads = {t1, t2, t3}
  Messages = {m1, m2}
  Calls <- MCAllCalls
  NULL = NULL
  PENDING = PENDING
  t1 = t1
  t2 = t2
  t3 = t3
  m1 = m1
  m2 = m2
  consumer = t1
INVARIANTS
  WellLinked
PROPERTY
  IsDeque
CHECK_DEADLOCK FALSE
