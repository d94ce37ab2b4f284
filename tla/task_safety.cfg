\* Three tasks that may await each other and one promise; t3's coroutine may
\* also yield what it must not, or raise a BaseException.
SPECIFICATION Spec
CONSTANTS
  t1 = t1
  t2 = t2
  t3 = t3
  p1 = p1
  Tasks = {t1, t2, t3}
  Promises = {p1}
  Callbacks = {}
  Misuse = {t3}
  Fatal = {t3}
  None = None
  Dead = Dead
SYMMETRY TaskSymmetry
CHECK_DEADLOCK FALSE
INVARIANTS TypeOK NoLostWakeup NoBadResume NoStrayStep
PROPERTY ImplementsCell
