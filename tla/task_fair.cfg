\* Under fairness: a well-behaved task beside one that may yield what it must not.
SPECIFICATION FairSpec
CONSTANTS
  t1 = t1
  t2 = t2
  p1 = p1
  cb1 = cb1
  Tasks = {t1, t2}
  Promises = {p1}
  Callbacks = {cb1}
  Misuse = {t2}
  Fatal = {}
  None = None
  Dead = Dead
CHECK_DEADLOCK FALSE
PROPERTIES ReadyRuns ImplementsFairCell
