\* What tests/test_future.py:791 says of the end of a scope.
SPECIFICATION Spec
CONSTANTS
  r = r
  a = a
  b = b
  Tasks = {r, a, b}
  Root = r
  Openers = {r, a}
  Catchers = {r}
  None = None
CHECK_DEADLOCK FALSE
INVARIANT NoOrphans
