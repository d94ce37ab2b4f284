\* A root that opens scopes and catches exceptions, a child that opens scopes,
\* and a leaf that either of them may hold.
SPECIFICATION FairSpec
CONSTANTS
  r = r
  a = a
  b = b
  Tasks = {r, a, b}
  Root = r
  Openers = {r, a}
  Catchers = {r}
  None = None
CHECK_DEADLOCK FALSE
INVARIANTS TypeOK NoLostJoin CallbacksInScope
PROPERTIES WaitsForChild AbortedScopeEnds 
