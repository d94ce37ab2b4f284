\* What entry.py:34 says of a call from outside the loop.
SPECIFICATION Spec
CONSTANTS
  MaxHandle = 2
  MaxTime = 1
  Soon = Soon
  Threads = {1}
  Sockets = FALSE
  Crashes = FALSE
CHECK_DEADLOCK FALSE
INVARIANT CallWakesLoop
