\* One thread, under fairness.
SPECIFICATION FairSpec
CONSTANTS
  MaxHandle = 4
  MaxTime = 2
  Soon = Soon
  Threads = {}
  Sockets = FALSE
  Crashes = FALSE
CHECK_DEADLOCK FALSE
PROPERTIES EveryCallRuns StopEnds
