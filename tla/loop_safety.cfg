\* One other thread; all interleavings of callbacks, sockets and timers.
SPECIFICATION Spec
CONSTANTS
  MaxHandle = 4
  MaxTime = 2
  Soon = Soon
  Threads = {1}
  Sockets = TRUE
  Crashes = TRUE
CHECK_DEADLOCK FALSE
INVARIANTS LoopTypeOK EachHandleInOnePlace NoSleepOnWork StopDrains
PROPERTY InvokedInOrder
