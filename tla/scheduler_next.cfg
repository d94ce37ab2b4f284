\* Three timers are enough: [cancelled, 2, 1].
SPECIFICATION SchedSpec
CONSTANTS
  MaxHandle = 3
  MaxTime = 2
  Soon = Soon
CHECK_DEADLOCK FALSE
INVARIANT NextEventIsEarliest
