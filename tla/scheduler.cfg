\* Up to five handles, three instants.
SPECIFICATION SchedSpec
CONSTANTS
  MaxHandle = 5
  MaxTime = 2
  Soon = Soon
CHECK_DEADLOCK FALSE
INVARIANTS SchedTypeOK PopsTheDue NextEventIfRootLive
