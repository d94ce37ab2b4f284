\* Three users of a channel that holds one element.
SPECIFICATION Spec
CONSTANTS
  u1 = u1
  u2 = u2
  u3 = u3
  Users = {u1, u2, u3}
  MaxElems = 4
  Capacity = 1
  Unbounded = Unbounded
  Prefill = 0
CHECK_DEADLOCK FALSE
SYMMETRY UserSymmetry
INVARIANTS TypeOK ElementsConserved NoMissedHandoff AssertionsHold
PROPERTY HandedOutInOrder
