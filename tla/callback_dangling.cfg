\* A thread cannot be created.
SPECIFICATION Spec
CONSTANTS
  Slots = {s1, s2}
  NULL = NULL
  Reregisters = FALSE
  Faults = {"create"}
INVARIANTS
  NoDanglingCallback
