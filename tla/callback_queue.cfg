\* An interrupt that arrives while the callback runs.
SPECIFICATION FairSpec
CONSTANTS
  Slots = {s1, s2}
  NULL = NULL
  Reregisters = FALSE
  Faults = {}
PROPERTIES
  QueuedInterruptServed
