\* Two callback structs, every fault, an application that registers only
\* when it has no handler.
SPECIFICATION FairSpec
CONSTANTS
  Slots = {s1, s2}
  NULL = NULL
  Reregisters = FALSE
  Faults = {"create", "close", "poll"}
INVARIANTS
  TypeOK
  ThreadServesHandle
  NothingLeaked
PROPERTIES
  ImplementsContract
  CallsReturn
