\* Two threads on one handle, unsigned numbers of 2 bits, every fault.
SPECIFICATION Spec
CONSTANTS
  app = app
  watcher = watcher
  Threads = {app, watcher}
  CallsOf <- MCCallsOf
  IntMax = 1
  Values = {0, 1, 3}
  Faults = {"open", "read", "write", "close"}
INVARIANTS
  TypeOK
  GetIsTrue
  SetTakesEffect
