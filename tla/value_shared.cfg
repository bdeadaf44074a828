\* The callback thread and a thread of the application on one handle,
\* and every system call may fail.
SPECIFICATION Spec
CONSTANTS
  watcher = watcher
  app = app
  Threads = {watcher, app}
  CallsOf <- MCShared
  Edges = {"none", "rising", "both"}
  Faults = {"open", "read", "write", "close", "poll"}
INVARIANTS
  TypeOK
  LevelIsTrue
  LevelFailsOnlyIfDisturbed
  TriggeredIsFresh
  TimeoutMeansNone
