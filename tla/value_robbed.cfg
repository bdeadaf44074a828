\* The application reads the level of a line with a callback.
SPECIFICATION FairSpec
CONSTANTS
  watcher = watcher
  app = app
  Threads = {watcher, app}
  CallsOf <- MCReader
  Edges = {"both"}
  Faults = {}
PROPERTIES
  InterruptReported
