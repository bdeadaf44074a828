\* Two clients, no GREEDY; every client may die and every call may fail.
SPECIFICATION Spec
CONSTANTS
  Clients = {c1, c2}
  Modes = {"SHARED", "WEAK", "OTHER"}
  Faults = {"open", "write", "close", "crash"}
INVARIANTS
  TypeOK
  ExporterHandleWhole
PROPERTIES
  ImplementsLineExport
