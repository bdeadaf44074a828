\* Three clients, no GREEDY; every client may die and every call may fail,
\* except that the kernel refuses a write only for its own reasons.
SPECIFICATION Spec
CONSTANTS
  Clients = {c1, c2, c3}
  Modes = {"SHARED", "WEAK", "OTHER"}
  Faults = {"open", "close", "malloc", "crash"}
INVARIANTS
  TypeOK
  SingleExporter
  ExporterReachesLine
  UnexportNeverRefused
PROPERTIES
  UnownedExportKept
  ImplementsLineExport
SYMMETRY Symmetry
