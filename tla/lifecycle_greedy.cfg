\* Three clients, every mode, no fault.
SPECIFICATION Spec
CONSTANTS
  Clients = {c1, c2, c3}
  Modes = {"SHARED", "GREEDY", "WEAK"}
  Faults = {}
PROPERTIES
  NoStrandedExport
SYMMETRY Symmetry
