\* One handle of a C program and one of a Python object, two threads, two
\* descriptors, and every system call may fail.
SPECIFICATION Spec
CONSTANTS
  native = native
  object = object
  Handles = {native, object}
  PyHandles = {object}
  Descriptors = {3, 4}
  Threads = {t1, t2}
  HandlesOf <- MCHandlesOf
  Args <- MCArgs
  Foreign <- MCForeign
  Asked <- MCAsked
  MaxSpeed = 2
  None = None
  Unknown = Unknown
  Voided = Voided
  Faults = {"open", "close", "ioctl"}
INVARIANTS
  TypeOK
  OwnFile
  MessageIsOwn
  ToldIsTrue
  OpenedAsAsked
