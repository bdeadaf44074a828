\* Files of up to four lines over two section names and two keys, with
\* numbers around the limits of both widths, in a directory of up to two,
\* and every call may fail.  The program stops when it crashes.
SPECIFICATION BoardSpec
CONSTANTS
  NULL = NULL
  NotNumeric = NotNumeric
  BoardName = board
  ModelKey = model
  Names = {board, GPIO}
  Keys = {model, pin}
  Values <- MCNumbers
  IntMax = 1
  LongMax = 7
  MaxLines = 4
  MaxFiles = 2
  BoardFaults = {"opendir", "calloc"}
CHECK_DEADLOCK FALSE
INVARIANTS
  BoardTypeOK
  LookupIsLast
  IntOrDefault
  ListsAccounted
  ProbedBoardIsOurs
PROPERTIES
  ListsAreDictionary
