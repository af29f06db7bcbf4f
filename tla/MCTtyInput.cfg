CONSTANTS
  Rows = 3
  InputSize = 3
  Chars = {"a"}
SPECIFICATION Spec
PROPERTIES WalkStaysInHistory EnteredIsRecorded StartKeepsHistory KeyServed
CHECK_DEADLOCK FALSE
