CONSTANTS
  Rows = 2
  InputSize = 3
  Chars = {"a", "b"}
  Width = 3
  Height = 2
  Cells = 18
  Outputs <- Printed
  MaxActs = 3
SPECIFICATION ScreenSpec
INVARIANT EchoIsLine
CHECK_DEADLOCK FALSE
