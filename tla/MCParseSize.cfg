CONSTANTS
  ULLWidth = 4
  SizeWidth = 3
  Chars = {" ", "+", "-", "0", "1", "7", "9", "x"}
  MaxLen = 3
SPECIFICATION Spec
INVARIANT ParseSizeAgreesOffPrefix
CHECK_DEADLOCK FALSE
