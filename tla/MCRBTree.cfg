CONSTANTS
  e1 = e1
  e2 = e2
  e3 = e3
  e4 = e4
  NULL = NULL
  Elems <- MCElems
  Key <- MCKey
  MayDetachCurrent = FALSE
SPECIFICATION Spec
INVARIANT TypeOK
INVARIANT ForeachComplete
