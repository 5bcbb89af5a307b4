CONSTANTS
  Capacity = 3
  Bytes <- MCBytes
  Inputs <- MCInputs
SPECIFICATION Spec
INVARIANT TypeOK
INVARIANT NoOutOfBoundsWrite
PROPERTY ImplementsByteFifo
