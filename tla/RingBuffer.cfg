SPECIFICATION Spec
CONSTANTS
  Byte = {b1, b2, b3}
  None = None
  BUFFER_SIZE = 4
INVARIANT NoDataRace
PROPERTY ImplementsFifo
