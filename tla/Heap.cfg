CONSTANTS
  HeapStart = 4
  HeapSize = 10
  MIN_BLOCK_SIZE = 2
  MAX_BLOCK = 4
  Layout <- MCLayout
  Owner = {o1, o2, o3}
  Wild = {7}
SPECIFICATION Spec
SYMMETRY Owners
INVARIANTS BlocksApart BlocksFit OneHolder
