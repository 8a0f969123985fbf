CONSTANTS
  BufSize = 4
  Blocks = {b1, b2, b3, b4, b5}
  Garbage = Garbage
SPECIFICATION Spec
SYMMETRY Symmetry
INVARIANTS TypeOK OneOwner
PROPERTIES ImplementsFifo
CHECK_DEADLOCK FALSE
