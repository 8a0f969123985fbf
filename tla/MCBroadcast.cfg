CONSTANTS
  Subscribers = {h1, h2, h3}
  MaxChunk = 3
SPECIFICATION Spec
INVARIANTS NeverBehind
PROPERTIES InOrder
