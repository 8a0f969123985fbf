CONSTANTS
  Sizes <- ThreeSegments
  Window = 2
SPECIFICATION FairSpec
INVARIANTS Intact
PROPERTIES ImplementsSegments ConversationEnds
CHECK_DEADLOCK FALSE
