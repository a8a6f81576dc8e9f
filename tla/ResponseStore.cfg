SPECIFICATION Spec
CONSTANTS
  r1 = r1
  r2 = r2
  r3 = r3
  Requests <- MCRequests
  Bodies <- MCBodies
  CacheEnabled = TRUE
SYMMETRY MCSymmetry
CHECK_DEADLOCK FALSE
INVARIANTS
  CacheIsTransparent
  ContinuesConversation
PROPERTIES
  AnsweredIsFound
  InheritedFieldsAreAccepted
  IsConversationStore
