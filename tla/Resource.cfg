CONSTANTS
  t1 = t1
  t2 = t2
  t3 = t3
  t4 = t4
  p1 = p1
  Contexts <- MCContexts
  Target = t1
  Kind <- MCKind
SPECIFICATION DualSpec
INVARIANTS
  ResourceInv
  JoinSound
PROPERTIES
  NoOvertaking
  ImplementsRWLock
  ResourceServesAll
  JoinedThreadDies
  EarlyJoinReturns
CHECK_DEADLOCK FALSE
