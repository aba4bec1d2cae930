CONSTANTS
  t1 = t1
  t2 = t2
  t3 = t3
  t4 = t4
  p1 = p1
  Contexts = {t1, t2}
  Target = t1
  Kind <- MCKind
SPECIFICATION DualSpec
PROPERTY JoinReturns
CHECK_DEADLOCK FALSE
