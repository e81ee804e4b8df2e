SPECIFICATION Spec
CONSTANTS
  t1 = t1
  t2 = t2
  t3 = t3
  Tabs = {t1, t2}
  Grace = 2
  Wait = 1
  Hops = 2
  MaxTime = 3
  MaxSessions = 1
  MaxTokens = 4
  MaxChanges = 1
INVARIANTS Renewable StaysOut
PROPERTIES GraceHolds
SYMMETRY TabSymmetry
