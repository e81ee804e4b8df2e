SPECIFICATION Spec
CONSTANTS
  r1 = r1
  r2 = r2
  p1 = p1
  p2 = p2
  h1 = h1
  BookOf <- OneBook
  Requests = {r1, r2}
  SelfServe = {r2}
  AutoLimit = 1
  Passes = {p1, p2}
  Persons = {}
  MaxAttempts = 1
  MaxStops = 0
  MaxLate = 0
  MaxTimeouts = 0
  MaxUndone = 0
  MaxCrashes = 1
INVARIANTS OneGrab Claimed
ACTION_CONSTRAINT Prompt
\* Every request may be closed and every attempt used.
CHECK_DEADLOCK FALSE
