SPECIFICATION Spec
CONSTANTS
  r1 = r1
  r2 = r2
  p1 = p1
  p2 = p2
  h1 = h1
  BookOf <- OneBook
  Requests = {r1}
  SelfServe = {}
  AutoLimit = 1
  Passes = {p1}
  Persons = {h1}
  MaxAttempts = 2
  MaxStops = 0
  MaxLate = 0
  MaxTimeouts = 0
  MaxUndone = 0
  MaxCrashes = 0
INVARIANTS TypeOK  Budget WorkerBacked
PROPERTIES KeepsPromise
ACTION_CONSTRAINT Prompt
CONSTRAINT Alone
\* Every request may be closed and every attempt used.
CHECK_DEADLOCK FALSE
