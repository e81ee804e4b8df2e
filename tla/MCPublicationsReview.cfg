SPECIFICATION Spec
CONSTANTS
  j1 = j1
  j2 = j2
  Writer = Writer
  Jobs = {j1}
  N = 1
  MaxOutside = 0
  MaxFaults = 0
  MaxStops = 0
INVARIANTS StagedUntilReviewed
\* Everything may have been published.
CHECK_DEADLOCK FALSE
