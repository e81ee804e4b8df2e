SPECIFICATION Spec
CONSTANTS
  j1 = j1
  j2 = j2
  Writer = Writer
  Jobs = {j1, j2}
  N = 2
  MaxOutside = 1
  MaxFaults = 1
  MaxStops = 1
INVARIANTS TypeOK RowExplained StillExpected RollbackKept Recoverable
PROPERTIES NoInstallAfterStop
\* Everything may have been published.
CHECK_DEADLOCK FALSE
