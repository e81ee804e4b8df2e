SPECIFICATION Spec
CONSTANTS
  d1 = d1
  d2 = d2
  r1 = r1
  r2 = r2
  r3 = r3
  Nobody = Nobody
  Devices = {d1, d2}
  Readers = {r1, r3}
  IdOrder <- Ids
  DeviceOf <- Tabs
  Batch = 2
  Limit = 1
  MaxEvents <- TwoAndOne
  MaxTime = 2
  MaxCorrections = 1
  MaxOpens = 2
  MaxResets = 1
  MaxFailures = 1
  MaxRefusals = 0
INVARIANTS QuietMeansNewest NoComeback NothingLost
\* Everything may have been read and sent.
CHECK_DEADLOCK FALSE
