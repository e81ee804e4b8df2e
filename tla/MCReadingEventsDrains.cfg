SPECIFICATION FairSpec
CONSTANTS
  d1 = d1
  d2 = d2
  r1 = r1
  r2 = r2
  r3 = r3
  Nobody = Nobody
  Devices = {d1}
  Readers = {r1, r2}
  IdOrder <- Ids
  DeviceOf <- Tabs
  Batch = 1
  Limit = 1
  MaxEvents <- TwoAndOne
  MaxTime = 2
  MaxCorrections = 0
  MaxOpens = 2
  MaxResets = 1
  MaxFailures = 1
  MaxRefusals = 1
\* Everything may have been read and sent.
CHECK_DEADLOCK FALSE
PROPERTIES Drains
