\* See README.md for what this instance is chosen to reach.
CONSTANTS
  j1 = j1
  j2 = j2
  NoJob = NoJob
  Jobs = {j1}
  BookOf <- TwoBooks
  ReviewDue <- FirstOutputs
  MaxAttempts = 2
  MaxResubmits = 1
  MaxCrashes = 1
  MaxWorkerStops = 1
  MaxStalls = 0
  MaxRetries = 1
  MaxResyncs = 1
SPECIFICATION Spec
INVARIANTS NothingUnreviewed OneOutputPerJob SoleWriter ReviewKeepsOutput
PROPERTIES NoPublishAfterCancel KeepsPromise
\* Every job may be over and nothing left to do.
CHECK_DEADLOCK FALSE
