\* See README.md for what this instance is chosen to reach.
CONSTANTS
  j1 = j1
  j2 = j2
  NoJob = NoJob
  Jobs = {j1}
  BookOf <- TwoBooks
  ReviewDue <- FirstOutputs
  MaxAttempts = 2
  MaxResubmits = 0
  MaxCrashes = 1
  MaxWorkerStops = 0
  MaxStalls = 1
  MaxRetries = 0
  MaxResyncs = 1
SPECIFICATION FairSpec
INVARIANTS PublishedNotCancelled DoneMeansPublished
PROPERTIES CancelEnds JobsSettle FoldersReclaimed
\* Every job may be over and nothing left to do.
CHECK_DEADLOCK FALSE
