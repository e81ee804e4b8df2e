SPECIFICATION Spec
CONSTANTS
  q1 = q1
  q2 = q2
  Nobody = Nobody
  Requests = {q1, q2}
  Targets = {"library", "existing_book", "book_dock"}
  Size = 2
  Chunk = 2
  Signature = 2
  MaxSessions = 2
  MaxFailures = 1
  MaxCrashes = 1
  MaxLapses = 1
SYMMETRY CallSymmetry
CONSTRAINT Apart
INVARIANTS WholeFile NothingAckedLost AddedOnce  ImportCarried
PROPERTIES CancelHolds
\* Everything may have been uploaded.
CHECK_DEADLOCK FALSE
