\* Paging, archiving and the watermark: three postings, no Sunday within the
\* calendar, every fault of the scan but a lost buffer.
CONSTANTS
  Uuid = {1, 2, 3}
  Desc = {d1}
  Terms = {9}
  Limit = 1
  DaysPerWeek = 7
  BackoffDays = 1
  Lag = 1
  Reclassify = FALSE
  IncrementalPages = 2
  FullPages = 4
  MaxAttempts = 1
  Faults = {"page", "write", "upsert"}
  FirstDay = 2
  MaxDay = 4
  MaxChanges = 1
  MaxFaults = 1
  Gone = Gone
  NoRow = NoRow
SPECIFICATION Spec
INVARIANT RawPathReadable
PROPERTIES WindowComplete NoGapAfterCleanRuns
