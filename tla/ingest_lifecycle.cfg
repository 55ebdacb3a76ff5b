\* Closing and reopening: weeks of two days, one description, faults that
\* leave a run half done.
CONSTANTS
  Uuid = {1, 2}
  Desc = {d1}
  Terms = {3}
  Limit = 1
  DaysPerWeek = 2
  BackoffDays = 1
  Lag = 0
  Reclassify = TRUE
  IncrementalPages = 2
  FullPages = 3
  MaxAttempts = 2
  Faults = {"start", "write", "upsert", "truncate", "flush", "sweep", "finish", "crash"}
  FirstDay = 1
  MaxDay = 6
  MaxChanges = 2
  MaxFaults = 1
  Gone = Gone
  NoRow = NoRow
SPECIFICATION Spec
INVARIANTS TypeOK ClosedForAReason
PROPERTIES ServedIsNeverMissed AbsenceIsEvidence FreshMeansRecorded ImplementsLifecycle
