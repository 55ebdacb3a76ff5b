\* Convergence: the calendar ends on a Sunday that repeats, every fault may
\* strike once.
CONSTANTS
  Uuid = {1, 2}
  Desc = {d1}
  Terms = {0, 9}
  Limit = 1
  DaysPerWeek = 2
  BackoffDays = 1
  Lag = 0
  Reclassify = TRUE
  IncrementalPages = 2
  FullPages = 3
  MaxAttempts = 1
  Faults = {"start", "page", "truncate", "blank", "write", "upsert", "flush",
            "sweep", "finish", "crash"}
  FirstDay = 1
  MaxDay = 2
  MaxChanges = 1
  MaxFaults = 1
  Gone = Gone
  NoRow = NoRow
SPECIFICATION FairSpec
PROPERTIES GoneIsClosed AdvertisedIsOpen
