\* Three requests for two pages over a cache of one, a TTL as long as a render may take.
CONSTANTS
  Request = {r1, r2, r3}
  Key = {market, tech}
  MaxEntries = 1
  TTL = 1
  Timeout = 1
  MaxClock = 2
  None = None
  Failed = Failed
SPECIFICATION FairSpec
INVARIANTS TypeOK SingleFlight SomeoneToWaitFor FreshEnough
PROPERTY Answered
