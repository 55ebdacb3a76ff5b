\* Two postings, one of which a reconcile edits.
CONSTANTS
  Uuid = {u1, u2}
  Text = {t1, t2}
  Concurrency = 1
  Faults = {}
  MaxChanges = 1
  MaxFaults = 0
  None = None
SPECIFICATION Spec
INVARIANT CacheNeverLies
