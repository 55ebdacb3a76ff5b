\* Three postings and two workers, two descriptions to share, one edit, an LLM
\* that may fail at any time; postings and descriptions are interchangeable.
CONSTANTS
  Uuid = {u1, u2, u3}
  Text = {t1, t2}
  Concurrency = 2
  Faults = {"llm"}
  MaxChanges = 1
  MaxFaults = 0
  None = None
SYMMETRY Symmetry
SPECIFICATION Spec
INVARIANTS TypeOK  OncePerWorker
