\* Two postings that may share a description, an LLM that may fail for ever,
\* an edit, one more fault of any kind.
CONSTANTS
  Uuid = {u1, u2}
  Text = {t1, t2}
  Concurrency = 2
  Faults = {"lose", "query", "read", "write", "llm", "cache", "finish", "crash"}
  MaxChanges = 1
  MaxFaults = 1
  None = None
SPECIFICATION FairSpec
INVARIANTS FoundInOwnText TermsOnce
PROPERTIES HonestWhenInferred RuleLayerCatchesUp LLMLayerCatchesUp
