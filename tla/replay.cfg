CONSTANTS
  Uuid = {1, 2}
  Text = {"a", "b"}
  Company = {"acme"}
  Verdicts = {"swe", "other", "out"}
  Slug = {"x", "y"}
  CompanyTypes = {"agency", "company"}
  Candidates = {"swe", "other"}
  SWE = {"swe"}
  Employer <- MCEmployer
  Verdict <- MCVerdict
  TypeOf <- MCTypeOf
  Found <- MCFound
  MaxBuild = 2
  Since = 2
  Batch = 1
  MaxRuns = 2
  MaxSights = 2
  MaxFaults = 1
  None = None
SPECIFICATION Spec
INVARIANTS TypeOK ReplayReaches LastPostingNamesType GapsAreReal
PROPERTY ProcessedOnce
CHECK_DEADLOCK FALSE
