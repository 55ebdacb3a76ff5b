\* The first Monday of 2024 and the last one.
CONSTANTS
  Posting = {1, 2}
  Slug = {1}
  Skill = {}
  Company = {1}
  Roles = {"Backend"}
  Levels = {"Junior"}
  EntryLevels = {"Junior"}
  CompanyTypes = {"MNC"}
  TypeOf <- MCTypeOf
  MinWeeks = 2
  MinTech = 1
  MinPremium = 1
  MinCell = 1
  MinCompany = 1
  MinClosed = 1
  TrendWeeks = 1
  BoardLimit = 1
  TopLimit = 1
  Row <- MCRow
  Firing = 8905
  Earlier = 0
  Manual = {}
  MaxPods = 1
  MaxManual = 0
  MaxWrites = 1
  Fragile = {"new_jobs"}
  MaxLost = 0
  None = None
SPECIFICATION Spec
INVARIANT LinkLeadsToItsWeek
CHECK_DEADLOCK FALSE
