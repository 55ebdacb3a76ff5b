\* One report is out; the CronJob's Job with a retry, and a run by hand for either week.
CONSTANTS
  Posting = {1, 2}
  Slug = {1}
  Skill = {}
  Company = {1}
  Roles = {"Backend"}
  Levels = {"Junior"}
  EntryLevels = {"Junior"}
  CompanyTypes = {"MNC"}
  TypeOf <- MCTypeOf
  MinWeeks = 2
  MinTech = 1
  MinPremium = 1
  MinCell = 1
  MinCompany = 1
  MinClosed = 1
  TrendWeeks = 1
  BoardLimit = 1
  TopLimit = 1
  Row <- MCRow
  Firing = 337
  Earlier = 0
  Manual = {0, None}
  MaxPods = 2
  MaxManual = 1
  MaxWrites = 1
  Fragile = {"new_jobs"}
  MaxLost = 1
  None = None
SPECIFICATION FairSpec
INVARIANTS TypeOK LinkIsReadable ReportIsOfItsWeek LatestIsNewest
PROPERTY EveryWeekIsPublished
CHECK_DEADLOCK FALSE
