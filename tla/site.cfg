\* Two postings over the turn of a week, four hours of one UTC day, two runs.
CONSTANTS
  Posting = {1, 2}
  Slug = {1, 2}
  Skill = {"sql"}
  Company = {1}
  Roles = {"Backend"}
  Levels = {"Junior", "Senior"}
  EntryLevels = {"Junior"}
  CompanyTypes = {"MNC"}
  TypeOf <- MCTypeOf
  MinWeeks = 2
  MinTech = 1
  MinPremium = 1
  MinCell = 2
  MinCompany = 2
  MinClosed = 1
  TrendWeeks = 3
  BoardLimit = 1
  TopLimit = 1
  WeekDays = 2
  JobLimit = 1
  FoundBy <- MCFound
  Shape <- MCShape
  Legacy <- MCLegacy
  Times = {326, 330}
  Jobs <- MCJobs
  MaxWrites = 2
  None = None
SPECIFICATION Spec
INVARIANTS TypeOK  ShownIsAdvertised TornOnlyByWriters 
PROPERTY BacklogMovesNoShare
CHECK_DEADLOCK FALSE
