----------------------------- MODULE Statistics -----------------------------
(***************************************************************************)
(* What the site and the weekly report say of the market, as the queries   *)
(* of internal/metric compute it from the tables that hold just now.       *)
(*                                                                         *)
(* A salary is kept as twice its midpoint, a share as the two counts it    *)
(* is the quotient of, and what is ordered as the set of those that make   *)
(* the cut.                                                                *)
(***************************************************************************)
EXTENDS Calendar, FiniteSets, FiniteSetsExt

CONSTANTS
  Posting,     \* uuids, numbers because listings break ties by name
  Slug,        \* technologies, numbers for the same reason
  Skill,       \* tags of the board
  Company,     \* employers
  Roles,       \* roleFamilyList
  Levels,      \* classify.SeniorityLevels
  EntryLevels, \* the levels an unstated requirement is entry-level at
  CompanyTypes,
  TypeOf,      \* TypeOf[c]: company_type
  MinWeeks,    \* MinWeeksForMomentum
  MinTech,     \* MinTechCountForMomentum
  MinPremium,  \* MinSalarySamplesPerTech
  MinCell,     \* MinSalarySamplesPerCell
  MinCompany,  \* MinPostingsPerCompanyStat
  MinClosed,   \* MinClosedForLifetime
  TrendWeeks,  \* TrendWeeks
  BoardLimit,  \* MomentumBoardLimit
  TopLimit,    \* TopCompanyLimit
  None         \* NULL

Layers == {"rule", "llm"}

VARIABLES
  job,   \* job[p]: the row of a posting, or None
  tech,  \* tech[p]: its rows in job_tech, slug and layer
  marks  \* marks[p]: the layers with an enrich_done row

tables == <<job, tech, marks>>

\* f where it is defined, and g elsewhere.
Over(f, g) == [x \in DOMAIN f \cup DOMAIN g |-> IF x \in DOMAIN f THEN f[x] ELSE g[x]]

----------------------------------------------------------------------------
(* The lens: one experience band, one role family, or None for every one.   *)

expBands == {"0-2", "3-5", "6+", "unstated"}

ExpBand(b, years) ==
  CASE b = "0-2"      -> years # None /\ years <= 2
    [] b = "3-5"      -> years # None /\ years \in 3..5
    [] b = "6+"       -> years # None /\ years >= 6
    [] b = "unstated" -> years = None

AnyLens == [exp |-> None, role |-> None]

InLens(p, lens) ==
  /\ lens.exp # None => ExpBand(lens.exp, job[p].years)
  /\ lens.role # None => job[p].role = lens.role

RoleOnly(lens) == [lens EXCEPT !.exp = None]

----------------------------------------------------------------------------
(* Selections *)

Stored == {p \in Posting : job[p] # None}

SWEJobs(lens) == {p \in Stored : job[p].swe /\ InLens(p, lens)}

swePosted(w, lens) == {p \in SWEJobs(lens) : DateIn(job[p].posted, w)}

\* A posting without an expiry date is stored with an empty one, which sorts
\* before every day.
active(today, lens) ==
  {p \in SWEJobs(lens) : /\ job[p].closed = None
                         /\ job[p].expiry # None /\ job[p].expiry >= today}

EntryPredicate(p) ==
  IF job[p].years # None THEN job[p].years <= 2 ELSE job[p].level \in EntryLevels

statedSalary(p) == ~job[p].hidden /\ job[p].pay # None

comparableSalary(p) == statedSalary(p) /\ job[p].monthly

enriched(p) == tech[p] # {} \/ marks[p] # {}

Mentions(p, s) == \E l \in Layers : <<s, l>> \in tech[p]

----------------------------------------------------------------------------
(* Numbers *)

\* The sum, and the product, of the values of f.
SumOf(f) ==
  MapThenFoldSet(LAMBDA x, y : x + y, 0, LAMBDA x : f[x], LAMBDA s : CHOOSE x \in s : TRUE, DOMAIN f)

ProductOf(f) ==
  MapThenFoldSet(LAMBDA x, y : x * y, 1, LAMBDA x : f[x], LAMBDA s : CHOOSE x \in s : TRUE, DOMAIN f)

Ranked(f, i) ==
  CHOOSE v \in {f[x] : x \in DOMAIN f} :
    /\ Cardinality({x \in DOMAIN f : f[x] < v}) <= i
    /\ i < Cardinality({x \in DOMAIN f : f[x] <= v})

\* The nearest rank: of the n values in order the one with index floor(q n),
\* counted from zero, or the last; 0 of nothing.
Percentile(f, num, den) ==
  IF DOMAIN f = {} THEN 0
  ELSE LET n == Cardinality(DOMAIN f)
           i == (num * n) \div den
       IN Ranked(f, IF i < n THEN i ELSE n - 1)

\* One sample too few is enough.
OneShort(n, floor) == n + 1 < floor

Suppressed(n, floor) == n < floor

Midpoint(p) == job[p].pay

Pay(S) == [p \in S |-> Midpoint(p)]

\* Those that make the first n in an order.
Top(S, n, Before(_, _)) == {x \in S : Cardinality({y \in S : Before(y, x)}) < n}

\* One cell of salaries: nothing but the sample's size below the floor.
cellOf(S) ==
  IF Suppressed(Cardinality(S), MinCell)
    THEN [n |-> Cardinality(S), p25 |-> None, p50 |-> None, p75 |-> None]
    ELSE [n   |-> Cardinality(S),
          p25 |-> Percentile(Pay(S), 1, 4),
          p50 |-> Percentile(Pay(S), 1, 2),
          p75 |-> Percentile(Pay(S), 3, 4)]

windowTransparency(w, lens) ==
  LET S == swePosted(w, lens)
  IN [disclosed |-> Cardinality({p \in S : statedSalary(p)}), total |-> Cardinality(S)]

Comparable(w, lens) == {p \in swePosted(w, lens) : comparableSalary(p)}

----------------------------------------------------------------------------
(* /pay *)

ladderBands == {"0", "1-2", "3-5", "6+", "unstated"}

\* No years at all as exactly zero of them.
RungFromZero(b, years) ==
  CASE b = "0"        -> years # None /\ years = 0
    [] b = "1-2"      -> years # None /\ years \in 1..2
    [] b = "3-5"      -> years # None /\ years \in 3..5
    [] b = "6+"       -> years # None /\ years >= 6
    [] b = "unstated" -> years = None

Rung(b, years) ==
  CASE b = "0"        -> years # None /\ years <= 0
    [] b = "1-2"      -> years # None /\ years \in 1..2
    [] b = "3-5"      -> years # None /\ years \in 3..5
    [] b = "6+"       -> years # None /\ years >= 6
    [] b = "unstated" -> years = None

OnRung(S, b) == {p \in S : Rung(b, job[p].years)}

ladder(w, lens) ==
  [b \in ladderBands |->
     [postings |-> Cardinality(OnRung(swePosted(w, lens), b)),
      pay      |-> cellOf(OnRung(Comparable(w, lens), b))]]

gridSamples(w, lens) ==
  [c \in {job[p].level : p \in Stored} \X {job[p].role : p \in Stored} |->
     {p \in Comparable(w, lens) : job[p].level = c[1] /\ job[p].role = c[2]}]

\* Postings without an employer count as Other.
CompanyType(p) == IF job[p].employer = None THEN "Other" ELSE TypeOf[job[p].employer]

transparencyByCompanyType(w, lens) ==
  LET S     == swePosted(w, lens)
      Of(t) == {p \in S : CompanyType(p) = t}
  IN [t \in {CompanyType(p) : p \in S} |->
        [disclosed |-> Cardinality({p \in Of(t) : statedSalary(p)}),
         total     |-> Cardinality(Of(t)),
         shown     |-> ~Suppressed(Cardinality(Of(t)), MinCompany)]]

\* The overall cell takes every sample, the grid and its totals those of the
\* listed levels and roles.
overallPay(now, lens) == cellOf(Comparable(Rolling(now, RollingDays), lens))

salaryTransparency(now, lens) == windowTransparency(Rolling(now, RollingDays), lens)

PayReport(now, lens) ==
  LET w        == Rolling(now, RollingDays)
      cells    == gridSamples(w, lens)
      At(L, R) == UNION {cells[c] : c \in (L \X R) \cap DOMAIN cells}
  IN [overall    |-> overallPay(now, lens),
      grid       |-> [c \in Levels \X Roles |-> cellOf(At({c[1]}, {c[2]}))],
      rowTotals  |-> [level \in Levels |-> cellOf(At({level}, Roles))],
      roleTotals |-> [role \in Roles |-> cellOf(At(Levels, {role}))],
      ladder     |-> ladder(w, RoleOnly(lens)),
      salary     |-> salaryTransparency(now, lens),
      byType     |-> transparencyByCompanyType(w, lens)]

----------------------------------------------------------------------------
(* / *)

Groups(f) ==
  [v \in {f[p] : p \in DOMAIN f} \ {None} |-> Cardinality({p \in DOMAIN f : f[p] = v})]

RolesOf(S) == [p \in S |-> job[p].role]

LevelsOf(S) == [p \in S |-> job[p].level]

newPosted(now, lens) == swePosted(LastCompletedWeek(now), lens)

prevPosted(now, lens) == swePosted(PrevWeeks(LastCompletedWeek(now), 1)[1], lens)

activeNow(now, lens) == active(SGTDay(now), lens)

MarketReport(now, lens) ==
  LET week  == LastCompletedWeek(now)
      New   == newPosted(now, lens)
      Prev  == prevPosted(now, lens)
      Board == activeNow(now, lens)
      Entry(S) == {p \in S : EntryPredicate(p)}
  IN [week        |-> WeekLabel(week),
      active      |-> Cardinality(Board),
      activeEntry |-> Cardinality(Entry(Board)),
      newJobs     |-> Cardinality(New),
      entryJobs   |-> Cardinality(Entry(New)),
      prevJobs    |-> Cardinality(Prev),
      hasWoW      |-> Prev # {},
      trend       |-> [i \in 1..TrendWeeks |->
                         Cardinality(swePosted(weekBefore(week, TrendWeeks - i), lens))],
      roles       |-> Groups(RolesOf(New)),
      seniorities |-> Groups(LevelsOf(New)),
      entryByRole |-> Groups(RolesOf(Entry(New)))]

----------------------------------------------------------------------------
(* /companies *)

Of(c) == {p \in Stored : job[p].employer = c}

\* Days a posting was up when it was last seen, the first one counted.
DaysUp(p) == LET d == UTCDay(job[p].seen) - job[p].posted + 1 IN IF d < 1 THEN 1 ELSE d

\* A day's applications and views, in hundredths.
AppsPerDay(S) == [p \in S |-> (100 * job[p].apps) \div DaysUp(p)]

ViewsPerDay(S) == [p \in S |-> (100 * job[p].views) \div DaysUp(p)]

companyAppsPerDay(w, lens, c) ==
  LET S == {p \in swePosted(w, lens) \cap Of(c) : job[p].apps # None}
  IN Percentile(AppsPerDay(S), 1, 2)

\* By postings, then by name.
topCompanies(w, today, lens) ==
  LET S(c)         == swePosted(w, lens) \cap Of(c)
      N(c)         == Cardinality(S(c))
      Before(c, d) == N(c) > N(d) \/ (N(c) = N(d) /\ c < d)
  IN [c \in Top({c \in Company : S(c) # {}}, TopLimit, Before) |->
        [postings  |-> N(c),
         activeNow |-> Cardinality(S(c) \cap active(today, lens)),
         disclosed |-> Cardinality({p \in S(c) : statedSalary(p)}),
         apps      |-> IF Suppressed(N(c), MinCompany) THEN None
                       ELSE companyAppsPerDay(w, lens, c)]]

companyTypeMix(w, lens) ==
  Groups([p \in {p \in swePosted(w, lens) : job[p].employer # None} |-> CompanyType(p)])

Lifetimes == {"<7", "7-14", "15-30", "30-60", "60+"}

LifetimeBand(b, d) ==
  CASE b = "<7"    -> d < 7
    [] b = "7-14"  -> d \in 7..14
    [] b = "15-30" -> d \in 15..30
    [] b = "30-60" -> d \in 31..60
    [] b = "60+"   -> d >= 61

DaysListed(p) ==
  LET d == UTCDay(job[p].closed) - job[p].posted IN IF d < 0 THEN 0 ELSE d

Lifetime(w, lens) ==
  LET Closed == {p \in SWEJobs(lens) : job[p].closed # None /\ StampIn(job[p].closed, w)}
      n      == Cardinality(Closed)
      shown  == ~Suppressed(n, MinClosed)
  IN [closed    |-> n,
      stillOpen |-> Cardinality({p \in SWEJobs(lens) : job[p].closed = None}),
      median    |-> IF shown THEN Percentile([p \in Closed |-> DaysListed(p)], 1, 2) ELSE None,
      bands     |-> IF shown
                      THEN [b \in Lifetimes |->
                              Cardinality({p \in Closed : LifetimeBand(b, DaysListed(p))})]
                      ELSE [b \in {} |-> 0]]

GhostSignals(today, lens) ==
  LET S == active(today, lens)
  IN [active   |-> Cardinality(S),
      stale    |-> Cardinality({p \in S : today - job[p].posted > 60}),
      reposted |-> Cardinality({p \in S : job[p].reposts > 0})]

CompetitionByRole(w, lens) ==
  LET Counted == {p \in swePosted(w, lens) :
                    job[p].role # None /\ job[p].apps # None /\ job[p].views # None}
      In(r)   == {p \in Counted : job[p].role = r}
      Shown(r, v) == IF Suppressed(Cardinality(In(r)), MinCompany) THEN None ELSE v
      Apps(r)  == SumOf([p \in In(r) |-> job[p].apps])
      Views(r) == SumOf([p \in In(r) |-> job[p].views])
  IN [r \in {job[p].role : p \in Counted} |->
        [postings   |-> Cardinality(In(r)),
         apps       |-> Shown(r, Percentile(AppsPerDay(In(r)), 1, 2)),
         views      |-> Shown(r, Percentile(ViewsPerDay(In(r)), 1, 2)),
         conversion |-> Shown(r, <<Apps(r), Views(r)>>)]]

CompanyReport(now, lens) ==
  LET w     == Rolling(now, RollingDays)
      today == SGTDay(now)
  IN [top         |-> topCompanies(w, today, lens),
      byType      |-> companyTypeMix(w, lens),
      lifetime    |-> Lifetime(w, lens),
      ghost       |-> GhostSignals(today, lens),
      competition |-> CompetitionByRole(w, lens)]

----------------------------------------------------------------------------
(* /tech.  The denominator and the counts of a week are two queries.        *)

\* Every posting as the denominator, or those with a marker only.
AllCount(w, lens) == Cardinality(swePosted(w, lens))

MarkedCount(w, lens) == Cardinality({p \in swePosted(w, lens) : marks[p] # {}})

enrichedCount(w, lens) == Cardinality({p \in swePosted(w, lens) : enriched(p)})

\* Postings, not rows: a technology found by both layers is found once.
techCounts(w, lens) ==
  [s \in Slug |-> Cardinality({p \in swePosted(w, lens) : Mentions(p, s)})]

\* The weeks before the reported one that have enriched postings.
Baseline(week, lens) ==
  LET prev == PrevWeeks(week, MinWeeks - 1)
  IN {[denom |-> enrichedCount(prev[i], lens), counts |-> techCounts(prev[i], lens), at |-> i] :
        i \in {j \in DOMAIN prev : enrichedCount(prev[j], lens) > 0}}

\* The share less the mean of the baseline's, over a common denominator.
MomentumOf(n, denom, base, s) ==
  LET whole == ProductOf([b \in base |-> b.denom])
      parts == [b \in base |-> b.counts[s] * (whole \div b.denom)]
  IN n * Cardinality(base) * whole - denom * SumOf(parts)

\* The table built from a denominator and counts that were read before.
TechTable(denom, counts, base) ==
  LET available == Cardinality(base) + (IF denom > 0 THEN 1 ELSE 0)
      Eligible(s) == ~Suppressed(available, MinWeeks) /\ ~Suppressed(counts[s], MinTech)
      Moves(s)  == MomentumOf(counts[s], denom, base, s)
      Found    == {s \in Slug : counts[s] > 0}
      Before(s, t) == counts[s] > counts[t] \/ (counts[s] = counts[t] /\ s < t)
      Live      == {s \in Found : Eligible(s)}
      Hotter(s, t) == Moves(s) > Moves(t) \/ (Moves(s) = Moves(t) /\ Before(s, t))
      Colder(s, t) == Hotter(t, s)
  IN [share    |-> [s \in Found |-> <<counts[s], denom>>],
      history  |-> available,
      eligible |-> Live,
      rising   |-> Top({s \in Live : Moves(s) > 0}, BoardLimit, Hotter),
      falling  |-> Top({s \in Live : Moves(s) < 0}, BoardLimit, Colder)]

salarySample(w, lens, s) == {p \in Comparable(w, lens) : Mentions(p, s)}

\* The premium of a technology: its median, beside everyone's.
Premium(w, lens, s) ==
  LET S == salarySample(w, lens, s)
      everyone == Percentile(Pay(Comparable(w, lens)), 1, 2)
  IN IF Suppressed(Cardinality(S), MinPremium) \/ everyone = 0 THEN None
     ELSE <<Percentile(Pay(S), 1, 2), everyone>>

entryShare(w, lens, s) ==
  LET S == {p \in swePosted(w, lens) : Mentions(p, s)}
  IN <<Cardinality({p \in S : EntryPredicate(p)}), Cardinality(S)>>

SkillDemand(w, lens) ==
  LET S    == swePosted(w, lens)
      N(k) == Cardinality({p \in S : k \in job[p].skills})
      Must(k) == Cardinality({p \in S : k \in job[p].skills \cap job[p].keySkills})
  IN [k \in {k \in Skill : N(k) > 0} |->
        [postings |-> N(k), share |-> <<N(k), Cardinality(S)>>, key |-> <<Must(k), N(k)>>]]

=============================================================================
