# jobs-sg in TLA+

jobs-sg pulls the public job board of MyCareersFuture (MCF) every night into an
append-only archive and a SQLite table, has an LLM name the technologies of each
posting, and serves statistics from the table. What makes it hard to get right is
not its volume but its nights: jobs that fail half-way and are run again, a board
that changes while it is read, postings that must be closed because they are
*not* seen, and alerts that must stay quiet exactly when the data is good.

The project models those parts in TLA+, checks them with TLC on small instances
and proves the results that matter with TLAPS for every instance.

## 1. The system

| Part | Code | State it keeps | Operations | Modelled in |
|---|---|---|---|---|
| ingest | `internal/ingest`, `cmd/ingest` | none between runs | one run a night, a reconcile on Sundays | `Ingest` |
| MCF client | `internal/mcf/client.go` | none | `FetchPage`, `EachPage` | `Ingest` |
| archive | `internal/mcf/archive.go`, `reader.go`, `walk.go` | `raw/<date>/<seq>.jsonl.gz`, append-only | `Write`, `Close`, `ReadArchiveDescriptions`, `WalkArchives` | `Ingest` (writing), `Enrich` (reading), `Replay` (walking) |
| job table | `internal/store/jobs.go` | rows with `last_seen_at`, `miss_count`, `closed_at`, `raw_path` | `UpsertJob`, `MissAndClose`, `KnownUUIDs`, `QueryWatermark` | `Ingest`, abstractly `Lifecycle` |
| run table | `internal/store/runs.go` | one audit row per run | `StartRun`, `FinishRun`, `LastSuccess`, `RecordScanAudit` | `Ingest`, `Enrich`, `Operations` |
| enrichment | `internal/llm/enrich.go`, `cmd/enrich` | none between runs | rule layer, LLM layer | `Enrich` |
| enrichment tables | `internal/store/enrich.go` | `job_tech`, `enrich_done`, `enrich_cache`, `unmapped_tech` | backlogs, `WriteRuleTech`, `WriteLLMTech`, `CacheGet`, `CachePut` | `Enrich` |
| taxonomy tables | `internal/store/schema.go` | aliases, SSOC map | `Seed`, `LoadTechTaxonomy` | `Replay` |
| replays | `scripts/reclassify`, `scripts/retech` | none | walk the archive, rewrite the tables in batches | `Replay` |
| statistics | `internal/metric`, `internal/sgt` | none | the queries of every page, windows, percentiles | `Statistics`, `Calendar` |
| web server | `internal/web`, `internal/report/daily.go` | the page cache | market pages, daily pages, `/metrics`, the report's files | `Site` over `Statistics` and `Operations`; `Publish` |
| page cache | `internal/web/cache.go`, `daily.go` | entries and renders in flight | `do` | `PageCache` |
| weekly report | `cmd/report`, `internal/report/metrics.go` | `weekly_metric`, `report/*.html`, a Telegram message | compute, publish, push | `Publish` |
| classifier | `internal/classify` | none | a pure function of the posting | a constant of `Replay`, part of a listing in `Ingest` |
| views, fixtures | `internal/view`, `scripts/genfixture` | none | | not modelled |

How they interact: ingest and enrichment meet only in the archive and the tables.
A row's `raw_path` names the archive record with the posting's description; the
row itself carries only the hash of it. Enrichment lists postings without a done
marker, reads their descriptions through `raw_path` and caches the LLM's answer
under the hash. A replay walks the whole archive and writes what today's rules make
of it over what earlier rules made of it, while the nightly jobs go on. The web
server, the alerts and the report read the tables, each query on its own. The
jobs are meant not to overlap, but ingest may run for an hour from 02:15 and
enrichment starts at 03:10, so `Enrich` lets postings be stored and edited at any
time of a run; the report and the replays may be run by hand at any time.

What is hard, part by part, is the list of hazards in `PROJECT.json`, each at its
line with the properties that watch it.

What makes each part correct:

- *Ingest*: what was served is recorded or the run admits that it was not; a close
  pass touches nothing it was shown, and counts an absence only when it has seen
  enough of the board; the table follows the board in the end.
- *Job table*: a closed posting has a reason on record; the lifecycle is the
  abstract one, whatever fails.
- *Archive*: every row names a record that can be read.
- *Enrichment*: technologies and answers belong to the description they are filed
  under; work is done once; a success is one; nothing is forgotten for ever.
- *Replays*: one that ends well has reached all it should and reports real gaps
  only; no order of batches shows; what was processed stays processed.
- *Statistics and pages*: numbers that are shown next to each other add up; what is
  shown of a small sample is nothing; a backlog and a concurrent job move no number
  they have nothing to do with.
- *Weekly report*: a pushed link leads to a page, of the week it was pushed for; the
  latest report is the newest; a week is published although pods are killed.
- *Page cache*: one render per page, a bounded size, a bounded age, and every
  request answered.

## 2. The modules

    Lifecycle <= Ingest        Enrich        PageCache        Replay
    Calendar <- Statistics <- Operations <- Site
                     ^------- Publish

(`<=` is implemented by, `<-` is extended by.)

### Lifecycle — what ingest promises

An abstract account of a posting: unknown, open, closed. Any run may sight a
posting, which opens it with no absences. A sweep of the board may, in one step
at its end, close those it did not sight that have expired, and count an absence
for the others, the second of which closes them — if it is trusted. There are no
pages, faults or transactions in it. `Ingest` implements it: `Sweeping` maps the
part of a reconcile up to its close pass to a sweep, `seen` to what it has sighted,
the row's `closed_at`, `miss_count` and `expiry_date` to the books.

### Ingest — the run

State: the world (`day`, `board`), what persists (`job`, `archived`, `fresh`, and
`attempts`, the runs Kubernetes will still start today) and the locals of one run
of `ingest.Run`. `fresh[k]` is the day of `LastSuccess(k)`, which is all that the
audit rows are read for. The actions, in the order of the code:

| Action | Code |
|---|---|
| `Begin`, `BeginFails` | `Run` up to the first request: kind, page limit, watermark, `KnownUUIDs` |
| `FetchPage(lost)` | a page: `EachPage`'s totals, pass 1 (archive what is not `known`; writes of `lost` fail), which candidates pass 2 will upsert, and whether it stops |
| `FetchEmptyPage`, `FetchTruncatedPage`, `FetchFails` | the end of the board, what cannot be told from it, and a request that fails for good |
| `Upsert`, `UpsertFails` | one `UpsertJob`, committed or rolled back, in page order |
| `EndPage` | `EachPage` after the callback: count, stop, circuit breaker |
| `CloseArchive`, `CloseArchiveFails` | `closeArchive`, the status, and whether the close pass runs |
| `MissAndClose`, `MissAndCloseFails` | the close gate and `missAndCloseOnce`'s transaction |
| `Finish`, `FinishFails` | `FinishRun`; the job exits 0 or 1 |
| `Crash` | the container is killed: rows stay, an arbitrary part of the buffered records does |
| `ChangeListing`, `NextDay` | publishers; midnight |

The board changes only between page requests, because only a page request reads
it. Days are numbers, a posting's dates are days, its description and everything
extracted from it are a model value; candidates are those the classifier would
take, and an edit may change that (`Reclassify`). `served`, `owed`, `steady` and
`sound` record what happened for the properties and are read by no action.

### Enrich — the nightly enrichment

State: the rows (`job`, hash and `raw_path` only), the archive, the enrichment
tables, and one run: its two batches, what the archive pass found (`descs`), what
the loop has left (`todo`) and where each worker stands (`at`). The loop is
`Begin`, `BeginLLM`, `ReadDescriptions`, `WriteRuleTech`/`SkipRule`,
`EndRuleLayer`, `Start`/`SkipLLM`, `Finish`; a worker is `Lookup`, `Answer`, `Put`,
`Write`, `CountTerms`, or `GiveUp` at any of its steps. A description stands for
its hash and for what is extracted from it, so that `tech[s][u]` and `cache[t]`
say which description they came from. `Write` and `CountTerms` are two steps because
`WriteLLMTech` commits the markers before it counts the unmapped terms. Ingest
appears as `Store`, `Edit` and `CloseArchive`; an edit hands the new description to
the archive or, as in a reconcile, skips it and stores the hash alone. `intact` says
that none has skipped it so far; like `had` and `inferred` it is history, read by
properties only.

### PageCache — the page cache

State: the cache and the flight map, and for every request slot where it stands in
`do`. The mutex makes the two critical sections atomic: `Hit`, `Join` and `Lead` are
the three ways out of the first, `Publish` is the second; `Build` is the render in
between, `Close` the `close(b.done)` after it. A page is the time of the data it
shows. `Tick` does not let a render outlive its context (`dailyTimeout`), and holds
still between the end of a render and its `close`, which take no time against a TTL
of a minute.

### Replay — reclassify and retech

State: the deployed `build`, the builds that have `seeded` the taxonomy tables, the
archive as a sequence of `files` of which one may be open (`scan`) or was never
closed, the tables (`row`, `ctype`, `tech`, `done`), one enrichment run, and one
replay of either kind: what it loaded when it began (`rules`, `snap`), what the walk
found (`latest`, `missing`), and the batches it has left (`todo`). The actions
follow `main` of the two scripts: `Begin`, `Walk` or `WalkFails`, `DryRun` or
`Proceed`, `ApplyBatch` until nothing is left, `Finish`; `Abort` at any point.
`IngestBegins`, `Sight`, `IngestEnds`, `IngestKilled`, `EnrichBegins`, `Enrich`,
`EnrichEnds` and `Deploy` are the other jobs as far as a replay can see them. What
the rules say of a record (`Verdict`, `TypeOf`, `Found`) are constants that depend
on the build, and on what was seeded by which builds.

### Calendar, Statistics, Operations — what is computed

Operators over a set of rows, one for each query or Go function that decides a
number, with its name. `Calendar` has Singapore days and ISO weeks over hours in
UTC, and what SQLite's comparison of strings makes of a day and a time stamp.
`Statistics` has the lens, the windows, nearest-rank percentiles, the floors below
which nothing is shown, and the sections of `/`, `/pay`, `/companies`, `/tech`.
`Operations` adds the audit rows, `/ops`, `/ops/{date}` and `/metrics`.

### Site — the pages while the jobs write

State: the tables of `Statistics`, the audit rows, a clock, and one reading of
`/tech`, which takes a query for its denominator and another for its counts. Ingest
and enrichment runs start, store, close, enrich, end in every way they can, or
never end. The rows of postings are chosen from shapes that differ in what the
pages tell apart.

### Publish — the weekly report

State: the tables, the CronJob's Job (`cron`) with its pods, at most one run of the
command in a pod and one by hand (`run`), `weekly_metric` (`weekly`), the files
under `report/` (`file`), the recorded runs and the pushed links. A run takes the
`Steps` in order: the rows of its week are cleared, the figures computed and put, the
metric layer asked and its rows put, each file truncated and then filled, the run
recorded, the link pushed. `Kill` and `Deadline` end it between two steps, a
statement whose error is not looked at may fail, a posting may be stored
meanwhile, and of two runs that fill one file the longer text may keep its tail.

### Proof modules

`IngestProofs` (with the refinement of `Lifecycle`), `PageCacheProofs`, `EnrichProofs`,
`ReplayProofs`, `CalendarProofs` and, on top of it, `PublishProofs`, `StatisticsProofs`
(sums, partitions, ranks and orders) and, on top of both, `SiteProofs`; see section 4. `MCEnrich` adds symmetry to `Enrich` for TLC;
`MCReplay`, `MCSite`, `MCPublish` give the constants of their modules values that
are functions.

In each specification a few definitions are named for a mistake
(`FloorAtWatermark`, `LeadAnyway`, ...). Each differs from the definition after it
by one plausible bug and is used by nothing; put in its place, it makes TLC find
the property violated that is meant to notice (`mutants` in `PROJECT.json`).

## 3. What TLC checks

| Run | Instance | What it shows |
|---|---|---|
| `ingest_lifecycle` | 2 postings, 1 per page, weeks of 2 days, 6 days, 2 attempts a day, 2 changes, 1 fault of 8 kinds | closings have a reason, close passes spare what was served, absence is evidence, fresh means recorded, and `Lifecycle` is implemented |
| `ingest_scan` | 3 postings, 1 per page, 3 days without a Sunday, window 1, dated back up to 1 day, failing pages, writes and upserts | paging, early stop and window lose nothing on clean runs; rows name readable records |
| `ingest_live` | 2 postings, terms 0 and 9, 2 days of which the second repeats, all 10 faults | the table converges to the board |
| `cache` | 3 requests, 2 pages, capacity 1, TTL = timeout = 1, clock to 2 | all of `PageCache`'s properties, `Answered` under fairness |
| `enrich` | 3 postings, 2 descriptions, 2 workers, 1 edit of either kind, an LLM that may always fail, symmetric | workers that wait for a slot and share answers: the semaphore holds, a description is not inferred again |
| `enrich_live` | 2 postings, 2 descriptions, 2 workers, 1 edit of either kind, an LLM that may always fail, 1 fault of 7 more kinds | the cache is true, technologies are the posting's own, terms are counted once, a success is honest, both layers catch up |
| `replay` | 2 postings of one employer, 2 records, 2 builds of which the first knows no markers, batches of 1, 2 ingest runs of which 1 may be killed | a replay that ends well has reached what it should, its gaps are real, the order of batches does not show, and nothing returns to the rule layer |
| `site` | 2 postings of 4 shapes, 2 technologies, 2 instants of one UTC day on either side of a Singapore midnight and of a week, a reconcile and an enrichment run, 2 writes | numbers add up, thin samples show nothing, daily pages agree, only a writer between two queries tears a share |
| `publish` | 2 weeks, 2 postings, 2 pods, 1 run by hand for either week, 1 write, 1 lost statement | links are readable, a report is of its week, the latest is the newest, a week is published |
| `replay_cut`, `report_label`, `enrich_cache` | the smallest instance that shows it | the code does not do what a document or comment says; section 5 |

Why the bounds are enough. With one posting per page, two or three postings already
give an early stop between pages, a full page, a shifted page and a tripped circuit
breaker. A week of two days puts a weekday before and after each Sunday; three
Sundays allow a miss, a sighting and two more misses, or a close, a reopening and
a second close. Coverage of 80% separates one posting of two from both; the gate's
boundary itself is a matter of integers in the model (`5 * scanned >= 4 * maxTotal`),
equal to the code's division in floating point at the sizes of the board. One fault
per behaviour can strike at every step; two attempts a day are enough for a fault
to be followed by the retry. In `cache`, a leader, a waiter and a third request for
the other page make the cache overflow during a render; time runs past the expiry
of an entry. In `enrich`, three postings for two slots make one wait, and two
descriptions for three postings make two of them share an answer; in `enrich_live`,
where faults strike, two postings are enough to share one.

In `replay`, the second build changes a verdict, retires an alias and seeds the map,
so that a job of either build meets tables of either; with batches of one, two
postings of one employer are written in two transactions. In `site`, floors of one
and two are met, missed and just missed by two postings; `MinWeeks` = 2 makes a
history of one week that may be empty. In `publish`, the weeks are consecutive, so
that a day that slips from one to the other shows in both; the Job's `backoffLimit`
is 2, three attempts, and two are enough for one to find what another left.

Bounds are named: `MaxDay`, `MaxChanges`, `MaxFaults`, `MaxClock`, `MaxBuild`,
`MaxRuns`, `MaxSights`, `Times`, `Jobs`, `MaxPods`, `MaxManual`, `MaxWrites`,
`MaxLost`. `Ingest`, `Enrich` and `PageCache` are checked for deadlock: at `MaxDay`
the calendar stands still instead of stopping, so that runs go on. In `Replay`,
`Site` and `Publish` jobs come to an end and the bounds are on what starts them, so
that the system really stops; their runs do not check for deadlock.

Fairness. `Ingest!FairSpec` asks that the job goes on when nothing goes wrong
(`Progress`): it is one sequential process with timeouts on requests and on the
database, and Kubernetes starts it every day. `Enrich!FairSpec` asks the same of the
loop and of each worker, whose LLM call has a timeout and so ends in an answer or
an error. `PageCache!FairSpec` asks that goroutines are scheduled and that a render
ends, which its context sees to. `Publish!FairSpec` asks that the Job's pod runs and
that Kubernetes starts it again while `backoffLimit` allows, and gives the Job up
after that. Nothing is asked of publishers, readers, faults, kills, runs by hand, or
the LLM: `RuleLayerCatchesUp` holds under one that always fails,
`LLMLayerCatchesUp` assumes in its statement that failures stop, and
`EveryWeekIsPublished` allows that the Job fails.

## 4. What is proved

All proofs are for arbitrary constants: any postings, page size, week, window,
number of workers or requests, any faults.

**Ingest** (`IngestProofs`). `IInv` is inductive: `TypeOK`, what a run forgets, that a
page in hand is on the board, that `known` postings are stored, that no posting was
seen in the future, and the two ledgers that carry the results: what a run without
errors owes and has passed is open, seen today and, in a reconcile, in `seen`
(`OwedIsRecorded`); what it was served is on disk or in the buffer
(`ServedIsArchived`). `ClosedForAReason` is not inductive alone, because a row's last
sighting must be known not to lie in the future; `ServedIsNeverMissed` and
`FreshMeansRecorded` follow from the ledgers at the step where a run reaches its close
pass or its `FinishRun`. Results: `TypeCorrect`, `ReasonOnRecord`, `SweepSparesServed`,
`FreshIsRecorded`. Two more have an assumption, and it is needed: `RawPathsLead`
(every row names a readable record) assumes no kill and no failing last flush, since
rows are committed before the gzip tail is written; `CountedOnEvidence` assumes that
every answer advertises a total, since the gate takes a total of 0 for covered.

The scan is proved over pages computed from the order of the board (posting date, then
uuid), of which two facts are needed: a posting that is later in the order is on no
earlier page (`LaterIsOlder`), and an empty page has none behind it
(`EmptyPageIsTheEnd`). `ScanInv` adds that while the board stands still a run without
errors owes every candidate of its window on the pages it has passed, and that what
it has upserted is as listed; it gives `WindowIsComplete`. `GapInv` adds that no date
lies in the future and that after clean runs a missing candidate is dated no
further than `Lag` below any date stored, so that the next run's window reaches it; it
gives `NoGap`. Their assumptions are needed: an answer that is empty or cut short
cannot be told from the end of the board (faults `blank`, `truncate`); an edit that
makes a candidate of an old posting lists it below every window until the next
reconcile (`Reclassify`); and so does a listing that is dated back by more than
`BackoffWindow`.

**Refinement** (`IngestProofs`). `Implementation`: `Spec => Promise!Spec`. Each action
is a sighting (`Upsert`), the end of a sweep (`MissAndClose`, trusted if `Covered`), its
abortion (whatever leaves a reconcile earlier), its beginning, midnight, or a stutter.

**Page cache** (`PageCacheProofs`). `Flying` ties the flight map to the program counters
and gives `SingleFlight` and `SomeoneToWaitFor`; `Timely` bounds the age of renders by
what is left of their deadline, and of entries by TTL, and gives `FreshEnough`. The
latter needs `Timeout <= TTL` (5 s and 60 s in the code): a waiter may arrive just
before a render ends, and is served data as old as the render's deadline.

**Enrichment** (`EnrichProofs`). `Phases` follows a posting through a run, `Marks` ties the
term count to the done marker, `Ledger` says that what the loop has passed is done,
failed or a hit. Results: `TypeCorrect`, `SemaphoreBounds`, `CountedAtMostOnce`,
`SuccessIsHonest`. `AnswersFit` (`CacheIsTrue` and `FoundInOwnText`) needs the extra
invariant `Texts`: a row and a batch name a record of their own posting, and as long as
the ingest job is `intact` their hash is of the same description, so that what a worker
puts into the cache or takes from it fits its key. The condition is needed: `enrich_cache`.

`OncePerWorker` needs `Saving`: a text that is not cached has been inferred at most
once per worker that has yet to put its answer into the cache, and with the calls
under way never more than `Concurrency` times (`InferredOncePerWorker`).

**Replays** (`ReplayProofs`). A replay reads the archive while ingest, enrichment and
rollouts go on, so `ReachInv` says of each posting that no other job touched that its
row is still as the replay loaded it (`AsLoaded`), that what the walk has learnt is the
newest record of the files that were there at the start (`Walked`,
`NewFilesTouched`), and that what was written is the verdict on that record
(`Written`). It gives `Reaches` and `RealGaps`; with the order of the batches
(`Ordered`) it gives `LastPostingNames`: the employer's type is that of its last
posting, because every posting of a later batch is greater. `NeverTwice` holds of each
step. `TypeInv` also says that a row's raw path leads to a record of its posting.

**Calendar** (`CalendarProofs`). Theorems about the operators every window is built
from: dates compared as strings with Singapore midnights select the intended days
(`DatesOfWeek`, `DatesOfRolling`), weeks neither overlap nor leave a gap (`WeeksTile`),
the completed week is over (`CompletedWeekIsOver`), the report's two anchors select
its own week (`AnchorsOfReport`), and the ISO label is injective from 2021 to 2098
(`LabelsAreDistinct`) while that of the report is not (`report_label`).

**Statistics** (`StatisticsProofs`). What the pages compute is built from sums, ranks and
orders over tables of any size. `SumOf` is the fold of the community modules, whose
recursion has a solution on every finite set (`Recursion`, by induction on the size) and
takes the elements in any order (`SumStep`); so a sum over the parts of a partition
is that of the whole (`CountParts`, `SumParts`). A nearest rank exists, is one of the
values (`RankedIs`) and grows with its index (`RankedGrows`), so that a percentile was
advertised by somebody (`PercentileIs`) and quartiles are in order (`QuartilesInOrder`).
The first *n* of a strict order are *n* unless they are all (`FirstOnes`). A technology's
momentum is a number, whatever the weeks of the baseline hold (`MomentumIn`), so that
none rises and falls at once (`TableMoves`).

**Site** (`SiteProofs`). From `SiteAssumption`: there is a last instant; the store's stamps
are not part of what the board says of a posting; the columns that are computed with
hold numbers or NULL (the schema's types; `posting_date` is NOT NULL); and the floors of
coverage.go are positive where a sample below them must not be empty. `TypeInv` says of
each row that it is a shape with stamps in their order, and gives `TypeCorrect`.
`BacklogIsHarmless` is proved of each step: neither the set below nor the one above a
share's line has a posting without technologies and markers. `QuietReadings`
(`TornOnlyByWriters`) needs `ReadFit`: a reading that no write disturbs has the
denominator of the tables, and what mentions a technology is enriched. The others
hold in every state with `TypeInv`, since a page is computed from one state:
`OnlyAdvertised` (`ShownIsAdvertised`) from the facts on ranks, cell by cell;
`PagesAddUp` (`NothingFallsThrough`) by showing, band by band, that each posting is on
exactly one rung, band, cell, type, lifetime or group (`OneRung`, `OneLifetime`,
`PartsAddUp`), and that the trend's last two weeks are the headline's (`WeeksBefore`);
`DailyPagesAgree` (`DaysAddUp`) from what a day is: a stamp is looked up in the window of
its Singapore day exactly if it is of that day (`InDays`), a day before the first
activity has nothing to show (`ActiveDays`), and the order of a listing is strict
(`CutIsFull`).

**Weekly report** (`PublishProofs`). From `PublishAssumption`: weeks are named by their
Mondays, the report that is out is of a week that was over, and postings have a
date. `TypeInv` ties the files to the places of the runs: a file is truncated only
while a run is about to fill it or where one was stopped, a run past a file has made
it, and what is recorded or linked has its files. This gives `TypeCorrect` and
`LinksReadable`. `ReportInv` adds that a run nothing has disturbed is alone, what it
has computed is what would be computed now, and, if no statement failed, the rows
of its week are exactly those put so far; with the calendar's theorems this gives
`OfItsWeek`. `NewestInv` adds which weeks can be asked for, recorded and kept, and
that a week past its figures lacks its row only if a statement failed, a run was
stopped or disturbed between clearing and putting it, or one is there now; it gives
`NewestIsShown`, with the existence of a greatest week by well-foundedness.

Only model-checked is liveness (`GoneIsClosed`, `AdvertisedIsOpen`, `Answered`,
`RuleLayerCatchesUp`, `LLMLayerCatchesUp`, `EveryWeekIsPublished`), which TLAPS cannot prove
under fairness. Every invariant and every action property of the passing runs, and the
refinement, is a theorem.

## 5. What the code does differently from what is said of it

Shown by a run each:

- `enrich_cache` — store/enrich.go:106 returns the cached result of a description hash.
  After a reconcile has stored the new hash of an edited posting without archiving it,
  a worker reads the old text under the new hash, and the answer about the old text is
  kept as that of the new one, for every posting that shares it.
- `replay_cut` — mcf/walk.go:29 says that a truncated final line does not stop the walk.
  A gzip file without its end makes the scanner return an error after the good
  records, and the walk, and with it every later replay, stops there.
- `report_label` — web/market.go:16 gives a report a permanent home under its week.
  The label combines the ISO week with the calendar year, so that the week of
  2024-12-30 takes the page of the week of 2024-01-01.

Met while modelling and kept in the model as the code has them:

- docs/02-design.md:198 closes an unexpired posting after two *weeks* of absence. The
  close pass commits before `FinishRun`; if that fails, or the pod dies in between, the
  retry of the same Sunday counts a second miss.
- ingest.go:218 and docs/08-bdd.md:61 keep the table rebuildable from the archive. A
  reconcile updates rows it does not archive, so after an edit the hash in the row is
  that of a description no record has, and a reclassify puts the older verdict back.
- ingest.go:272 and docs/02-design.md:148 have the next successful run heal a lost night.
  After a first run cut short, the next one stops at the watermark it left behind;
  only a reconcile heals it.
- enrich.go:138 flags a run with errors partial. A failed write of a cached answer is not
  counted (enrich.go:186).
- docs/02-design.md:100 calls the LLM for edited descriptions. The backlog never lists a
  posting again once it is done.
- A posting without an expiry date is stored with an empty one, so the branch
  `expiry_date IS NULL` of metric/market.go:47 never applies and the posting is on no
  board.
- A report that is computed again for an older week does not reproduce its number of
  active jobs, because postings have closed since (report/metrics.go:188). That number is
  anchored on the Monday after the week and the ghost board on the Sunday, so that it
  is at most the latter (`ReportIsOfItsWeek`).
- `/tech` reads its denominator before its counts: enrichment in between can make a share
  exceed one (`TornOnlyByWriters` says that nothing else can).
- Two runs of the report at once may leave a file with the tail of the longer text, and
  each clears the other's rows of the same week.
- `Seed` never prunes the SSOC map, so that a verdict may rest on a line that no build
  has any more.

## 6. What is not modelled

- In ingest: the counters of the audit row and `RecordScanAudit` (a diagnostic whose
  failure is ignored; `Operations` has it), company and skill rows, postings without an
  end date, a watermark that does not parse, CronJob starts missed beyond their
  deadline, and a kill between `FinishRun` and the exit (it repeats a run that is
  already recorded).
- In enrichment: the chain of models and attempts (one answer or one failure), rule-only
  mode, postings enriched before `enrich_done` existed (`Replay` and `Site` have them),
  and what an answer contains.
- In the page cache: a render that panics, and what a page shows.
- In the replays: the printed summaries, and directories in the archive that no run made.
- In the statistics: the order of rows that are only listed, rounding, and the wording
  and layout of a page (`internal/view`).
- In the report: the words of the message, whether Telegram took it, the Markdown and
  index.html (written like the files next to them), three groupings that are like the
  one by role family.
- The classifier and the matching of technologies in a text: pure functions; the models
  hold for whatever they answer.
- Routing, query parameters, headers, templates, fixtures, the web server's manifest.

## 7. Plan

Done, with their proofs: `Lifecycle`, `Ingest`, `PageCache`, `Enrich`, `Replay`, `Calendar`,
`Publish` and `Site` (the last two over `Statistics` and `Operations`). What would come next:

1. A composition of `Ingest` and `Enrich` over one table and archive, in which the edits
   that skip the archive are the reconcile's own.
2. The classifier and the technology rules as operators against reference definitions.
