-------------------------------- MODULE Site --------------------------------
(***************************************************************************)
(* The pages over the tables, while the jobs that fill the tables run:     *)
(* ingest runs store, update and close postings, enrichment runs add       *)
(* technologies, all of them write audit rows, any of them may be killed.  *)
(* Every page is computed from the tables of one state, except /tech,      *)
(* which is read in two steps: its denominator, then its counts.           *)
(*                                                                         *)
(* The jobs are here only what they do to the tables; what decides it is   *)
(* modelled in Ingest and Enrich.                                          *)
(***************************************************************************)
EXTENDS Operations

CONSTANTS
  Shape,     \* what a row says apart from the store's own stamps
  Legacy,    \* those of postings that were enriched before there were markers
  FoundBy,   \* FoundBy[l]: the technologies a layer finds
  Times,     \* when things happen, in hours
  Jobs,      \* bound: the kinds of the runs, in order
  MaxWrites  \* bound: writes to the tables

\* What the columns hold that are computed with.
Typed(shape) ==
  /\ {"posted", "years", "pay", "swe"} \subseteq DOMAIN shape
  /\ shape.posted \in Int /\ {shape.years, shape.pay} \subseteq Int \cup {None}
  /\ shape.swe \in BOOLEAN

\* There is a last instant, a row says nothing of the stamps the store gives
\* it, NULL is no value, and the floors below which nothing is shown are not
\* empty.
ASSUME SiteAssumption ==
  /\ IsFiniteSet(Posting) /\ Posting # {} /\ Posting \cup Slug \subseteq Nat /\ Slug # {}
  /\ IsFiniteSet(Levels) /\ IsFiniteSet(Roles)
  /\ Times \subseteq Nat /\ \E last \in Times : \A t \in Times : t <= last
  /\ None \notin Int \cup expBands \cup Statuses
  /\ {MinCell, MinPremium, MinWeeks} \subseteq Nat \ {0} /\ TrendWeeks \in Nat \ {0, 1}
  /\ {MinTech, MinCompany, MinClosed, WeekDays, JobLimit} \subseteq Nat
  /\ \A l \in Layers : FoundBy[l] \subseteq Slug
  /\ \A i \in DOMAIN Jobs : Jobs[i] \in Kinds
  /\ Legacy \subseteq Shape
  /\ \A shape \in Shape :
       /\ Typed(shape) /\ {"first", "seen", "closed"} \cap DOMAIN shape = {}
       /\ \A f, t \in Times, c \in Times \cup {None} :
            Over(shape, [first |-> f, seen |-> t, closed |-> c]) # None

VARIABLES
  now,   \* the clock
  writes, \* writes to the tables so far
  read   \* a reading of /tech

vars == <<job, tech, marks, runs, now, read, writes>>

NotRead == [stage |-> "none", week |-> None, denom |-> None, counts |-> None, quiet |-> TRUE]

\* A table was written under a reading that is on.
Disturb ==
  /\ writes < MaxWrites
  /\ writes' = writes + 1
  /\ read' = IF read.stage = "counts" THEN [read EXCEPT !.quiet = FALSE] ELSE read

NoTech == [p \in Posting |-> {}]

Row(shape, first) == Over(shape, [first |-> first, seen |-> now, closed |-> None])

\* A new database, or one whose postings were enriched before there were markers.
Init ==
  /\ now = Min(Times)
  /\ \/ job = [p \in Posting |-> None] /\ tech = NoTech
     \/ \E shape \in Legacy :
          LET p == Min(Posting)
          IN /\ job = [q \in Posting |-> IF q = p THEN Row(shape, now) ELSE None]
             /\ tech = [NoTech EXCEPT ![p] = {<<Min(Slug), "rule">>}]
  /\ marks = [p \in Posting |-> {}]
  /\ runs = <<>>
  /\ read = NotRead
  /\ writes = 0

Tick ==
  /\ \E t \in Times : t > now
  /\ now' = Min({t \in Times : t > now})
  /\ UNCHANGED <<tables, runs, read, writes>>

\* The CronJobs forbid a second run of a kind beside the first, so a run that
\* is followed by one of its kind has finished or was killed.
Start(kind) ==
  /\ Len(runs) < Len(Jobs) /\ kind = Jobs[Len(runs) + 1]
  /\ StartRun(kind, now)
  /\ UNCHANGED <<tables, now, read, writes>>

Working(K) ==
  {i \in DOMAIN runs : /\ runs[i].kind \in K /\ runs[i].end = None
                       /\ \A j \in DOMAIN runs : runs[j].kind = runs[i].kind => j <= i}

\* UpsertJob: a new row, or the old one brought up to date and reopened.
Sight(p, shape) ==
  /\ Working(IngestKinds) # {}
  /\ job' = [job EXCEPT ![p] = Row(shape, IF job[p] = None THEN now ELSE job[p].first)]
  /\ Disturb
  /\ UNCHANGED <<tech, marks, runs, now>>

Close(p) ==
  /\ \E i \in Working({"full_reconcile"}) : job[p] # None /\ job[p].seen < runs[i].start
  /\ job[p].closed = None
  /\ job' = [job EXCEPT ![p].closed = now]
  /\ Disturb
  /\ UNCHANGED <<tech, marks, runs, now>>

\* writeTech: the rows and the marker of a layer, in a transaction.
Enrich(p, layer) ==
  /\ Working({"enrich"}) # {}
  /\ p \in Stored /\ job[p].swe
  /\ layer \notin marks[p] /\ \A s \in Slug : <<s, layer>> \notin tech[p]
  /\ tech' = [tech EXCEPT ![p] = @ \cup (FoundBy[layer] \X {layer})]
  /\ marks' = [marks EXCEPT ![p] = @ \cup {layer}]
  /\ Disturb
  /\ UNCHANGED <<job, runs, now>>

\* How a run of a kind that is not killed may end.
EndsOf(kind) ==
  CASE kind \in IngestKinds -> {"success", "partial", "failed"}
    [] kind = "enrich"      -> {"success", "partial"}
    [] kind = "report"      -> {"success"}

\* A failed run archived nothing; a reconcile that skips its close pass is
\* partial without an error.
Finish(i, status) ==
  /\ status \in EndsOf(runs[i].kind)
  /\ FinishRun(i, now, status,
               IF runs[i].kind \in IngestKinds /\ status # "failed" THEN Cardinality(Stored) ELSE 0,
               IF status = "success" \/ (status = "partial" /\ runs[i].kind = "full_reconcile")
                 THEN 0 ELSE 1)
  /\ UNCHANGED <<tables, now, read, writes>>

\* The audit of a reconcile, which is partial when it covered too little to close.
Audit(i) ==
  /\ runs[i].kind = "full_reconcile" /\ runs[i].status \in {"success", "partial"}
  /\ runs[i].end = now /\ runs[i].totalMax = 0
  /\ RecordScanAudit(i, Cardinality(Stored), Cardinality(Posting), runs[i].status = "partial")
  /\ UNCHANGED <<tables, now, read, writes>>

\* TechReportFor, first query.  One reading is enough: it leaves nothing behind.
ReadDenominator ==
  /\ read.stage = "none"
  /\ read' = [stage  |-> "counts",
              week   |-> LastCompletedWeek(now),
              denom  |-> enrichedCount(LastCompletedWeek(now), AnyLens),
              counts |-> None,
              quiet  |-> TRUE]
  /\ UNCHANGED <<tables, runs, now, writes>>

ReadCounts ==
  /\ read.stage = "counts"
  /\ read' = [read EXCEPT !.stage = "read", !.counts = techCounts(read.week, AnyLens)]
  /\ UNCHANGED <<tables, runs, now, writes>>

Next ==
  \/ Tick
  \/ \E k \in Kinds : Start(k)
  \/ \E p \in Posting, shape \in Shape : Sight(p, shape)
  \/ \E p \in Posting : Close(p)
  \/ \E p \in Posting, l \in Layers : Enrich(p, l)
  \/ \E i \in Working(Kinds), s \in Statuses \ {"running"} : Finish(i, s)
  \/ \E i \in DOMAIN runs : Audit(i)
  \/ ReadDenominator
  \/ ReadCounts

Spec == Init /\ [][Next]_vars

----------------------------------------------------------------------------
(* Properties *)

Instant == Min(Times)..Max(Times)

RunRow ==
  [kind : Kinds, start : Instant, end : Instant \cup {None}, status : Statuses,
   seen : Nat, errors : Nat, scanned : Nat, totalMax : Nat, skipped : BOOLEAN]

\* A posting's dates are in order, and a finished run says how it ended.
TypeOK ==
  /\ now \in Times
  /\ \A p \in Stored :
       /\ \E shape \in Shape : \A f \in DOMAIN shape : job[p][f] = shape[f]
       /\ job[p].first \in Instant /\ job[p].seen \in job[p].first..now
       /\ job[p].closed # None => job[p].closed \in job[p].seen..now
  /\ tech \in [Posting -> SUBSET (Slug \X Layers)]
  /\ marks \in [Posting -> SUBSET Layers]
  /\ \A p \in Posting : job[p] = None => tech[p] = {} /\ marks[p] = {}
  /\ \A i \in DOMAIN runs :
       /\ runs[i] \in RunRow
       /\ (runs[i].end = None) = (runs[i].status = "running")
       /\ runs[i].end # None => runs[i].end \in runs[i].start..now

\* No posting is lost between the bands, cells and groups of a page, and none
\* counts twice: the rungs of the ladder and the bands of the lens add up to
\* the window, the cells of the grid to its totals, the bands of a lifetime
\* to the closed postings, the employers' disclosures to the headline one
\* (the bands of pay.go, lens.go and lifecycle.go are written one by one).
NothingFallsThrough ==
  LET w      == Rolling(now, RollingDays)
      window == swePosted(w, AnyLens)
      pay    == PayReport(now, AnyLens)
      market == MarketReport(now, AnyLens)
      firm   == CompanyReport(now, AnyLens)
      Lens(b) == [AnyLens EXCEPT !.exp = b]
  IN /\ SumOf([b \in ladderBands |-> pay.ladder[b].postings]) = Cardinality(window)
     /\ SumOf([b \in ladderBands |-> pay.ladder[b].pay.n]) = pay.overall.n
     /\ SumOf([b \in expBands |-> Cardinality(swePosted(w, Lens(b)))]) = Cardinality(window)
     /\ SumOf([level \in Levels |-> pay.rowTotals[level].n])
          = SumOf([role \in Roles |-> pay.roleTotals[role].n])
     /\ pay.salary.total = Cardinality(window) /\ pay.overall.n <= pay.salary.disclosed
     /\ SumOf([t \in DOMAIN pay.byType |-> pay.byType[t].disclosed]) = pay.salary.disclosed
     /\ firm.lifetime.median # None => SumOf(firm.lifetime.bands) = firm.lifetime.closed
     /\ SumOf(market.roles) <= market.newJobs /\ market.trend[TrendWeeks] = market.newJobs
     /\ SumOf(market.entryByRole) <= market.entryJobs
     /\ market.trend[TrendWeeks - 1] = market.prevJobs
     /\ market.activeEntry <= market.active /\ firm.ghost.active = market.active
     /\ firm.ghost.stale <= firm.ghost.active
     /\ \A s \in Slug : entryShare(w, AnyLens, s)[2] <= Cardinality(window)
     /\ LET demand == SkillDemand(w, AnyLens)
        IN \A k \in DOMAIN demand : demand[k].key[1] <= demand[k].postings

IsCell(c, S) ==
  IF c.p50 = None THEN c.n < MinCell
  ELSE /\ c.n >= MinCell /\ {c.p25, c.p50, c.p75} \subseteq {Midpoint(p) : p \in S}
       /\ c.p25 <= c.p50 /\ c.p50 <= c.p75

\* A salary that is shown was advertised by a posting of its sample, the
\* quartiles are in order, and a sample below the floor shows no number at all
\* (percentile.go: "every number the site reports is a salary that actually
\* appeared in a posting"; coverage.go).
ShownIsAdvertised ==
  LET w      == Rolling(now, RollingDays)
      sample == Comparable(w, AnyLens)
      pay    == PayReport(now, AnyLens)
      firm   == CompanyReport(now, AnyLens)
  IN /\ IsCell(pay.overall, sample)
     /\ \A c \in Levels \X Roles : IsCell(pay.grid[c], {p \in sample : <<job[p].level, job[p].role>> = c})
     /\ \A b \in ladderBands : IsCell(pay.ladder[b].pay, OnRung(sample, b))
     /\ \A s \in Slug : Premium(w, AnyLens, s) # None =>
          /\ Cardinality(salarySample(w, AnyLens, s)) >= MinPremium
          /\ \A i \in 1..2 : Premium(w, AnyLens, s)[i] \in {Midpoint(p) : p \in sample}
     /\ \A c \in DOMAIN firm.top : firm.top[c].apps # None => firm.top[c].postings >= MinCompany
     /\ \A r \in DOMAIN firm.competition :
          firm.competition[r].apps # None => firm.competition[r].postings >= MinCompany

\* A technology's share is above one only on a page whose two queries saw
\* different tables: enrichment that commits between them adds to the counts
\* and not to the denominator (transparency.go argues for one query, tech.go
\* makes two).  And a table that is read at rest moves a technology only when
\* every week of the history has enriched postings.
TornOnlyByWriters ==
  read.stage = "read" =>
    /\ read.quiet => \A s \in Slug : read.counts[s] <= read.denom
    /\ LET table == TechTable(read.denom, read.counts, Baseline(read.week, AnyLens))
       IN /\ table.rising \cap table.falling = {}
          /\ table.rising \cup table.falling \subseteq table.eligible
          /\ table.eligible # {} => table.history = MinWeeks

\* The shares of /tech at rest, for any reported week.
Shares ==
  LET week == LastCompletedWeek(now)
  IN [s \in Slug |-> <<techCounts(week, AnyLens)[s], enrichedCount(week, AnyLens)>>]

Unenriched(p) == tech[p] = {} /\ marks[p] = {}

\* A backlog moves no share: while a posting waits for enrichment, that it is
\* stored, edited or closed changes no technology's share (tech.go:
\* "the enrich backlog systematically depress every technology's share").
BacklogMovesNoShare ==
  [][\A p \in Posting :
       (job'[p] # job[p] /\ Unenriched(p) /\ now' = now) => Shares' = Shares]_vars

\* The daily pages tell one story: a day's row in the overview is the summary
\* of its own page, the last seven rows add up to the headline cards, a day
\* that is left out has nothing to show, the day after today has no link, and
\* a green day is one on which every run was green.
DaysAddUp ==
  LET today == SGTDay(now)
      ops   == DailyOverview(now, WeekDays)
      page  == [d \in today - WeekDays + 1 .. today |-> DayDetail(d, now)]
  IN /\ \A d \in DOMAIN ops.days :
          /\ ops.days[d] = page[d].summary
          /\ ops.days[d].runs.status = "success" =>
               \A i \in page[d].runs : runs[i].status = "success"
     /\ \A d \in DOMAIN page :
          /\ page[d].next = (d < today)
          /\ page[d].truncated => Cardinality(page[d].jobs) = JobLimit
          /\ d \notin DOMAIN ops.days => page[d].runs = {} /\ page[d].jobs = {}
     /\ SumOf([d \in DOMAIN ops.days |-> ops.days[d].stored.swe]) = ops.newSWE
     /\ SumOf([d \in DOMAIN ops.days |-> ops.days[d].runs.archived]) = ops.archived
     /\ LET metrics == renderMetrics
        IN /\ ops.backlog = metrics.backlog /\ ops.active = metrics.active
           /\ metrics.active + metrics.closed = Cardinality(Stored)
     /\ \A i \in ops.lastRun : \A j \in DOMAIN runs : runs[j].start <= runs[i].start

=============================================================================
