----------------------------- MODULE Operations -----------------------------
(***************************************************************************)
(* What the operators see: the daily pages (report/daily.go) and the       *)
(* metrics endpoint (web/metrics.go), as computed from the audit rows of   *)
(* the runs (store/runs.go) and from the stamps of the postings.           *)
(***************************************************************************)
EXTENDS Statistics, Sequences

CONSTANTS
  WeekDays,  \* the trailing days of the headline cards, 7
  JobLimit   \* DayJobLimit

Kinds == {"incremental", "full_reconcile", "enrich", "report"}

IngestKinds == {"incremental", "full_reconcile"}

Statuses == {"running", "success", "partial", "failed"}

VARIABLE runs  \* ingest_run, by id

----------------------------------------------------------------------------
(* Days *)

DayBounds(d) == [start |-> Midnight(d), end |-> Midnight(d + 1)]

\* Days from one to another.
Days(from, to) == [start |-> Midnight(from), end |-> Midnight(to + 1)]

\* The UTC day: each night's run under the day before.
dayKeyUTC(t) == UTCDay(t)

dayKey(t) == SGTDay(t)

listRuns(w) == {i \in DOMAIN runs : StampIn(runs[i].start, w)}

\* By start, then by id.
lastRun ==
  {i \in DOMAIN runs : \A j \in DOMAIN runs :
     runs[j].start < runs[i].start \/ (runs[j].start = runs[i].start /\ j <= i)}

rank == [s \in Statuses \cup {None} |->
           CASE s = None -> 0 [] s = "success" -> 1 [] s = "running" -> 2
             [] s = "partial" -> 3 [] s = "failed" -> 4]

worseStatus(S) == CHOOSE s \in S \cup {None} : \A t \in S : rank[t] <= rank[s]

RunsOf(I, K) == {i \in I : runs[i].kind \in K}

Sum(I, f(_)) == SumOf([i \in I |-> f(i)])

Seen(i) == runs[i].seen

Errors(i) == runs[i].errors

\* A run that has not ended took no time.
Duration(i) == IF runs[i].end = None THEN 0 ELSE runs[i].end - runs[i].start

\* applyRun over the runs I of a day.
applyRuns(I) ==
  [kinds    |-> {runs[i].kind : i \in I},
   status   |-> worseStatus({runs[i].status : i \in I}),
   errors   |-> Sum(I, Errors),
   duration |-> Sum(RunsOf(I, IngestKinds), Duration),
   archived |-> Sum(RunsOf(I, IngestKinds), Seen)]

FirstSeenIn(w) == {p \in Stored : StampIn(job[p].first, w)}

storedPerDay(w, d) ==
  LET S == {p \in FirstSeenIn(w) : dayKey(job[p].first) = d}
  IN [new |-> Cardinality(S), swe |-> Cardinality({p \in S : job[p].swe})]

closedPerDay(w, d) ==
  Cardinality({p \in Stored : /\ job[p].closed # None /\ StampIn(job[p].closed, w)
                              /\ dayKey(job[p].closed) = d})

DayRow(w, d) ==
  [runs   |-> applyRuns({i \in listRuns(w) : dayKey(runs[i].start) = d}),
   stored |-> storedPerDay(w, d),
   closed |-> closedPerDay(w, d)]

----------------------------------------------------------------------------
(* /ops *)

\* None on a virgin database.
firstActivityDay ==
  LET stamps == {runs[i].start : i \in DOMAIN runs} \cup {job[p].first : p \in Stored}
  IN IF stamps = {} THEN None ELSE SGTDay(Min(stamps))

\* Today always shows, older days from the first activity on.
Shown(today, windowDays) ==
  {d \in today - windowDays + 1 .. today :
     d = today \/ (firstActivityDay # None /\ d >= firstActivityDay)}

techFrequencyBySeen(w, limit) ==
  LET N(s) == Cardinality({p \in FirstSeenIn(w) : job[p].swe /\ Mentions(p, s)})
      Before(s, t) == N(s) > N(t) \/ (N(s) = N(t) /\ s < t)
  IN Top({s \in Slug : N(s) > 0}, limit, Before)

backlog ==
  {p \in Stored : job[p].swe /\ "llm" \notin marks[p] /\ \A s \in Slug : <<s, "llm">> \notin tech[p]}

DailyOverview(now, windowDays) ==
  LET today == SGTDay(now)
      w     == Days(today - windowDays + 1, today)
      week  == Days(today - WeekDays + 1, today)
  IN [days     |-> [d \in Shown(today, windowDays) |-> DayRow(w, d)],
      lastRun  |-> lastRun,
      newSWE   |-> Cardinality({p \in FirstSeenIn(week) : job[p].swe}),
      archived |-> Sum(RunsOf(listRuns(week), IngestKinds), Seen),
      techs    |-> techFrequencyBySeen(week, TopLimit),
      active   |-> Cardinality({p \in Stored : job[p].closed = None}),
      backlog  |-> Cardinality(backlog)]

\* /ops/{date}.  The next day has a link once it has begun.
DayDetail(d, now) ==
  LET w == DayBounds(d)
      Before(p, q) ==
        \/ job[p].swe /\ ~job[q].swe
        \/ job[p].swe = job[q].swe /\ job[p].first < job[q].first
        \/ job[p].swe = job[q].swe /\ job[p].first = job[q].first /\ p < q
      jobs == Top(FirstSeenIn(w), JobLimit, Before)
      SWE  == {p \in FirstSeenIn(w) : job[p].swe}
  IN [next      |-> Midnight(d + 1) <= now,
      summary   |-> DayRow(w, d),
      runs      |-> listRuns(w),
      roles     |-> Groups(RolesOf(SWE)),
      techs     |-> techFrequencyBySeen(w, TopLimit),
      jobs      |-> jobs,
      truncated |-> Cardinality(FirstSeenIn(w)) > Cardinality(jobs)]

----------------------------------------------------------------------------
(* /metrics *)

Last(I) == {i \in I : \A j \in I : j <= i}

\* The end of the last success; a reconcile whose scan was clean counts as an
\* incremental one, whatever its status.
LastSuccess(kind) ==
  LET Counts(i) ==
        \/ runs[i].kind = kind /\ runs[i].status = "success"
        \/ /\ kind = "incremental" /\ runs[i].kind = "full_reconcile"
           /\ runs[i].errors = 0 /\ runs[i].end # None
  IN Max({runs[i].end : i \in {j \in DOMAIN runs : Counts(j)}} \cup {0})

Finished(kind) == {i \in DOMAIN runs : runs[i].kind = kind /\ runs[i].end # None}

\* A sample per family, and no sample where no row has one.
renderMetrics ==
  [lastSuccess |-> [k \in Kinds |-> LastSuccess(k)],
   duration    |-> [k \in Kinds |-> {Duration(i) : i \in Last(Finished(k))}],
   active      |-> Cardinality({p \in Stored : job[p].closed = None}),
   closed      |-> Cardinality({p \in Stored : job[p].closed # None}),
   errors      |-> Sum(RunsOf(DOMAIN runs, IngestKinds), Errors),
   coverage    |-> {<<runs[i].scanned, runs[i].totalMax>> :
                      i \in Last({j \in Finished("full_reconcile") : runs[j].totalMax > 0})},
   skipped     |-> Cardinality({i \in RunsOf(DOMAIN runs, {"full_reconcile"}) : runs[i].skipped}),
   backlog     |-> Cardinality(backlog)]

----------------------------------------------------------------------------
(* The audit rows *)

\* StartRun.
Running(kind, t) ==
  [kind |-> kind, start |-> t, end |-> None, status |-> "running", seen |-> 0,
   errors |-> 0, scanned |-> 0, totalMax |-> 0, skipped |-> FALSE]

StartRun(kind, t) == runs' = Append(runs, Running(kind, t))

\* The status is written and the end is not.
FinishRunOpen(i, t, status, seen, errors) == runs' = [runs EXCEPT ![i].status = status]

FinishRun(i, t, status, seen, errors) ==
  runs' = [runs EXCEPT ![i].end = t, ![i].status = status, ![i].seen = seen,
                       ![i].errors = errors]

\* A statement of its own, after FinishRun.
RecordScanAudit(i, scanned, totalMax, skipped) ==
  runs' = [runs EXCEPT ![i].scanned = scanned, ![i].totalMax = totalMax, ![i].skipped = skipped]

=============================================================================
