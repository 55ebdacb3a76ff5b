------------------------------- MODULE Publish -------------------------------
(***************************************************************************)
(* The weekly report (cmd/report, report/metrics.go): a CronJob on Monday  *)
(* morning, and anyone who runs the command by hand, compute a week from   *)
(* the tables, section by section and in no transaction, keep the numbers  *)
(* in weekly_metric, write four files and push a link.  Pods are killed    *)
(* and started again, the tables are written meanwhile, and two runs may   *)
(* be under way.                                                           *)
(*                                                                         *)
(* The texts are left out: a file holds the report it was rendered from.   *)
(***************************************************************************)
EXTENDS Statistics, Sequences

CONSTANTS
  Row,        \* Row[p]: what the board says of a posting
  Firing,     \* the hour at which the CronJob fires
  Earlier,    \* the Monday of the report that was published last
  Manual,     \* what runs by hand are asked for: Mondays, or None for the default
  MaxPods,    \* backoffLimit + 1
  MaxManual,  \* bound: runs by hand
  MaxWrites,  \* bound: writes to the tables
  Fragile,    \* bound: the rows that may be lost
  MaxLost     \* bound: statements of a report run that fail

\* Weeks are asked for by their Monday, the last report was of a week that is
\* over, and the board dates every posting.
ASSUME PublishAssumption ==
  /\ Posting \subseteq Nat /\ IsFiniteSet(Posting) /\ Posting # {}
  /\ Firing \in Int
  /\ \A m \in {Earlier} \cup (Manual \ {None}) : m \in Int /\ m % 7 = 0
  /\ Earlier <= Monday(SGTDay(Firing)) - 7
  /\ None \notin Int
  /\ MaxPods \in Nat \ {0}
  /\ \A p \in Posting :
       /\ {"posted", "expiry"} \subseteq DOMAIN Row[p]
       /\ Row[p].posted \in Int /\ Row[p].expiry \in Int \cup {None}

VARIABLES
  writes,   \* writes to the tables so far
  cron,     \* the Job: its state and its pods
  run,      \* run[r]: a run of the command
  asked,    \* the weeks of the runs by hand, in order
  weekly,   \* weekly[m]: the rows of a week in weekly_metric
  file,     \* what is under report/
  recorded, \* the weeks of the successful report runs in ingest_run
  pushed,   \* the links that were pushed, with the weeks they were pushed for
  lost,     \* statements that failed so far
  hurt      \* what was left half done: by a run that was killed, or by two at once

output == <<weekly, file, recorded, pushed, lost, hurt>>

vars == <<job, tech, marks, writes, cron, run, asked, output>>

Runner == {"cron", "manual"}

----------------------------------------------------------------------------
(* What is computed *)

\* The bounds at the UTC midnights.
WeekBoundsUTC(monday) == [start |-> 24 * monday, end |-> 24 * (monday + 7)]

WeekBounds(monday) == [start |-> Midnight(monday), end |-> Midnight(monday + 7)]

\* The calendar year and the ISO week.
ISOWeekLabel(monday) == [year |-> Year(monday), week |-> ISOWeek(monday).week]

\* Without --week: the last week that is over.
targetWeek == Monday(SGTDay(Firing)) - 7

Mondays == {Earlier, targetWeek} \cup (Manual \ {None})

sweIn(w) == swePosted(w, AnyLens)

activeJobs(end) ==
  {p \in Stored : /\ job[p].swe /\ job[p].closed = None
                  /\ job[p].expiry # None /\ DateAtLeast(job[p].expiry, end)}

techFrequency(w) ==
  LET N(s) == Cardinality({p \in sweIn(w) : Mentions(p, s)})
  IN [s \in {s \in Slug : N(s) > 0} |-> N(s)]

\* The two anchors: an instant in the week after, and the last one of the week.
weekAnchor(w) == w.end

rollAnchor(w) == w.end - 1

\* The figures of the week and the sections of the metric layer: what takes a
\* query each in the code is read in two steps here, enough for a table to be
\* written between two queries for one number.  The groupings by seniority,
\* work mode and type of employer are like the one by role family.
Figures(monday) ==
  LET w == WeekBounds(monday)
  IN [new_jobs    |-> Cardinality(sweIn(w)),
      prev_jobs   |-> Cardinality(sweIn(WeekBounds(monday - 7))),
      active_jobs |-> Cardinality(activeJobs(w.end)),
      role_family |-> Groups(RolesOf(sweIn(w))),
      tech_freq   |-> techFrequency(w)]

Anchors == [m \in Mondays |-> [week |-> weekAnchor(WeekBounds(m)), roll |-> rollAnchor(WeekBounds(m))]]

Layer(monday) ==
  LET now  == Anchors[monday]
      week == LastCompletedWeek(now.week)
  IN [denom   |-> enrichedCount(week, AnyLens),
      counts  |-> techCounts(week, AnyLens),
      median  |-> overallPay(now.roll, AnyLens).p50,
      samples |-> salaryTransparency(now.roll, AnyLens).total,
      market  |-> <<Cardinality(newPosted(now.week, AnyLens)),
                    Cardinality(prevPosted(now.week, AnyLens)),
                    Cardinality(activeNow(now.week, AnyLens))>>,
      board   |-> GhostSignals(SGTDay(now.roll), AnyLens).active]

----------------------------------------------------------------------------
(* A run: the rows of the week are cleared, the figures are computed and    *)
(* put, the layer is asked, its rows are put; each of the files is          *)
(* truncated, then filled; the run is recorded and the link pushed.  The    *)
(* Markdown is written right after the page, and index.html right after     *)
(* latest.html, in the same way.                                            *)

Files == {"html", "latest"}

Filled(f) == IF f = "html" THEN "html_filled" ELSE "latest_filled"

\* The link goes out before the page is there.
PushFirst ==
  <<"clear", "figures", "layer", "rows", "push", "html", "html_filled", "latest",
    "latest_filled", "record", "exit">>

\* The run is recorded before its files are written.
RecordFirst ==
  <<"clear", "figures", "layer", "rows", "record", "html", "html_filled", "latest",
    "latest_filled", "push", "exit">>

Steps ==
  <<"clear", "figures", "layer", "rows", "html", "html_filled", "latest",
    "latest_filled", "record", "push", "exit">>

StepOf(s) == CHOOSE i \in DOMAIN Steps : Steps[i] = s

Idle == [at |-> 0, week |-> None, report |-> <<>>, clean |-> TRUE]

Begun(monday) == [at |-> 1, week |-> monday, report |-> <<>>, clean |-> TRUE]

Active(r) == run[r].at # 0

At(r, s) == Active(r) /\ Steps[run[r].at] = s

Computing(r) == run[r].at \in 1..StepOf("rows")

\* Up to the first use of what was computed.
Unused(r) == run[r].at \in 1..StepOf("html")

\* Runs that overlap are disturbed, and so is one under which a table is written.
Disturbed(f) == [r \in Runner |-> IF f[r].at = 0 THEN f[r] ELSE [f[r] EXCEPT !.clean = FALSE]]

Begin(r, monday) ==
  LET f == [run EXCEPT ![r] = Begun(monday)]
  IN run' = IF \E q \in Runner \ {r} : Active(q) THEN Disturbed(f) ELSE f

Advance(r) == run' = [run EXCEPT ![r].at = @ + 1]

AdvanceWith(r, report) == run' = [run EXCEPT ![r].at = @ + 1, ![r].report = report]

RowMetrics == {"new_jobs", "active_jobs", "role_family", "tech_freq", "salary_median",
               "swe_enriched", "tech_share"}

NoRows == [m \in RowMetrics |-> None]

FigureRows(report) == [m \in RowMetrics \cap DOMAIN report |-> report[m]]

\* The rows that are put when the layer has answered: no row for a salary
\* below the floor, a share for each technology that was found.
LastRows(report) ==
  [salary_median |-> report.median,
   swe_enriched  |-> report.denom,
   tech_share    |-> [s \in {s \in Slug : report.counts[s] > 0} |->
                        <<report.counts[s], report.denom>>]]

AllRows(report) == Over(FigureRows(report), LastRows(report))

----------------------------------------------------------------------------
(* The tables *)

\* One report is out, and the tables are as it found them.
Seen(p, t) == Over(Row[p], [first |-> t, seen |-> t, closed |-> None])

Init ==
  /\ job = [p \in Posting |-> IF p = Min(Posting) THEN Seen(p, Midnight(Earlier)) ELSE None]
  /\ tech = [p \in Posting |-> IF p = Min(Posting) THEN {<<Min(Slug), "rule">>} ELSE {}]
  /\ marks = [p \in Posting |-> IF p = Min(Posting) THEN {"rule"} ELSE {}]
  /\ writes = 0
  /\ cron = [state |-> "idle", pods |-> 0]
  /\ run = [r \in Runner |-> Idle]
  /\ asked = <<>>
  /\ LET report == Over(Figures(Earlier), Layer(Earlier))
         page   == [week |-> Earlier, report |-> report]
         label  == ISOWeekLabel(Earlier)
     IN /\ weekly = [m \in Mondays |-> IF m = Earlier THEN AllRows(report)
                                        ELSE NoRows]
        /\ file = [n \in {<<"html", label>>, <<"latest">>} |-> page]
  /\ recorded = {Earlier}
  /\ pushed = {[label |-> ISOWeekLabel(Earlier), week |-> Earlier]}
  /\ lost = 0
  /\ hurt = {}

\* A table is written, under the runs that compute.
Disturb ==
  /\ writes < MaxWrites
  /\ writes' = writes + 1
  /\ run' = [r \in Runner |-> IF Unused(r) THEN [run[r] EXCEPT !.clean = FALSE] ELSE run[r]]
  /\ UNCHANGED <<cron, asked, output>>

Sight(p) ==
  /\ job[p] = None
  /\ job' = [job EXCEPT ![p] = Seen(p, Firing)]
  /\ Disturb
  /\ UNCHANGED <<tech, marks>>

----------------------------------------------------------------------------
(* The Job and its pods.  A Job has ended before the next one is due:       *)
(* activeDeadlineSeconds is 30 minutes, the schedule weekly.                *)

Ended(state) == [state |-> state, pods |-> 0]

Fire ==
  /\ cron.state = "idle"
  /\ cron' = [state |-> "active", pods |-> 1]
  /\ Begin("cron", targetWeek)
  /\ UNCHANGED <<tables, writes, asked, output>>

\* A second try only where the first left no rows.
RestartOnce ==
  /\ cron.state = "active" /\ ~Active("cron") /\ cron.pods < MaxPods
  /\ weekly[targetWeek] = NoRows
  /\ cron' = [cron EXCEPT !.pods = @ + 1]
  /\ Begin("cron", targetWeek)
  /\ UNCHANGED <<tables, writes, asked, output>>

Restart ==
  /\ cron.state = "active" /\ ~Active("cron") /\ cron.pods < MaxPods
  /\ cron' = [cron EXCEPT !.pods = @ + 1]
  /\ Begin("cron", targetWeek)
  /\ UNCHANGED <<tables, writes, asked, output>>

GiveUp ==
  /\ cron.state = "active" /\ ~Active("cron") /\ cron.pods = MaxPods
  /\ cron' = Ended("failed")
  /\ UNCHANGED <<tables, writes, run, asked, output>>

\* For a week that is over.
RunByHand ==
  /\ ~Active("manual") /\ Len(asked) < MaxManual
  /\ \E week \in Manual :
       LET monday == IF week = None THEN targetWeek ELSE week
       IN /\ monday <= targetWeek
          /\ asked' = Append(asked, monday) /\ Begin("manual", monday)
  /\ UNCHANGED <<tables, writes, cron, output>>

----------------------------------------------------------------------------
(* The steps of a run *)

\* The page of the last week, whatever week was asked for.
NameOfTarget(r, f) == IF f = "html" THEN <<f, ISOWeekLabel(targetWeek)>> ELSE <<f>>

NameOf(r, f) == IF f = "html" THEN <<f, ISOWeekLabel(run[r].week)>> ELSE <<f>>

\* What a run that is stopped now leaves half done.
HalfDone(r) ==
  {NameOf(r, f) : f \in {f \in Files : At(r, Filled(f))}}
    \cup (IF run[r].at \in 2..StepOf("rows") THEN {<<"rows", run[r].week>>} ELSE {})

\* An error of a statement that is looked at, of a render or of a write ends
\* the run just like a kill.
Kill(r) ==
  /\ Active(r)
  /\ hurt' = hurt \cup HalfDone(r)
  /\ run' = [run EXCEPT ![r] = Idle]
  /\ UNCHANGED <<tables, writes, cron, asked, weekly, file, recorded, pushed, lost>>

Clear(r) ==
  /\ At(r, "clear")
  /\ weekly' = [weekly EXCEPT ![run[r].week] = NoRows]
  /\ Advance(r)
  /\ UNCHANGED <<tables, writes, cron, asked, file, recorded, pushed, lost, hurt>>

\* Rows are put.  A statement that fails is not looked at: the number, or the
\* rest of the group, is missing.
Put(r, rows) ==
  \E gone \in SUBSET (DOMAIN rows \cap Fragile) :
    /\ IF gone = {} THEN UNCHANGED lost ELSE lost < MaxLost /\ lost' = lost + 1
    /\ weekly' = [weekly EXCEPT ![run[r].week] =
                    Over([m \in DOMAIN rows \ gone |-> rows[m]], @)]

PutFigures(r) ==
  /\ At(r, "figures")
  /\ AdvanceWith(r, Figures(run[r].week))
  /\ Put(r, FigureRows(run'[r].report))
  /\ UNCHANGED <<tables, writes, cron, asked, file, recorded, pushed, hurt>>

AskLayer(r) ==
  /\ At(r, "layer")
  /\ \E layer \in {Layer(run[r].week)} : AdvanceWith(r, Over(run[r].report, layer))
  /\ UNCHANGED <<tables, writes, cron, asked, output>>

PutLast(r) ==
  /\ At(r, "rows")
  /\ Put(r, LastRows(run[r].report))
  /\ hurt' = IF run[r].clean THEN hurt \ {<<"rows", run[r].week>>} ELSE hurt
  /\ Advance(r)
  /\ UNCHANGED <<tables, writes, cron, asked, file, recorded, pushed>>

Torn == [week |-> None, report |-> <<>>]

Truncate(r, f) ==
  /\ At(r, f)
  /\ file' = Over([n \in {NameOf(r, f)} |-> Torn], file)
  /\ Advance(r)
  /\ UNCHANGED <<tables, writes, cron, asked, weekly, recorded, pushed, lost, hurt>>

\* If another run has filled the file since it was truncated, and with another
\* text, the end of the longer one of the two stays.
Fill(r, f) ==
  /\ At(r, Filled(f))
  /\ LET name == NameOf(r, f)
         mine == [week |-> run[r].week, report |-> run[r].report]
     IN \/ file' = [file EXCEPT ![name] = mine] /\ hurt' = hurt \ {name}
        \/ /\ file[name] \notin {mine, Torn}
           /\ file' = [file EXCEPT ![name] = Torn] /\ hurt' = hurt \cup {name}
  /\ Advance(r)
  /\ UNCHANGED <<tables, writes, cron, asked, weekly, recorded, pushed, lost>>

\* StartRun, and if that worked FinishRun; errors of both are ignored.
Record(r) ==
  /\ At(r, "record")
  /\ \/ recorded' = recorded \cup {run[r].week} /\ UNCHANGED lost
     \/ UNCHANGED recorded /\ lost < MaxLost /\ lost' = lost + 1
  /\ Advance(r)
  /\ UNCHANGED <<tables, writes, cron, asked, weekly, file, pushed, hurt>>

\* SendSummary.  That it failed is logged, and that it worked is not recorded:
\* the links are those that got out, or would have.
Push(r) ==
  /\ At(r, "push")
  /\ pushed' = pushed \cup {[label |-> ISOWeekLabel(run[r].week), week |-> run[r].week]}
  /\ Advance(r)
  /\ UNCHANGED <<tables, writes, cron, asked, weekly, file, recorded, lost, hurt>>

Exit(r) ==
  /\ At(r, "exit")
  /\ run' = [run EXCEPT ![r] = Idle]
  /\ cron' = IF r = "cron" THEN Ended("complete") ELSE cron
  /\ UNCHANGED <<tables, writes, asked, output>>

Step(r) ==
  \/ Clear(r) \/ PutFigures(r) \/ AskLayer(r) \/ PutLast(r)
  \/ \E f \in Files : Truncate(r, f) \/ Fill(r, f)
  \/ Record(r) \/ Push(r) \/ Exit(r)

\* The deadline of a Job.
Deadline ==
  /\ cron.state = "active"
  /\ cron' = Ended("failed")
  /\ hurt' = hurt \cup HalfDone("cron")
  /\ run' = [run EXCEPT !["cron"] = Idle]
  /\ UNCHANGED <<tables, writes, asked, weekly, file, recorded, pushed, lost>>

Next ==
  \/ Fire \/ Restart \/ GiveUp \/ Deadline \/ RunByHand
  \/ \E p \in Posting : Sight(p)
  \/ \E r \in Runner : Step(r) \/ Kill(r)

Spec == Init /\ [][Next]_vars

\* Pods run and are started again.
FairSpec == Spec /\ WF_run(Step("cron")) /\ WF_vars(Restart) /\ WF_vars(GiveUp)

----------------------------------------------------------------------------
(* The site over the files *)

reportExists(name) == name \in DOMAIN file

\* /w/{week}, /reports: the page of a file, or the notice that there is none.
Serve(name) == IF reportExists(name) THEN file[name] ELSE None

handleWeek(label) == Serve(<<"html", label>>)

handleLatestReport == Serve(<<"latest">>)

\* The gauge jobs_sg_jobs_new is that of the newest week with a row.
newJobsWeek ==
  LET weeks == {m \in Mondays : weekly[m]["new_jobs"] # None}
  IN IF weeks = {} THEN None ELSE Max(weeks)

----------------------------------------------------------------------------
(* Properties *)

FigureNames == {"new_jobs", "prev_jobs", "active_jobs", "role_family", "tech_freq"}

LayerNames == {"denom", "counts", "median", "samples", "market", "board"}

\* A run has the sections up to its step, a file is named for the week of what
\* is in it, and what is half done is a file or the rows of a week.
TypeOK ==
  /\ cron.state \in {"idle", "active", "complete", "failed"}
  /\ cron.pods \in 0..MaxPods /\ (cron.state = "idle" => ~Active("cron"))
  /\ \A r \in Runner : Active(r) =>
       /\ run[r].at \in DOMAIN Steps /\ run[r].week \in Mondays
       /\ DOMAIN run[r].report = (IF run[r].at > StepOf("figures") THEN FigureNames ELSE {})
                                   \cup (IF run[r].at > StepOf("layer") THEN LayerNames ELSE {})
  /\ \A n \in DOMAIN file :
       file[n] # Torn => /\ DOMAIN file[n].report = FigureNames \cup LayerNames
                         /\ Len(n) = 2 => n[2] = ISOWeekLabel(file[n].week)
  /\ DOMAIN weekly = Mondays /\ \A m \in Mondays : DOMAIN weekly[m] = RowMetrics
  /\ recorded \subseteq Mondays /\ {l.week : l \in pushed} \subseteq Mondays
  /\ hurt \subseteq DOMAIN file \cup ({"rows"} \X Mondays)

\* A file is truncated only while a run is writing it, or where one was
\* stopped writing it.
BeingWritten(name) ==
  \/ name \in hurt
  \/ \E r \in Runner : Active(r) /\ name \in HalfDone(r)

\* A link that was pushed, and a run that was recorded as a success, have
\* their files; whoever follows a link finds the whole page, unless a later
\* run has it half written or was stopped there.
LinkIsReadable ==
  /\ \A l \in pushed :
       /\ reportExists(<<"html", l.label>>)
       /\ handleWeek(l.label) = Torn => BeingWritten(<<"html", l.label>>)
  /\ \A m \in recorded : \A n \in {<<"html", ISOWeekLabel(m)>>, <<"latest">>} :
       reportExists(n) /\ (Serve(n) = Torn => BeingWritten(n))

Numbers(report, monday) ==
  LET Days     == monday..monday + 6
      Posted(D) == {p \in Stored : job[p].swe /\ job[p].posted \in D}
      rolling  == Posted(monday + 7 - RollingDays..monday + 6)
  IN /\ report.new_jobs = Cardinality(Posted(Days))
     /\ report.prev_jobs = Cardinality(Posted(monday - 7..monday - 1))
     /\ report.market = <<report.new_jobs, report.prev_jobs, report.active_jobs>>
     /\ report.samples = Cardinality(rolling)
     /\ report.denom = Cardinality({p \in Posted(Days) : enriched(p)})
     /\ \A s \in Slug :
          report.counts[s] = IF s \in DOMAIN report.tech_freq THEN report.tech_freq[s] ELSE 0
     /\ report.active_jobs <= report.board

\* A report that nothing disturbed is about the seven days of its week, the
\* quarter before their end, and no other day; the two places that compute
\* each of its numbers agree ("the report and the live pages now answer the
\* same questions from one definition", metrics.go); and the rows that are
\* kept of it are its numbers, with none left over from an earlier run.
ReportIsOfItsWeek ==
  \A r \in Runner :
    (At(r, "html") /\ run[r].clean) =>
      LET report == run[r].report
          rows   == weekly[run[r].week]
      IN /\ Numbers(report, run[r].week)
         /\ lost = 0 => rows = AllRows(report)

\* The latest report and the gauge show the newest week that a run has
\* completed ("index.html = latest report", main.go), unless a run by hand was
\* asked for an older week, a run has the file or the rows half done, or the
\* row was lost.
LatestIsNewest ==
  \A m \in recorded :
    /\ handleLatestReport # Torn /\ handleLatestReport.week < m =>
         handleLatestReport.week \in {asked[i] : i \in DOMAIN asked}
    /\ (newJobsWeek = None \/ newJobsWeek < m) =>
         lost > 0 \/ <<"rows", m>> \in hurt \/ \E r \in Runner : Computing(r) /\ run[r].week = m

Published(m) == LET page == handleWeek(ISOWeekLabel(m)) IN page # None /\ page # Torn /\ page.week = m

\* Once its Job has fired, a week is published, whatever pods are killed, unless
\* the Job fails or the same week is also run by hand (which may hold the page).
EveryWeekIsPublished ==
  cron.state = "active" ~> \/ cron.state = "failed"
                           \/ Published(targetWeek)
                           \/ targetWeek \in {asked[i] : i \in DOMAIN asked}

\* A link that was pushed leads to the week it was pushed for: the report
\* "keeps its own permanent home under /w/{week}" (web/market.go:16).
LinkLeadsToItsWeek ==
  \A l \in pushed :
    LET page == handleWeek(l.label) IN page # None /\ page # Torn => page.week = l.week

=============================================================================
