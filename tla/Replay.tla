------------------------------- MODULE Replay -------------------------------
(***************************************************************************)
(* The two offline replays of the raw archive, reclassify and retech, and  *)
(* the walk over it (scripts/reclassify, scripts/retech, mcf/walk.go,      *)
(* store/reclassify.go, store/retech.go), beside the jobs that go on       *)
(* meanwhile: an ingest run, which adds a file to the archive and upserts  *)
(* postings, and an enrichment run, which writes rule-layer technologies.  *)
(*                                                                         *)
(* A rule lives in two places: in the code of a build, and in the taxonomy *)
(* tables, which only Seed brings up to date.  Seed replaces the aliases   *)
(* of technologies but never deletes a line of the SSOC map, so what the   *)
(* map says depends on every build that has seeded it.                     *)
(*                                                                         *)
(* A text stands for the whole record of a posting.  A definition named    *)
(* for what it gets wrong (MissingByNewest, Anyone, NextFromLast,          *)
(* NextButOne, WithoutMarkers) stands before the one it misses by a single *)
(* mistake and is used by nothing.                                         *)
(***************************************************************************)
EXTENDS Integers, Sequences, FiniteSets, FiniteSetsExt

CONSTANTS
  Uuid,             \* postings, numbers because a replay writes them in order
  Text,             \* records
  Company,          \* employers
  Verdicts,         \* what the classifier says of a record
  Slug,             \* technologies
  CompanyTypes,     \* what the classifier says of an employer
  Employer,         \* Employer[u]: the employer of a posting
  Candidates,       \* the verdicts of records that are stored
  SWE,              \* the verdicts whose postings are enriched
  Verdict(_, _, _), \* Verdict(b, s, t): of record t, by build b and an SSOC map
                    \* seeded by the builds in s
  TypeOf(_, _),     \* TypeOf(b, t): of the employer named in t, by build b
  Found(_, _, _),   \* Found(b, a, t): technologies in t, by build b with the
                    \* aliases of build a
  MaxBuild,         \* bound: builds, numbered from 1
  Since,            \* first build with done markers and with the replays
  Batch,            \* postings per transaction of a replay
  MaxRuns,          \* bound: ingest runs
  MaxSights,        \* bound: records in the archive
  MaxFaults,        \* bound: ingest runs that are killed
  None              \* no row, no copy

Build == 1..MaxBuild

ASSUME ReplayAssumption ==
  /\ Uuid \subseteq Nat /\ IsFiniteSet(Uuid)
  /\ Employer \in [Uuid -> Company]
  /\ SWE \subseteq Candidates /\ Candidates \subseteq Verdicts
  /\ MaxBuild \in Nat \ {0} /\ Since \in Build
  /\ Batch \in Nat \ {0}
  /\ MaxRuns \in Nat /\ MaxSights \in Nat /\ MaxFaults \in Nat
  /\ \A S \in SUBSET Slug : None # S
  /\ None \notin Text /\ None \notin Verdicts
  /\ None \notin [verdict : Verdicts, raw : Nat \X Nat]

ASSUME RulesAssumption ==
  \A b \in Build, t \in Text :
    /\ TypeOf(b, t) \in CompanyTypes
    /\ \A s \in SUBSET Build : Verdict(b, s, t) \in Verdicts
    /\ \A a \in Build : Found(b, a, t) \in SUBSET Slug

Tools == {"reclassify", "retech"}

Phases == {"idle", "walk", "report", "apply"}

Results == {"none", "ok", "dry", "cut", "broken", "open", "aborted"}

Record == Uuid \X Text

VARIABLES
  build,     \* the build that is deployed
  seeded,    \* builds whose seeds went into the taxonomy tables
  files,     \* the archive: each file's records, and whether it was closed
  scan,      \* the ingest run: none, or the postings it does not archive
  row,       \* row[u]: verdict and raw_path of a stored posting
  ctype,     \* ctype[c]: company_type of an employer
  tech,      \* tech[u]: the rule layer's rows in job_tech
  done,      \* postings with a marker of the rule layer in enrich_done
  enricher,  \* the enrichment run: none, or its build, aliases and backlog
  \* one replay
  phase, tool,
  asked,     \* the build it was started from
  rules,     \* the builds in the SSOC map it has loaded
  start,     \* how many files there were
  snap,      \* what is stored of the postings it replays
  latest,    \* the last archived record of each
  missing,   \* candidates it found in the archive only
  todo,      \* postings whose recomputed value differs, still to be written
  result,    \* of the last replay
  \* history, read by properties only
  killed,    \* ingest runs killed so far
  wrote,     \* postings the replay has written
  touched    \* postings archived, upserted or enriched since the replay began

ingestVars == <<files, scan, row, ctype, killed>>
techVars   == <<tech, done>>
replayVars == <<phase, tool, asked, rules, start, snap, latest, missing, todo, result, wrote>>

vars == <<build, seeded, ingestVars, techVars, enricher, replayVars, touched>>
-----------------------------------------------------------------------------
Nowhere == [u \in Uuid |-> None]

Stored == {u \in Uuid : row[u] # None}

\* LoadTechTaxonomy reads the aliases of the build that seeded last.
Aliases == Max(seeded)

\* Where the first n files hold a record of u.
Positions(n) == UNION {{k} \X DOMAIN files[k].lines : k \in 1..n}

Copies(n, u) == {p \in Positions(n) : files[p[1]].lines[p[2]][1] = u}

TextAt(p) == files[p[1]].lines[p[2]][2]

Later(p, q) == q[1] < p[1] \/ (q[1] = p[1] /\ q[2] <= p[2])

\* Files are walked in the order they were written, so the last record wins.
NewestText(n, u) ==
  LET C == Copies(n, u)
  IN IF C = {} THEN None ELSE TextAt(CHOOSE p \in C : \A q \in C : Later(p, q))

\* A raw_path is good once its file is closed, or if the record came through.
ReadableAt(p) ==
  /\ p[2] <= Len(files[p[1]].lines)
  /\ ~(scan # None /\ p[1] = Len(files))

\* Only a replay under way, or one that got to its end, is followed.
Touch(u) ==
  touched' = IF phase # "idle" \/ result \in {"ok", "dry"} THEN touched \cup {u} ELSE touched

Init ==
  /\ build = 1 /\ seeded = {}
  /\ files = <<>> /\ scan = None
  /\ row = Nowhere
  /\ ctype = [c \in Company |-> None]
  /\ tech = [u \in Uuid |-> {}] /\ done = {}
  /\ enricher = None
  /\ phase = "idle" /\ tool = "retech"
  /\ asked = 1 /\ rules = {} /\ start = 0
  /\ snap = Nowhere /\ latest = Nowhere
  /\ missing = {} /\ todo = {}
  /\ result = "none"
  /\ killed = 0 /\ wrote = {} /\ touched = {}
-----------------------------------------------------------------------------
(* The builds, the ingest run and the enrichment run, as a replay sees     *)
(* them (modules Ingest and Enrich).                                       *)

Deploy ==
  /\ build < MaxBuild
  /\ build' = build + 1
  /\ UNCHANGED <<seeded, ingestVars, techVars, enricher, replayVars, touched>>

\* A run seeds the taxonomies, then opens a file of its own; a reconcile is to
\* archive only what is not stored yet.
IngestBegins ==
  /\ scan = None
  /\ Len(files) < MaxRuns
  /\ seeded' = seeded \cup {build}
  /\ files' = Append(files, [lines |-> <<>>, whole |-> TRUE])
  /\ \E known \in {{}, Stored} : scan' = [build |-> build, known |-> known]
  /\ UNCHANGED <<build, row, ctype, killed, techVars, enricher, replayVars, touched>>

\* It is shown a posting, archives it unless it is known, and upserts it if
\* it is a candidate; the upsert may fail, and an incremental run may stop
\* before it.
Sight(u, t) ==
  LET v    == Verdict(scan.build, seeded, t)
      n    == Len(files)
      here == <<n, Len(files[n].lines) + 1>>
      raw  == IF u \in scan.known THEN row[u].raw ELSE here
  IN /\ scan # None
     /\ IF u \in scan.known
        THEN UNCHANGED files
        ELSE /\ Cardinality(Positions(n)) < MaxSights
             /\ files' = [files EXCEPT ![n].lines = Append(@, <<u, t>>)]
     /\ \/ /\ v \in Candidates
           /\ row' = [row EXCEPT ![u] = [verdict |-> v, raw |-> raw]]
           /\ ctype' = [ctype EXCEPT ![Employer[u]] = TypeOf(scan.build, t)]
        \/ UNCHANGED <<row, ctype>>
     /\ Touch(u)
     /\ UNCHANGED <<build, seeded, scan, killed, techVars, enricher, replayVars>>

IngestEnds ==
  /\ scan # None
  /\ scan' = None
  /\ UNCHANGED <<build, seeded, files, row, ctype, killed, techVars, enricher, replayVars,
                 touched>>

\* A killed run leaves a file that was not closed, with the records that had
\* left its buffers.
IngestKilled ==
  LET n == Len(files)
  IN /\ scan # None
     /\ killed < MaxFaults
     /\ killed' = killed + 1
     /\ scan' = None
     /\ \E kept \in 0..Len(files[n].lines) :
          files' = [files EXCEPT ![n] = [lines |-> SubSeq(@.lines, 1, kept), whole |-> FALSE]]
     /\ UNCHANGED <<build, seeded, row, ctype, techVars, enricher, replayVars, touched>>

\* enrichBacklog: software postings with neither rows nor a marker.
Processed == {u \in Uuid : tech[u] # {}} \cup done

Backlog == {u \in Stored : row[u].verdict \in SWE} \ Processed

EnrichBegins ==
  /\ enricher = None
  /\ seeded # {}
  /\ enricher' = [build |-> build, aliases |-> Aliases, batch |-> Backlog]
  /\ UNCHANGED <<build, seeded, ingestVars, techVars, replayVars, touched>>

\* writeTech adds the rows, and since Since the marker.
Enrich(u) ==
  /\ enricher # None
  /\ u \in enricher.batch
  /\ ReadableAt(row[u].raw)
  /\ tech' = [tech EXCEPT ![u] =
                @ \cup Found(enricher.build, enricher.aliases, TextAt(row[u].raw))]
  /\ done' = IF enricher.build >= Since THEN done \cup {u} ELSE done
  /\ enricher' = [enricher EXCEPT !.batch = @ \ {u}]
  /\ Touch(u)
  /\ UNCHANGED <<build, seeded, ingestVars, replayVars>>

\* It is done, having skipped what it could not read, or it is killed.
EnrichEnds ==
  /\ enricher # None
  /\ enricher' = None
  /\ UNCHANGED <<build, seeded, ingestVars, techVars, replayVars, touched>>
-----------------------------------------------------------------------------
(* A replay                                                                *)

\* reclassify replays every stored posting, retech those with rule rows.
Population(x) ==
  IF x = "reclassify"
  THEN [u \in Uuid |-> IF u \in Stored THEN row[u].verdict ELSE None]
  ELSE [u \in Uuid |-> IF tech[u] # {} THEN tech[u] ELSE None]

\* reclassify loads the SSOC map as it stands; retech takes its aliases from
\* the build it was started from.
Begin(x) ==
  /\ phase = "idle" /\ build >= Since
  /\ phase' = "walk" /\ tool' = x
  /\ asked' = build /\ rules' = seeded /\ start' = Len(files)
  /\ snap' = Population(x)
  /\ latest' = Nowhere /\ missing' = {} /\ todo' = {}
  /\ result' = "none"
  /\ wrote' = {} /\ touched' = {}
  /\ UNCHANGED <<build, seeded, ingestVars, techVars, enricher>>

Recomputed(t) ==
  IF tool = "reclassify" THEN Verdict(asked, rules, t) ELSE Found(asked, asked, t)

\* A file is read to its end, which one that was never closed lacks.
Ends(k) == files[k].whole /\ ~(scan # None /\ k = Len(files))

MissingByNewest(n) ==
  {u \in Uuid : /\ tool = "reclassify" /\ snap[u] = None /\ NewestText(n, u) # None
                /\ Recomputed(NewestText(n, u)) \in Candidates}

\* Candidates in the archive that are not stored, by any of their records;
\* retech does not look for them.
MissingOf(n) ==
  {u \in Uuid : /\ tool = "reclassify" /\ snap[u] = None
                /\ \E p \in Copies(n, u) : Recomputed(TextAt(p)) \in Candidates}

\* The records of other postings are passed over.
Anyone(u) == TRUE

Replayed(u) == snap[u] # None

\* The walk reads the files that were there and may list later ones.  Files
\* that end do not change, so it may be taken to read them all at the end.
Walk(n) ==
  LET last == [u \in Uuid |-> IF Replayed(u) THEN NewestText(n, u) ELSE None]
  IN /\ phase = "walk"
     /\ n \in start..Len(files)
     /\ \A k \in 1..n : Ends(k)
     /\ latest' = last
     /\ missing' = MissingOf(n)
     /\ todo' = {u \in Uuid : last[u] # None /\ Recomputed(last[u]) # snap[u]}
     /\ phase' = "report"
     /\ UNCHANGED <<build, seeded, ingestVars, techVars, enricher, tool, asked, rules,
                    start, snap, result, wrote, touched>>

\* The process ends; what it has learnt is kept for the properties if it got to
\* its end.
Stop(outcome) ==
  /\ phase' = "idle"
  /\ result' = outcome
  /\ todo' = {}
  /\ IF outcome \in {"ok", "dry"}
     THEN UNCHANGED <<snap, latest, missing, wrote, touched>>
     ELSE /\ snap' = Nowhere /\ latest' = Nowhere
          /\ missing' = {} /\ wrote' = {} /\ touched' = {}
  /\ UNCHANGED <<build, ingestVars, enricher, tool, asked, rules, start>>

\* What a walk makes of the first file that does not end.
Flaw(k) ==
  IF files[k].whole THEN "open" ELSE IF files[k].lines = <<>> THEN "broken" ELSE "cut"

\* It returns the error of that file, and the replay with it.
WalkFails(k) ==
  /\ phase = "walk"
  /\ k \in 1..Len(files)
  /\ ~Ends(k) /\ \A l \in 1..(k - 1) : Ends(l)
  /\ Stop(Flaw(k))
  /\ UNCHANGED <<seeded, techVars>>

\* Without --apply it reports what would change and is done.
DryRun ==
  /\ phase = "report"
  /\ Stop("dry")
  /\ UNCHANGED <<seeded, techVars>>

\* Otherwise retech first brings the tables up to date, work or none.
Proceed ==
  /\ phase = "report"
  /\ seeded' = IF tool = "retech" THEN seeded \cup {asked} ELSE seeded
  /\ phase' = "apply"
  /\ UNCHANGED <<build, ingestVars, techVars, enricher, tool, asked, rules, start, snap,
                 latest, missing, todo, result, wrote, touched>>

\* The work is sorted by uuid and cut into batches.
NextFromLast ==
  {u \in todo : Cardinality({v \in todo : v > u}) < Batch}

NextBatch ==
  {u \in todo : Cardinality({v \in todo : v < u}) < Batch}

NextButOne == {u \in todo : Cardinality({v \in todo : v < u}) > Batch}

AfterBatch == todo \ NextBatch

\* ApplyClassifications writes the verdict of each posting and, one after the
\* other, the type of its employer; lifecycle columns and raw_path stay.
StaffOf(c) == {u \in NextBatch : Employer[u] = c}

ApplyClassifications ==
  /\ row' = [u \in Uuid |-> IF u \in NextBatch
                            THEN [row[u] EXCEPT !.verdict = Recomputed(latest[u])]
                            ELSE row[u]]
  /\ ctype' = [c \in Company |-> IF StaffOf(c) = {} THEN ctype[c]
                                 ELSE TypeOf(asked, latest[Max(StaffOf(c))])]
  /\ UNCHANGED techVars

\* ApplyRuleTech replaces the rows, and adds the marker if there is none: of a
\* posting left without rows it is all that tells it has been processed.
WithoutMarkers == done

WithMarkers == done \cup NextBatch

ApplyRuleTech ==
  /\ tech' = [u \in Uuid |-> IF u \in NextBatch THEN Recomputed(latest[u]) ELSE tech[u]]
  /\ done' = WithMarkers
  /\ UNCHANGED <<row, ctype>>

\* Each batch is a transaction.
ApplyBatch ==
  /\ phase = "apply" /\ todo # {}
  /\ IF tool = "reclassify" THEN ApplyClassifications ELSE ApplyRuleTech
  /\ todo' = AfterBatch
  /\ wrote' = wrote \cup NextBatch
  /\ UNCHANGED <<build, seeded, files, scan, killed, enricher, phase, tool, asked, rules,
                 start, snap, latest, missing, result, touched>>

Finish ==
  /\ phase = "apply" /\ todo = {}
  /\ Stop("ok")
  /\ UNCHANGED <<seeded, techVars>>

\* A transaction fails for good, or the process is killed: what has been
\* committed stays.
Abort ==
  /\ phase # "idle"
  /\ Stop("aborted")
  /\ UNCHANGED <<seeded, techVars>>

Next ==
  \/ Deploy
  \/ IngestBegins \/ IngestEnds \/ IngestKilled
  \/ \E u \in Uuid, t \in Text : Sight(u, t)
  \/ EnrichBegins \/ EnrichEnds
  \/ \E u \in Uuid : Enrich(u)
  \/ \E x \in Tools : Begin(x)
  \/ \E n \in 0..MaxRuns : Walk(n)
  \/ \E k \in 1..MaxRuns : WalkFails(k)
  \/ DryRun \/ Proceed \/ ApplyBatch \/ Finish \/ Abort

Spec == Init /\ [][Next]_vars
-----------------------------------------------------------------------------
(* Properties                                                              *)

\* Every variable holds a value of its type: a replay works on postings of its
\* population that it found in the archive, and only while it applies.
TypeOK ==
  /\ build \in Build /\ seeded \subseteq Build
  /\ files \in Seq([lines : Seq(Record), whole : BOOLEAN])
  /\ scan \in [build : Build, known : SUBSET Uuid] \cup {None}
  /\ scan # None => files # <<>> /\ scan.build \in seeded /\ scan.known \subseteq Stored
  /\ row \in [Uuid -> [verdict : Verdicts, raw : Nat \X Nat] \cup {None}]
  /\ ctype \in [Company -> CompanyTypes \cup {None}]
  /\ tech \in [Uuid -> SUBSET Slug] /\ done \subseteq Uuid
  /\ enricher \in [build : Build, aliases : Build, batch : SUBSET Uuid] \cup {None}
  /\ phase \in Phases /\ tool \in Tools
  /\ asked \in Build /\ rules \subseteq Build /\ start \in Nat
  /\ snap \in [Uuid -> (IF tool = "reclassify" THEN Verdicts ELSE SUBSET Slug) \cup {None}]
  /\ latest \in [Uuid -> Text \cup {None}]
  /\ \A u \in Uuid : latest[u] # None => snap[u] # None
  /\ missing \subseteq Uuid
  /\ todo \subseteq {u \in Uuid : latest[u] # None}
  /\ phase \notin {"report", "apply"} => todo = {}
  /\ result \in Results
  /\ killed \in Nat /\ wrote \subseteq Uuid /\ touched \subseteq Uuid

\* A replay that ends well has reached every posting of its population that
\* has a record in the archive and that no other job touched since it began:
\* its stored value is the one of its newest record, whatever batches, kills of
\* the ingest run and new files there were (reclassify/main.go:165-195,
\* retech/main.go:122-150).
ReplayReaches ==
  result = "ok" =>
    \A u \in Uuid \ touched :
      LET t == NewestText(Len(files), u)
      IN snap[u] # None /\ t # None =>
           IF tool = "reclassify" THEN row[u].verdict = Recomputed(t)
                                  ELSE tech[u] = Recomputed(t)

\* A posting the rule layer has processed is never given to it again: not by
\* an upsert, not by an old enrichment, and not by a replay that leaves it
\* without technologies (store/retech.go:49-59).
ProcessedOnce == [][Processed \subseteq Processed']_vars

\* After a reclassify an employer has the type found in the last of its
\* postings that were written, by uuid and across batches, as long as no ingest
\* run stored one of its postings meanwhile (reclassify/main.go:156-158).
LastPostingNamesType ==
  result = "ok" /\ tool = "reclassify" =>
    \A c \in Company :
      LET staff == {u \in wrote : Employer[u] = c}
      IN staff # {} /\ (\A u \in touched : Employer[u] # c) =>
           ctype[c] = TypeOf(asked, latest[Max(staff)])

\* What a reclassify that ran to its end reports as missing is archived, is a
\* candidate by one of its records and is not stored; and nothing else is: as
\* far as no other job touched the posting (reclassify/main.go:104-121).
GapsAreReal ==
  result \in {"ok", "dry"} /\ tool = "reclassify" =>
    \A u \in Uuid \ touched :
      u \in missing <=>
        /\ row[u] = None
        /\ \E p \in Copies(Len(files), u) : Recomputed(TextAt(p)) \in Candidates

\* walk.go:27-29: a truncated final line does not stop the walk, because a run
\* killed mid-append leaves one, and the records before it are perfectly good.
TruncatedTailIsSkipped == result # "cut"
=============================================================================
