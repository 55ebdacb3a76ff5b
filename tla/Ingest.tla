------------------------------- MODULE Ingest -------------------------------
(***************************************************************************)
(* The daily ingest job: one CronJob run a day that pages through the MCF  *)
(* job board, archives what it fetches, upserts the candidate postings     *)
(* into the job table and, on Sundays, reconciles the table against the    *)
(* whole board (internal/ingest/ingest.go, internal/store/jobs.go,         *)
(* internal/mcf/client.go, internal/mcf/archive.go).                       *)
(*                                                                         *)
(* The environment is the board, whose publishers list, edit, repost and   *)
(* withdraw postings between any two page requests; the calendar; and the  *)
(* faults in Faults, each of which may strike while fewer than MaxFaults   *)
(* have.  The job is killed by a fault "crash" at any step and re-run by   *)
(* Kubernetes up to MaxAttempts times a day.                               *)
(*                                                                         *)
(* Days are numbered from 1, so 0 serves as NULL in a date column.         *)
(***************************************************************************)
EXTENDS Integers, FiniteSets

CONSTANTS
  Uuid,             \* postings, numbers so that the board's order is total
  Desc,             \* versions of a description
  Terms,            \* days a posting may be advertised for
  Limit,            \* postings per page
  DaysPerWeek,      \* every DaysPerWeek-th day is a Sunday
  BackoffDays,      \* BackoffWindow: how far below the watermark a scan reads
  Lag,              \* days a posting may be dated back when it is listed
  Reclassify,       \* may an edit turn a candidate into a non-candidate?
  IncrementalPages, \* page limit of an incremental run
  FullPages,        \* page limit of a baseline or a reconcile
  MaxAttempts,      \* runs of one day's job: backoffLimit + 1
  Faults,           \* the faults that may strike
  FirstDay,         \* day of the first run
  MaxDay,           \* bound: last day of the calendar
  MaxChanges,       \* bound: changes of the board
  MaxFaults,        \* bound: faults that strike
  Gone,             \* board[u] of a posting that is not listed
  NoRow             \* job[u] of a posting that is not stored

Listing == [post : Nat, exp : Nat, cand : BOOLEAN, desc : Desc]

Row == [post : Nat, exp : Nat, desc : Desc, raw : Desc,
        last : Nat, closed : Nat, miss : Nat]

Kinds == {"baseline", "incremental", "reconcile"}

FaultNames == {"start", "page", "truncate", "blank", "write", "upsert",
               "flush", "sweep", "finish", "crash"}

ASSUME IngestAssumption ==
  /\ Uuid \subseteq Int /\ IsFiniteSet(Uuid)
  /\ Terms \subseteq Nat
  /\ Limit \in Nat \ {0} /\ DaysPerWeek \in Nat \ {0}
  /\ BackoffDays \in Nat /\ Lag \in Nat /\ Reclassify \in BOOLEAN
  /\ IncrementalPages \in Nat \ {0} /\ FullPages \in Nat \ {0}
  /\ MaxAttempts \in Nat \ {0}
  /\ Faults \subseteq FaultNames
  /\ FirstDay \in Nat \ {0} /\ MaxDay \in Nat /\ MaxChanges \in Nat /\ MaxFaults \in Nat
  /\ Gone \notin Listing /\ NoRow \notin Row

VARIABLES
  \* the world
  day,        \* today in Singapore
  board,      \* board[u]: the listing of u on MCF, or Gone
  changes,    \* changes of the board so far
  faults,     \* faults so far
  \* what persists
  job,        \* the job table: job[u] is a row or NoRow
  archived,   \* records <<u, d>> readable in the archive
  fresh,      \* fresh[k]: day of LastSuccess(k), 0 for never
  attempts,   \* runs Kubernetes will still start today
  \* one run of the job
  pc,         \* where the run stands; "idle" when none is running
  kind,       \* what it is: baseline, incremental or reconcile
  floor,      \* watermark - BackoffWindow; 0 when the scan never stops early
  page,       \* next page to request
  scanned,    \* Summary.Jobs
  maxTotal,   \* Summary.MaxTotal
  known,      \* KnownUUIDs at the start of a reconcile
  buffer,     \* records written to the archive, not yet flushed
  todo,       \* candidates of the current page still to upsert
  stop,       \* did the callback see a posting below the floor?
  seen,       \* candidates this reconcile has upserted
  failed,     \* res.Errors > 0
  skipped,    \* res.CloseSkipped
  \* history, read by properties only
  served,     \* records <<u, d>> the board served to this run
  owed,       \* candidates in the window that were served to this run
  steady,     \* has the board stood still since this run began?
  sound       \* was every run so far a success over a board that stood still?

boardVars  == <<day, board, changes>>
tableVars  == <<job, archived, fresh>>
scanVars   == <<kind, floor, page, scanned, maxTotal, known>>
pageVars   == <<buffer, todo, stop, seen, failed, skipped>>
historyVars == <<served, owed, steady>>

vars == <<boardVars, faults, tableVars, attempts, pc, scanVars, pageVars,
          historyVars, sound>>

-----------------------------------------------------------------------------
(* Auxiliary definitions.  A definition named for what it gets wrong       *)
(* (FloorAtWatermark, CoveredStrictly, ...) stands right before the one it *)
(* misses by a single mistake and is used by nothing: TLC, run with the    *)
(* mistaken one in its place, finds the property that notices.             *)

Listed == {u \in Uuid : board[u] # Gone}

\* KnownUUIDs: every posting the table holds.
Stored == {u \in Uuid : job[u] # NoRow}

Open == {u \in Stored : job[u].closed = 0}

\* The board's order: newest posting date first, ties by uuid.
Before(u, v) ==
  \/ board[u].post > board[v].post
  \/ board[u].post = board[v].post /\ u < v

\* What the board serves as page p.
PageOf(p) ==
  {u \in Listed : Cardinality({v \in Listed : Before(v, u)}) \div Limit = p}

\* QueryWatermark: the newest posting date stored, 0 for an empty table.
Watermarks ==
  {w \in {0} \cup {job[u].post : u \in Stored} : \A u \in Stored : job[u].post <= w}

\* BackoffWindow below the watermark is where an incremental scan stops.
FloorAtWatermark(w) == w

FloorBelow(w) == IF w > BackoffDays THEN w - BackoffDays ELSE 0

InWindowStrictly(u) == board[u].post > floor

InWindow(u) == board[u].post >= floor

PageLimit == IF kind = "incremental" THEN IncrementalPages ELSE FullPages

\* The close gate: the sweep walked at least 80% of the largest total the API
\* advertised.  A total that was never advertised counts as covered.
CoveredStrictly == 5 * scanned > 4 * maxTotal

CoveredAtAll == scanned > 0 \/ maxTotal = 0

Covered == 5 * scanned >= 4 * maxTotal

\* Summary.MaxTotal once a page has advertised the size of the board.
TotalSeen ==
  LET total == Cardinality(Listed) IN IF total > maxTotal THEN total ELSE maxTotal

Strikes(f) ==
  /\ f \in Faults
  /\ faults < MaxFaults
  /\ faults' = faults + 1

\* The run is over: its memory is gone.
Forget ==
  /\ pc' = "idle"
  /\ kind' = "incremental" /\ floor' = 0 /\ page' = 0
  /\ scanned' = 0 /\ maxTotal' = 0 /\ known' = {}
  /\ buffer' = {} /\ todo' = {} /\ stop' = FALSE /\ seen' = {}
  /\ failed' = FALSE /\ skipped' = FALSE
  /\ served' = {} /\ owed' = {} /\ steady' = TRUE
-----------------------------------------------------------------------------
(* The initial states: an empty table, an empty archive, any board that    *)
(* has been listing postings since day 1.                                  *)

\* The listings a publisher may put up today with a posting date in `dates`.
Offers(dates) ==
  {[post |-> p, exp |-> p + t, cand |-> c, desc |-> d] :
     p \in dates, t \in Terms, c \in BOOLEAN, d \in Desc}

Init ==
  /\ day = FirstDay
  /\ board \in [Uuid -> {Gone} \cup Offers(1..FirstDay)]
  /\ changes = 0 /\ faults = 0
  /\ job = [u \in Uuid |-> NoRow]
  /\ archived = {}
  /\ fresh = [k \in {"incremental", "reconcile"} |-> 0]
  /\ attempts = MaxAttempts
  /\ pc = "idle" /\ kind = "incremental" /\ floor = 0 /\ page = 0
  /\ scanned = 0 /\ maxTotal = 0 /\ known = {}
  /\ buffer = {} /\ todo = {} /\ stop = FALSE /\ seen = {}
  /\ failed = FALSE /\ skipped = FALSE
  /\ served = {} /\ owed = {} /\ steady = TRUE /\ sound = TRUE
-----------------------------------------------------------------------------
(* The world                                                               *)

\* A publisher lists, reposts, edits or withdraws a posting.  The board is
\* read by page requests only, so a change while a page is being processed
\* is the same as one just before the next request.
ChangeListing(u) ==
  LET recent == {p \in 1..day : p + Lag >= day}
      edits  == IF board[u] = Gone THEN {}
                ELSE {l \in Offers({board[u].post}) : l.cand = board[u].cand \/ Reclassify}
  IN /\ pc \in {"idle", "fetch"}
     /\ changes < MaxChanges
     /\ \E l \in ({Gone} \cup Offers(recent) \cup edits) \ {board[u]} :
          board' = [board EXCEPT ![u] = l]
     /\ changes' = changes + 1
     /\ steady' = (steady /\ pc = "idle")
     /\ UNCHANGED <<day, faults, tableVars, attempts, pc, scanVars, pageVars,
                    served, owed, sound>>

\* Midnight in Singapore: the CronJob is due again.  ConcurrencyPolicy Forbid
\* and the job's deadline keep a run within its day.  The calendar stands
\* still at MaxDay, so that the system never stops.
NextDay ==
  /\ pc = "idle" /\ attempts = 0
  /\ day' = IF day < MaxDay THEN day + 1 ELSE day
  /\ attempts' = MaxAttempts
  /\ UNCHANGED <<board, changes, faults, tableVars, pc, scanVars, pageVars,
                 historyVars, sound>>
-----------------------------------------------------------------------------
(* A run                                                                   *)

\* Run up to the first page request: kind, page limit, watermark, a fresh
\* archive file and, for a reconcile, the uuids already stored.
Begin ==
  /\ pc = "idle" /\ attempts > 0
  /\ attempts' = attempts - 1
  /\ pc' = "fetch"
  /\ kind' = IF day % DaysPerWeek = 0 THEN "reconcile"
             ELSE IF Stored = {} THEN "baseline" ELSE "incremental"
  /\ \E w \in Watermarks :
       floor' = IF kind' = "incremental" THEN FloorBelow(w) ELSE 0
  /\ known' = IF kind' = "reconcile" THEN Stored ELSE {}
  /\ UNCHANGED <<boardVars, faults, tableVars, page, scanned, maxTotal,
                 pageVars, historyVars, sound>>

\* Opening the database or the archive, StartRun or KnownUUIDs fails: the
\* job exits 1 and leaves at most an audit row that counts for nothing.
BeginFails ==
  /\ pc = "idle" /\ attempts > 0
  /\ Strikes("start")
  /\ attempts' = attempts - 1
  /\ sound' = FALSE
  /\ UNCHANGED <<boardVars, tableVars, pc, scanVars, pageVars, historyVars>>

\* What the callback could not archive it must not upsert.
KeptAll(fetched, lost) == fetched

Kept(fetched, lost) == fetched \ lost

\* A page with postings.  The callback archives all of it that is not known
\* (writes of the postings in `lost` fail), skips what it could not archive,
\* and keeps for upserting the candidates that come before the first posting
\* dated below the floor.
FetchPage(lost) ==
  LET fetched == PageOf(page)
      records == {<<u, board[u].desc>> : u \in fetched \ known}
      kept    == Kept(fetched, lost)
      wanted  == {u \in fetched : board[u].cand /\ InWindow(u)}
  IN /\ pc = "fetch" /\ fetched # {}
     /\ lost \subseteq fetched \ known
     /\ \/ lost = {} /\ UNCHANGED faults
        \/ lost # {} /\ Strikes("write")
     /\ maxTotal' = TotalSeen
     /\ buffer' = buffer \cup {r \in records : r[1] \notin lost}
     /\ todo' = wanted \cap kept
     /\ stop' = (\E u \in kept : ~InWindow(u))
     /\ failed' = (failed \/ lost # {})
     /\ served' = served \cup records
     /\ owed' = owed \cup wanted
     /\ pc' = "upsert"
     /\ UNCHANGED <<boardVars, tableVars, attempts, kind, floor, page, scanned,
                    known, seen, skipped, steady, sound>>

\* The page past the last posting is empty and ends the scan cleanly.
FetchEmptyPage ==
  /\ pc = "fetch" /\ PageOf(page) = {}
  /\ maxTotal' = TotalSeen
  /\ pc' = "archive"
  /\ UNCHANGED <<boardVars, faults, tableVars, attempts, kind, floor, page,
                 scanned, known, pageVars, historyVars, sound>>

\* The API serves an empty page where postings remain, which the client
\* cannot tell from the end of the board.  A truncated page still advertises
\* the size of the board, a blank one advertises 0, which EachPage ignores.
FetchTruncatedPage ==
  /\ pc = "fetch" /\ PageOf(page) # {}
  /\ \/ /\ Strikes("truncate")
        /\ maxTotal' = TotalSeen
     \/ /\ Strikes("blank")
        /\ UNCHANGED maxTotal
  /\ pc' = "archive"
  /\ UNCHANGED <<boardVars, tableVars, attempts, kind, floor, page, scanned,
                 known, pageVars, historyVars, sound>>

\* FetchPage gives up after its retries, or the answer does not decode.
FetchFails ==
  /\ pc = "fetch"
  /\ Strikes("page")
  /\ failed' = TRUE
  /\ pc' = "archive"
  /\ UNCHANGED <<boardVars, tableVars, attempts, scanVars, buffer, todo, stop,
                 seen, skipped, historyVars, sound>>

\* What UpsertJob writes whether it inserts or updates ...
RowOf(u, raw, closed, miss) ==
  [post |-> board[u].post, exp |-> board[u].exp, desc |-> board[u].desc,
   raw |-> raw, last |-> day, closed |-> closed, miss |-> miss]

UpsertedRowUnarchived(u) == RowOf(u, IF u \in Stored THEN job[u].raw ELSE NoRow, 0, 0)

UpsertedRowStaysClosed(u) ==
  RowOf(u, board[u].desc, IF u \in Stored THEN job[u].closed ELSE 0, 0)

UpsertedRowKeepsMisses(u) ==
  RowOf(u, board[u].desc, 0, IF u \in Stored THEN job[u].miss ELSE 0)

\* ... and what it leaves: an open row without misses.  A known posting comes
\* without an archive record of this run and keeps its raw_path.
UpsertedRow(u) == RowOf(u, IF u \in known THEN job[u].raw ELSE board[u].desc, 0, 0)

\* The page is upserted in the board's order.
IsNext(u) == u \in todo /\ \A v \in todo \ {u} : Before(u, v)

Upsert(u) ==
  /\ pc = "upsert" /\ IsNext(u)
  /\ job' = [job EXCEPT ![u] = UpsertedRow(u)]
  /\ todo' = todo \ {u}
  /\ seen' = IF kind = "reconcile" THEN seen \cup {u} ELSE seen
  /\ UNCHANGED <<boardVars, faults, archived, fresh, attempts, pc, scanVars,
                 buffer, stop, failed, skipped, historyVars, sound>>

\* UpsertJob's transaction fails for good and is rolled back.
UpsertFails(u) ==
  /\ pc = "upsert" /\ IsNext(u)
  /\ Strikes("upsert")
  /\ todo' = todo \ {u}
  /\ failed' = TRUE
  /\ UNCHANGED <<boardVars, tableVars, attempts, pc, scanVars, buffer, stop,
                 seen, skipped, historyVars, sound>>

\* EachPage counts the page, then stops, trips the circuit breaker or goes on.
EndPage ==
  LET tripped == ~stop /\ page + 1 >= PageLimit
  IN /\ pc = "upsert" /\ todo = {}
     /\ scanned' = scanned + Cardinality(PageOf(page))
     /\ failed' = (failed \/ tripped)
     /\ page' = page + 1
     /\ stop' = FALSE
     /\ pc' = IF stop \/ tripped THEN "archive" ELSE "fetch"
     /\ UNCHANGED <<boardVars, faults, tableVars, attempts, kind, floor,
                    maxTotal, known, buffer, todo, seen, skipped, historyVars,
                    sound>>

\* Only a reconcile that met no error goes on to the close pass.
SweepAnyway == IF kind = "reconcile" THEN "sweep" ELSE "finish"

AfterArchive == IF kind = "reconcile" /\ ~failed' THEN "sweep" ELSE "finish"

CloseArchive ==
  /\ pc = "archive"
  /\ archived' = archived \cup buffer
  /\ buffer' = {}
  /\ UNCHANGED failed
  /\ pc' = AfterArchive
  /\ UNCHANGED <<boardVars, faults, job, fresh, attempts, scanVars, todo, stop,
                 seen, skipped, historyVars, sound>>

\* The last flush of the gzip stream fails: only a part of it is on disk.
CloseArchiveFails ==
  /\ pc = "archive"
  /\ Strikes("flush")
  /\ \E flushed \in SUBSET buffer : archived' = archived \cup flushed
  /\ buffer' = {}
  /\ failed' = TRUE
  /\ pc' = AfterArchive
  /\ UNCHANGED <<boardVars, job, fresh, attempts, scanVars, todo, stop,
                 seen, skipped, historyVars, sound>>

\* missAndCloseOnce: one transaction over the open postings the sweep did not
\* see.  Expired ones close; the others, when the sweep covered the board,
\* are missed once more and close at the second miss.
AbsentOpenOrNot == Stored \ seen

Absent == Open \ seen

SweptRow(u) ==
  LET row    == job[u]
      misses == row.miss + 1
  IN IF u \notin Absent THEN row
     ELSE IF row.exp < day THEN [row EXCEPT !.closed = day, !.miss = 0]
     ELSE IF ~Covered THEN row
     ELSE [row EXCEPT !.miss = misses, !.closed = IF misses >= 2 THEN day ELSE 0]

MissAndClose ==
  /\ pc = "sweep"
  /\ job' = [u \in Uuid |-> SweptRow(u)]
  /\ skipped' = ~Covered
  /\ pc' = "finish"
  /\ UNCHANGED <<boardVars, faults, archived, fresh, attempts, scanVars,
                 buffer, todo, stop, seen, failed, historyVars, sound>>

\* The transaction fails for good and is rolled back whole.
MissAndCloseFails ==
  /\ pc = "sweep"
  /\ Strikes("sweep")
  /\ skipped' = ~Covered
  /\ failed' = TRUE
  /\ pc' = "finish"
  /\ UNCHANGED <<boardVars, tableVars, attempts, scanVars, buffer, todo, stop,
                 seen, historyVars, sound>>

\* What LastSuccess makes of a finished run: fresh data if it met no error, and
\* a fresh reconcile only if its close pass was not skipped.
StampsOfAnyRun ==
  IF kind # "reconcile" \/ skipped THEN {"incremental"} ELSE {"incremental", "reconcile"}

Stamps ==
  IF failed THEN {}
  ELSE IF kind # "reconcile" \/ skipped THEN {"incremental"}
  ELSE {"incremental", "reconcile"}

\* FinishRun writes the audit row and the job exits 0, with errors or without.
Finish ==
  /\ pc = "finish"
  /\ fresh' = [k \in DOMAIN fresh |-> IF k \in Stamps THEN day ELSE fresh[k]]
  /\ attempts' = 0
  /\ sound' = (sound /\ ~failed /\ steady)
  /\ Forget
  /\ UNCHANGED <<boardVars, faults, job, archived>>

\* FinishRun's UPDATE fails: it is not retried, the job exits 1.
FinishFails ==
  /\ pc = "finish"
  /\ Strikes("finish")
  /\ sound' = FALSE
  /\ Forget
  /\ UNCHANGED <<boardVars, tableVars, attempts>>

\* The container is killed: committed rows stay, of the buffered records only
\* those gzip had already handed to the file system.
Crash ==
  /\ pc # "idle"
  /\ Strikes("crash")
  /\ \E flushed \in SUBSET buffer : archived' = archived \cup flushed
  /\ sound' = FALSE
  /\ Forget
  /\ UNCHANGED <<boardVars, job, fresh, attempts>>

Next ==
  \/ \E u \in Uuid : ChangeListing(u)
  \/ NextDay
  \/ Begin
  \/ BeginFails
  \/ \E lost \in SUBSET PageOf(page) : FetchPage(lost)
  \/ FetchEmptyPage
  \/ FetchTruncatedPage
  \/ FetchFails
  \/ \E u \in Uuid : Upsert(u)
  \/ \E u \in Uuid : UpsertFails(u)
  \/ EndPage
  \/ CloseArchive
  \/ CloseArchiveFails
  \/ MissAndClose
  \/ MissAndCloseFails
  \/ Finish
  \/ FinishFails
  \/ Crash

Spec == Init /\ [][Next]_vars

\* What the job does when nothing goes wrong.
Progress ==
  \/ NextDay \/ Begin
  \/ FetchPage({}) \/ FetchEmptyPage
  \/ (\E u \in Uuid : Upsert(u)) \/ EndPage
  \/ CloseArchive \/ MissAndClose \/ Finish

\* Kubernetes starts every day's job and the job is one sequential process
\* with timeouts on its requests and on its database: it goes on.  Publishers
\* and faults owe nothing.
FairSpec == Spec /\ WF_vars(Progress)
-----------------------------------------------------------------------------
(* Properties                                                              *)

\* Every variable holds a value of its type.
TypeOK ==
  /\ day \in Nat /\ changes \in Nat /\ faults \in Nat
  /\ board \in [Uuid -> Listing \cup {Gone}]
  /\ job \in [Uuid -> Row \cup {NoRow}]
  /\ archived \subseteq Uuid \X Desc
  /\ fresh \in [{"incremental", "reconcile"} -> Nat]
  /\ attempts \in 0..MaxAttempts
  /\ pc \in {"idle", "fetch", "upsert", "archive", "sweep", "finish"}
  /\ kind \in Kinds
  /\ floor \in Nat /\ page \in Nat /\ scanned \in Nat /\ maxTotal \in Nat
  /\ known \subseteq Uuid /\ todo \subseteq Uuid /\ seen \subseteq Uuid
  /\ buffer \subseteq Uuid \X Desc
  /\ stop \in BOOLEAN /\ failed \in BOOLEAN /\ skipped \in BOOLEAN
  /\ served \subseteq Uuid \X Desc /\ owed \subseteq Uuid
  /\ steady \in BOOLEAN /\ sound \in BOOLEAN

\* A closed posting has its reason on record, and no posting is closed
\* without one: it was last seen no later than it closed, and it had either
\* expired by then or missed exactly two sweeps.  An open one has missed at
\* most one (missAndCloseOnce and UpsertJob between them).
ClosedForAReason ==
  \A u \in Stored :
    LET row == job[u]
    IN IF row.closed = 0 THEN row.miss < 2
       ELSE /\ row.last <= row.closed /\ row.closed <= day
            /\ row.miss = 2 \/ row.exp < row.closed

\* Whatever upserts and archive writes failed on the way, the close pass of a
\* reconcile never touches a candidate that the board served to this sweep.
ServedIsNeverMissed ==
  [][pc = "sweep" => \A u \in owed : job'[u] = job[u] /\ u \in Open]_vars

\* A run counts as fresh data for the staleness alert only if it recorded
\* everything it was served: each candidate of the window is open in the
\* table and was seen today, each record it had to archive is on disk.
FreshMeansRecorded ==
  [][fresh' # fresh =>
       /\ \A u \in owed : u \in Open /\ job[u].last = day
       /\ served \subseteq archived]_vars

\* Early stop, page limit, skipped slots and circuit breaker lose nothing: a
\* fresh run over a board that stood still leaves every listed candidate of
\* the window in the table as the board has it.
WindowComplete ==
  [][fresh' # fresh /\ steady =>
       \A u \in Listed : board[u].cand /\ board[u].post >= floor =>
         u \in Open /\ job[u].post = board[u].post /\ job[u].desc = board[u].desc]_vars

\* Every candidate on the board is in the table, under its current date.
Complete ==
  \A u \in Listed : board[u].cand => u \in Stored /\ job[u].post = board[u].post

\* As long as every run was fresh and met a board that stood still, the
\* window below the watermark is wide enough: no listed candidate is lost,
\* late postings dated back up to Lag days included.
NoGapAfterCleanRuns == [][fresh' # fresh /\ sound' => Complete]_vars

\* Absence is counted only by a sweep that walked 80% of the board, whatever
\* total the API advertised (over a board that stood still).
AbsenceIsEvidence ==
  [][pc = "sweep" /\ steady /\ (\E u \in Stored : job'[u].miss > job[u].miss) =>
       5 * scanned >= 4 * Cardinality(Listed)]_vars

\* Every stored posting has the record its raw_path names, on disk or in the
\* run's buffer: inserts come after the archive write, updates keep the path.
RawPathReadable ==
  \A u \in Stored : <<u, job[u].raw>> \in archived \cup buffer

\* The job keeps the lifecycle it promises: Lifecycle's sweep is the part of a
\* reconcile up to its close pass.
Sweeping == kind = "reconcile" /\ pc \in {"fetch", "upsert", "archive", "sweep"}

Status ==
  [u \in Uuid |-> IF u \notin Stored THEN "unknown"
                 ELSE IF u \in Open THEN "open" ELSE "closed"]

Absences == [u \in Uuid |-> IF u \in Stored THEN job[u].miss ELSE 0]

Ends == [u \in Uuid |-> IF u \in Stored THEN job[u].exp ELSE 0]

Sighted == IF Sweeping THEN seen ELSE {}

Promise == INSTANCE Lifecycle WITH
  AbsencesToClose <- 2, today <- day, status <- Status, absences <- Absences,
  ends <- Ends, sweeping <- Sweeping, sighted <- Sighted

ImplementsLifecycle == Promise!Spec

\* Once publishers and faults leave the board alone, the table follows it:
\* what is no longer advertised as a candidate ends up closed ...
Advertised(u) == board[u] # Gone /\ board[u].cand

GoneIsClosed ==
  \A u \in Uuid : <>[]~Advertised(u) => <>[](u \notin Open)

\* ... and what stays advertised ends up open, however late it was found and
\* whatever had closed it.
AdvertisedIsOpen ==
  \A u \in Uuid : <>[]Advertised(u) => <>[](u \in Open)
=============================================================================
