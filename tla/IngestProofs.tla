---------------------------- MODULE IngestProofs ----------------------------
(***************************************************************************)
(* Proofs about Ingest, for every set of postings, page size, week length, *)
(* window, bound and set of faults.                                        *)
(***************************************************************************)
EXTENDS Ingest, FiniteSetTheorems, TLAPS

\* Between runs the job remembers nothing.
Forgotten ==
  pc = "idle" => /\ known = {} /\ buffer = {} /\ todo = {} /\ seen = {}
                 /\ served = {} /\ owed = {} /\ ~failed /\ ~stop

\* What is left to upsert is on the board: the page was just fetched.
PageInHand ==
  /\ todo \subseteq Listed
  /\ pc # "upsert" => todo = {}

\* The uuids a reconcile knows are stored: rows are never deleted.
KnownIsStored == known \subseteq Stored

\* No posting was last seen in the future; today is never the NULL day.
SeenInThePast == day > 0 /\ \A u \in Stored : job[u].last <= day

\* A run that met no error has upserted every candidate it owes but those of
\* the current page, and a reconcile has noted it as seen.
OwedIsRecorded ==
  ~failed => \A u \in owed \ todo :
    u \in Open /\ job[u].last = day /\ (kind = "reconcile" => u \in seen)

\* It has also archived every record it owes, and closing the archive leaves
\* nothing in the buffer.
ServedIsArchived ==
  /\ ~failed => served \subseteq archived \cup buffer
  /\ pc \in {"sweep", "finish"} => buffer = {}

\* Only a reconcile without errors reaches the close pass.
SweepIsClean == pc = "sweep" => ~failed /\ kind = "reconcile"

IInv ==
  /\ TypeOK
  /\ Forgotten /\ PageInHand /\ KnownIsStored /\ SeenInThePast
  /\ OwedIsRecorded /\ ServedIsArchived /\ SweepIsClean
  /\ ClosedForAReason
-----------------------------------------------------------------------------
(* Types                                                                   *)

\* The day an offer is dated is the day of its listing.
LEMMA OfferType ==
  ASSUME NEW dates \in SUBSET Nat
  PROVE  Offers(dates) \subseteq Listing
<1> SUFFICES ASSUME NEW p \in dates, NEW t \in Terms, NEW c \in BOOLEAN, NEW d \in Desc
             PROVE  [post |-> p, exp |-> p + t, cand |-> c, desc |-> d] \in Listing
  BY DEF Offers
<1>1. p + t \in Nat
  BY IngestAssumption
<1> QED
  BY <1>1 DEF Listing

\* Pages and the board are finite, so they have a size.
LEMMA SizesAreNaturals ==
  /\ Cardinality(Listed) \in Nat
  /\ \A p \in Nat : Cardinality(PageOf(p)) \in Nat
<1>1. \A S \in SUBSET Uuid : Cardinality(S) \in Nat
  BY IngestAssumption, FS_Subset, FS_CardinalityType
<1> QED
  BY <1>1 DEF Listed, PageOf

\* The row UpsertJob writes is a row.
LEMMA UpsertedRowType ==
  ASSUME TypeOK, KnownIsStored, NEW u \in Listed
  PROVE  UpsertedRow(u) \in Row
<1>1. board[u] \in Listing /\ day \in Nat
  BY DEF TypeOK, Listed
<1>2. u \in known => job[u] \in Row
  BY DEF TypeOK, KnownIsStored, Stored
<1>3. (IF u \in known THEN job[u].raw ELSE board[u].desc) \in Desc
  BY <1>1, <1>2 DEF Row, Listing
<1> QED
  BY <1>1, <1>3 DEF UpsertedRow, RowOf, Row, Listing

\* The close pass leaves every row a row and no posting comes or goes.
LEMMA SweptRowType ==
  ASSUME TypeOK, NEW u \in Uuid
  PROVE  /\ u \in Stored => SweptRow(u) \in Row
         /\ u \notin Stored => SweptRow(u) = NoRow
<1>1. CASE u \notin Open \ seen
  BY <1>1 DEF SweptRow, Absent, TypeOK, Stored
<1>2. CASE u \in Open \ seen
  <2>1. job[u] \in Row /\ u \in Stored /\ day \in Nat
    BY <1>2 DEF Open, Stored, TypeOK
  <2>2. [job[u] EXCEPT !.closed = day, !.miss = 0] \in Row
    BY <2>1 DEF Row
  <2>3. \A m, c \in Nat : [job[u] EXCEPT !.miss = m, !.closed = c] \in Row
    BY <2>1 DEF Row
  <2>4. job[u].miss + 1 \in Nat /\ (IF job[u].miss + 1 >= 2 THEN day ELSE 0) \in Nat
    BY <2>1 DEF Row
  <2> QED
    BY <1>2, <2>1, <2>2, <2>3, <2>4 DEF SweptRow, Absent
<1> QED
  BY <1>1, <1>2

\* The job starts with values of the right types.
LEMMA InitType == Init => TypeOK
<1> SUFFICES ASSUME Init PROVE TypeOK
  OBVIOUS
<1>1. board \in [Uuid -> Listing \cup {Gone}]
  <2>1. 1..FirstDay \in SUBSET Nat
    BY IngestAssumption
  <2> QED
    BY <2>1, OfferType DEF Init
<1>2. job \in [Uuid -> Row \cup {NoRow}] /\ fresh \in [{"incremental", "reconcile"} -> Nat]
  BY DEF Init
<1>3. day \in Nat /\ attempts \in 0..MaxAttempts
  BY IngestAssumption DEF Init
<1> QED
  BY <1>1, <1>2, <1>3 DEF Init, TypeOK, Kinds

\* Every step keeps the types.  What a step leaves alone is in its UNCHANGED
\* and needs no mention.
LEMMA TypeStep ==
  ASSUME TypeOK, PageInHand, KnownIsStored, [Next]_vars
  PROVE  TypeOK'
<1> USE DEF TypeOK, boardVars, tableVars, scanVars, pageVars, historyVars
<1>1. ASSUME NEW u \in Uuid, ChangeListing(u) PROVE TypeOK'
  <2>1. PICK l \in {Gone} \cup Listing : board' = [board EXCEPT ![u] = l]
    <3>1. {p \in 1..day : p + Lag >= day} \in SUBSET Nat
      OBVIOUS
    <3>2. board[u] # Gone => {board[u].post} \in SUBSET Nat
      BY DEF Listing
    <3> QED
      BY <1>1, <3>1, <3>2, OfferType DEF ChangeListing
  <2> QED
    BY <1>1, <2>1 DEF ChangeListing
<1>2. ASSUME NextDay PROVE TypeOK'
  <2>1. day' \in Nat /\ attempts' \in 0..MaxAttempts
    BY <1>2, IngestAssumption DEF NextDay
  <2> QED
    BY <1>2, <2>1 DEF NextDay
<1>3. ASSUME Begin PROVE TypeOK'
  <2>1. PICK w \in Watermarks :
          floor' = IF kind' = "incremental" THEN FloorBelow(w) ELSE 0
    BY <1>3 DEF Begin
  <2>2. w \in Nat
    BY DEF Watermarks, Stored, Row
  <2>3. floor' \in Nat
    BY <2>1, <2>2, IngestAssumption DEF FloorBelow
  <2>4. known' \subseteq Uuid /\ kind' \in Kinds /\ attempts' \in 0..MaxAttempts
    BY <1>3, IngestAssumption DEF Begin, Stored, Kinds
  <2> QED
    BY <1>3, <2>3, <2>4 DEF Begin
<1>4. ASSUME BeginFails PROVE TypeOK'
  <2>1. attempts' \in 0..MaxAttempts /\ faults' \in Nat
    BY <1>4, IngestAssumption DEF BeginFails, Strikes
  <2> QED
    BY <1>4, <2>1 DEF BeginFails
<1>5. ASSUME NEW lost \in SUBSET PageOf(page), FetchPage(lost) PROVE TypeOK'
  <2>1. PageOf(page) \subseteq Listed /\ Listed \subseteq Uuid
    BY DEF PageOf, Listed
  <2>2. \A u \in Listed : board[u].desc \in Desc
    BY DEF Listed, Listing
  <2>3. {<<u, board[u].desc>> : u \in PageOf(page) \ known} \subseteq Uuid \X Desc
    BY <2>1, <2>2
  <2>4. buffer' \subseteq Uuid \X Desc /\ served' \subseteq Uuid \X Desc
    BY <1>5, <2>3 DEF FetchPage
  <2>5. todo' \subseteq Uuid /\ owed' \subseteq Uuid
    BY <1>5, <2>1 DEF FetchPage
  <2>6. maxTotal' \in Nat /\ faults' \in Nat
    BY <1>5, SizesAreNaturals DEF FetchPage, TotalSeen, Strikes
  <2>7. stop' \in BOOLEAN /\ failed' \in BOOLEAN
    BY <1>5 DEF FetchPage
  <2> QED
    BY <1>5, <2>4, <2>5, <2>6, <2>7 DEF FetchPage
<1>6. ASSUME FetchEmptyPage PROVE TypeOK'
  BY <1>6, SizesAreNaturals DEF FetchEmptyPage, TotalSeen
<1>7. ASSUME FetchTruncatedPage PROVE TypeOK'
  BY <1>7, SizesAreNaturals DEF FetchTruncatedPage, TotalSeen, Strikes
<1>8. ASSUME FetchFails PROVE TypeOK'
  BY <1>8 DEF FetchFails, Strikes
<1>9. ASSUME NEW u \in Uuid, Upsert(u) PROVE TypeOK'
  <2>1. UpsertedRow(u) \in Row
    BY <1>9, UpsertedRowType DEF Upsert, IsNext, PageInHand
  <2> QED
    BY <1>9, <2>1 DEF Upsert
<1>10. ASSUME NEW u \in Uuid, UpsertFails(u) PROVE TypeOK'
  BY <1>10 DEF UpsertFails, Strikes
<1>11. ASSUME EndPage PROVE TypeOK'
  <2>1. scanned' \in Nat /\ page' \in Nat
    BY <1>11, SizesAreNaturals DEF EndPage
  <2> QED
    BY <1>11, <2>1 DEF EndPage
<1>12. ASSUME CloseArchive PROVE TypeOK'
  BY <1>12 DEF CloseArchive, AfterArchive
<1>13. ASSUME CloseArchiveFails PROVE TypeOK'
  BY <1>13 DEF CloseArchiveFails, AfterArchive, Strikes
<1>14. ASSUME MissAndClose PROVE TypeOK'
  <2>1. job' \in [Uuid -> Row \cup {NoRow}]
    BY <1>14, SweptRowType DEF MissAndClose
  <2> QED
    BY <1>14, <2>1 DEF MissAndClose
<1>15. ASSUME MissAndCloseFails PROVE TypeOK'
  BY <1>15 DEF MissAndCloseFails, Strikes
<1>16. ASSUME Finish PROVE TypeOK'
  <2>1. fresh' \in [{"incremental", "reconcile"} -> Nat]
    BY <1>16 DEF Finish
  <2>2. attempts' \in 0..MaxAttempts
    BY <1>16, IngestAssumption DEF Finish
  <2> QED
    BY <1>16, <2>1, <2>2 DEF Finish, Forget, Kinds
<1>17. ASSUME FinishFails PROVE TypeOK'
  <2>1. faults' \in Nat
    BY <1>17 DEF FinishFails, Strikes
  <2> QED
    BY <1>17, <2>1 DEF FinishFails, Forget, Kinds
<1>18. ASSUME Crash PROVE TypeOK'
  <2>1. faults' \in Nat /\ archived' \subseteq Uuid \X Desc
    BY <1>18 DEF Crash, Strikes
  <2> QED
    BY <1>18, <2>1 DEF Crash, Forget, Kinds
<1>19. ASSUME UNCHANGED vars PROVE TypeOK'
  BY <1>19 DEF vars
<1> QED
  BY <1>1, <1>2, <1>3, <1>4, <1>5, <1>6, <1>7, <1>8, <1>9, <1>10, <1>11,
     <1>12, <1>13, <1>14, <1>15, <1>16, <1>17, <1>18, <1>19 DEF Next
-----------------------------------------------------------------------------
(* Rows and runs                                                           *)

\* A posting once stored stays stored.
LEMMA RowsStay ==
  ASSUME TypeOK, PageInHand, KnownIsStored, [Next]_vars
  PROVE  Stored \subseteq Stored'
<1> SUFFICES ASSUME NEW u \in Uuid, job[u] # NoRow PROVE job'[u] # NoRow
  BY DEF Stored
<1>1. CASE \E v \in Uuid : Upsert(v)
  <2>1. PICK v \in Uuid : Upsert(v)
    BY <1>1
  <2>2. UpsertedRow(v) # NoRow
    BY <2>1, UpsertedRowType, IngestAssumption DEF Upsert, IsNext, PageInHand
  <2> QED
    BY <2>1, <2>2 DEF Upsert, TypeOK
<1>2. CASE MissAndClose
  BY <1>2, SweptRowType, IngestAssumption DEF MissAndClose, Stored
<1>3. CASE UNCHANGED job
  BY <1>3
<1> QED
  BY <1>1, <1>2, <1>3
  DEF Next, vars, boardVars, tableVars, ChangeListing, NextDay, Begin, BeginFails,
      FetchPage, FetchEmptyPage, FetchTruncatedPage, FetchFails, UpsertFails,
      EndPage, CloseArchive, CloseArchiveFails, MissAndCloseFails, Finish,
      FinishFails, Crash

\* What was known when the reconcile began is stored for as long as it runs.
LEMMA KnownStep ==
  ASSUME TypeOK, PageInHand, KnownIsStored, [Next]_vars
  PROVE  KnownIsStored'
<1>1. known' \subseteq Stored
  BY DEF KnownIsStored, Next, vars, scanVars, ChangeListing, NextDay, Begin,
     BeginFails, FetchPage, FetchEmptyPage, FetchTruncatedPage, FetchFails, Upsert,
     UpsertFails, EndPage, CloseArchive, CloseArchiveFails, MissAndClose,
     MissAndCloseFails, Finish, FinishFails, Crash, Forget
<1> QED
  BY <1>1, RowsStay DEF KnownIsStored

\* The board does not change under a page, and a page is done before the next.
LEMMA PageStep ==
  ASSUME TypeOK, PageInHand, [Next]_vars
  PROVE  PageInHand'
<1> USE DEF PageInHand, boardVars, scanVars, pageVars
<1>1. ASSUME NEW u \in Uuid, ChangeListing(u) PROVE PageInHand'
  BY <1>1 DEF ChangeListing
<1>2. ASSUME NEW lost \in SUBSET PageOf(page), FetchPage(lost) PROVE PageInHand'
  BY <1>2 DEF FetchPage, Listed, PageOf
<1>3. CASE (\E u \in Uuid : Upsert(u) \/ UpsertFails(u)) \/ EndPage
  BY <1>3 DEF Upsert, UpsertFails, EndPage, Listed
<1>4. CASE \/ NextDay \/ Begin \/ BeginFails \/ FetchEmptyPage \/ FetchTruncatedPage
           \/ FetchFails \/ CloseArchive \/ CloseArchiveFails \/ MissAndClose
           \/ MissAndCloseFails \/ UNCHANGED vars
  BY <1>4 DEF NextDay, Begin, BeginFails, FetchEmptyPage, FetchTruncatedPage,
     FetchFails, CloseArchive, CloseArchiveFails, MissAndClose, MissAndCloseFails,
     vars, Listed
<1>5. CASE Finish \/ FinishFails \/ Crash
  BY <1>5 DEF Finish, FinishFails, Crash, Forget
<1> QED
  BY <1>1, <1>2, <1>3, <1>4, <1>5 DEF Next

\* A run that ends, one way or the other, forgets.
LEMMA ForgottenStep ==
  ASSUME TypeOK, Forgotten, [Next]_vars
  PROVE  Forgotten'
<1> USE DEF Forgotten, scanVars, pageVars, historyVars
<1>1. CASE \/ NextDay \/ BeginFails \/ (\E u \in Uuid : ChangeListing(u))
           \/ UNCHANGED vars
  BY <1>1 DEF NextDay, BeginFails, ChangeListing, vars
<1>2. CASE Finish \/ FinishFails \/ Crash
  BY <1>2 DEF Finish, FinishFails, Crash, Forget
<1>3. CASE \/ Begin \/ (\E lost \in SUBSET PageOf(page) : FetchPage(lost))
           \/ FetchEmptyPage \/ FetchTruncatedPage \/ FetchFails
           \/ (\E u \in Uuid : Upsert(u) \/ UpsertFails(u)) \/ EndPage
           \/ CloseArchive \/ CloseArchiveFails \/ MissAndClose \/ MissAndCloseFails
  BY <1>3 DEF Begin, FetchPage, FetchEmptyPage, FetchTruncatedPage, FetchFails,
     Upsert, UpsertFails, EndPage, CloseArchive, CloseArchiveFails, AfterArchive,
     MissAndClose, MissAndCloseFails
<1> QED
  BY <1>1, <1>2, <1>3 DEF Next

\* The close gate is decided when the archive is closed.
LEMMA SweepStep ==
  ASSUME TypeOK, SweepIsClean, [Next]_vars
  PROVE  SweepIsClean'
BY DEF TypeOK, SweepIsClean, Next, vars, scanVars, pageVars, ChangeListing, NextDay,
   Begin, BeginFails, FetchPage, FetchEmptyPage, FetchTruncatedPage, FetchFails,
   Upsert, UpsertFails, EndPage, CloseArchive, CloseArchiveFails, AfterArchive,
   MissAndClose, MissAndCloseFails, Finish, FinishFails, Crash, Forget

\* The job table changes by an upsert or by a close pass, and no other way.
LEMMA TableSteps ==
  ASSUME [Next]_vars
  PROVE  \/ \E u \in Uuid : Upsert(u)
         \/ MissAndClose
         \/ UNCHANGED job
BY DEF Next, vars, boardVars, tableVars, ChangeListing, NextDay, Begin, BeginFails,
   FetchPage, FetchEmptyPage, FetchTruncatedPage, FetchFails, UpsertFails, EndPage,
   CloseArchive, CloseArchiveFails, MissAndCloseFails, Finish, FinishFails, Crash

\* The day never goes back, and it stands still while a run is under way.
LEMMA DaySteps ==
  ASSUME TypeOK, [Next]_vars
  PROVE  /\ day' \in Nat /\ day <= day'
         /\ pc # "idle" => day' = day
<1>1. CASE NextDay
  BY <1>1 DEF NextDay, TypeOK
<1>2. CASE UNCHANGED day
  BY <1>2 DEF TypeOK
<1> QED
  BY <1>1, <1>2
  DEF Next, vars, boardVars, ChangeListing, Begin, BeginFails, FetchPage,
      FetchEmptyPage, FetchTruncatedPage, FetchFails, Upsert, UpsertFails, EndPage,
      CloseArchive, CloseArchiveFails, MissAndClose, MissAndCloseFails, Finish,
      FinishFails, Crash

\* What an upsert leaves in the table.
LEMMA UpsertEffect ==
  ASSUME TypeOK, PageInHand, KnownIsStored, NEW u \in Uuid, Upsert(u)
  PROVE  /\ u \in Listed
         /\ job' = [job EXCEPT ![u] = UpsertedRow(u)]
         /\ UpsertedRow(u) \in Row /\ UpsertedRow(u) # NoRow
         /\ UpsertedRow(u).last = day
         /\ UpsertedRow(u).closed = 0 /\ UpsertedRow(u).miss = 0
         /\ Stored' = Stored \cup {u}
         /\ Open' = Open \cup {u}
<1>1. u \in Listed
  BY DEF Upsert, IsNext, PageInHand
<1>2. UpsertedRow(u) \in Row /\ UpsertedRow(u) # NoRow
  BY <1>1, UpsertedRowType, IngestAssumption
<1>3. UpsertedRow(u).last = day /\ UpsertedRow(u).closed = 0 /\ UpsertedRow(u).miss = 0
  BY DEF UpsertedRow, RowOf
<1>4. job' = [job EXCEPT ![u] = UpsertedRow(u)]
  BY DEF Upsert
<1>5. Stored' = Stored \cup {u}
  BY <1>2, <1>4 DEF Stored, TypeOK
<1>6. Open' = Open \cup {u}
  BY <1>3, <1>4, <1>5 DEF Open, Stored, TypeOK
<1> QED
  BY <1>1, <1>2, <1>3, <1>4, <1>5, <1>6

\* What a close pass does to a row: closes it as expired, counts a miss, or
\* leaves it alone; and it leaves alone what is closed or was seen.
LEMMA SweepEffect ==
  ASSUME TypeOK, MissAndClose, NEW u \in Stored
  PROVE  /\ u \in Stored' /\ job'[u] \in Row
         /\ job'[u].last = job[u].last /\ job'[u].exp = job[u].exp
         /\ u \notin Open \ seen => job'[u] = job[u]
         /\ u \in Open \ seen =>
              \/ job[u].exp < day /\ job'[u].closed = day /\ job'[u].miss = 0
              \/ job[u].exp >= day /\ ~Covered /\ job'[u] = job[u]
              \/ /\ job[u].exp >= day /\ Covered /\ job'[u].miss = job[u].miss + 1
                 /\ job'[u].closed = IF job[u].miss + 1 >= 2 THEN day ELSE 0
<1>1. u \in Uuid /\ job[u] \in Row /\ day \in Nat
  BY DEF Stored, TypeOK
<1>2. job'[u] = SweptRow(u)
  BY <1>1 DEF MissAndClose
<1>3. job'[u] \in Row /\ job'[u] # NoRow
  BY <1>1, <1>2, SweptRowType, IngestAssumption
<1>4. u \in Stored'
  BY <1>1, <1>3 DEF Stored
<1>5. CASE u \notin Open \ seen
  BY <1>2, <1>3, <1>4, <1>5 DEF SweptRow, Absent
<1>6. CASE u \in Open \ seen /\ job[u].exp < day
  BY <1>1, <1>2, <1>3, <1>4, <1>6 DEF SweptRow, Absent, Row
<1>7. CASE u \in Open \ seen /\ ~(job[u].exp < day) /\ ~Covered
  BY <1>1, <1>2, <1>3, <1>4, <1>7 DEF SweptRow, Absent, Row
<1>8. CASE u \in Open \ seen /\ ~(job[u].exp < day) /\ Covered
  BY <1>1, <1>2, <1>3, <1>4, <1>8 DEF SweptRow, Absent, Row
<1> QED
  BY <1>5, <1>6, <1>7, <1>8

\* last_seen_at is the clock of the upsert, and the clock does not go back.
LEMMA SeenInThePastStep ==
  ASSUME TypeOK, PageInHand, KnownIsStored, SeenInThePast, [Next]_vars
  PROVE  SeenInThePast'
<1>0. day' > 0
  BY DaySteps DEF SeenInThePast, TypeOK
<1> SUFFICES ASSUME NEW u \in Stored' PROVE job'[u].last <= day'
  BY <1>0 DEF SeenInThePast
<1>1. u \in Uuid /\ (u \in Stored => job[u] \in Row /\ job[u].last <= day)
  BY DEF Stored, TypeOK, SeenInThePast
<1>2. CASE \E v \in Uuid : Upsert(v)
  <2>1. PICK v \in Uuid : Upsert(v)
    BY <1>2
  <2>2. day' = day
    BY <2>1 DEF Upsert, boardVars
  <2>3. CASE u = v
    BY <2>1, <2>2, <2>3, UpsertEffect DEF TypeOK
  <2>4. CASE u # v
    BY <2>1, <2>2, <2>4, <1>1, UpsertEffect DEF TypeOK
  <2> QED
    BY <2>3, <2>4
<1>3. CASE MissAndClose
  <2>1. u \in Stored
    BY <1>1, <1>3, SweptRowType DEF MissAndClose, Stored
  <2> QED
    BY <1>1, <1>3, <2>1, SweepEffect, DaySteps DEF MissAndClose, boardVars
<1>4. CASE UNCHANGED job
  <2>1. u \in Stored
    BY <1>1, <1>4 DEF Stored
  <2>2. job[u].last \in Nat
    BY <1>1, <2>1 DEF Row
  <2> QED
    BY <1>1, <1>4, <2>1, <2>2, DaySteps DEF TypeOK
<1> QED
  BY <1>2, <1>3, <1>4, TableSteps
-----------------------------------------------------------------------------
(* The lifecycle of a row                                                  *)

\* The reason on record of one row.
HasReason(row, today) ==
  IF row.closed = 0 THEN row.miss < 2
  ELSE /\ row.last <= row.closed /\ row.closed <= today
       /\ row.miss = 2 \/ row.exp < row.closed

\* An upsert clears the reason, a close pass gives one, nothing else matters.
LEMMA ReasonStep ==
  ASSUME TypeOK, PageInHand, KnownIsStored, SeenInThePast, ClosedForAReason, [Next]_vars
  PROVE  ClosedForAReason'
<1> SUFFICES ASSUME NEW u \in Stored' PROVE HasReason(job'[u], day')
  BY DEF ClosedForAReason, HasReason
<1>1. u \in Uuid /\ day \in Nat /\ day > 0 /\ day' \in Nat /\ day <= day'
  BY DaySteps DEF Stored, TypeOK, SeenInThePast
<1>2. u \in Stored => /\ job[u] \in Row /\ job[u].last <= day
                      /\ HasReason(job[u], day)
  BY DEF Stored, TypeOK, SeenInThePast, ClosedForAReason, HasReason
<1>3. CASE \E v \in Uuid : Upsert(v)
  <2>1. PICK v \in Uuid : Upsert(v)
    BY <1>3
  <2>2. day' = day
    BY <2>1 DEF Upsert, boardVars
  <2>3. CASE u = v
    BY <2>1, <2>3, UpsertEffect DEF TypeOK, HasReason
  <2>4. CASE u # v
    BY <1>1, <1>2, <2>1, <2>2, <2>4, UpsertEffect DEF TypeOK
  <2> QED
    BY <2>3, <2>4
<1>4. CASE MissAndClose
  <2>1. u \in Stored
    BY <1>1, <1>4, SweptRowType DEF MissAndClose, Stored
  <2>2. day' = day
    BY <1>4 DEF MissAndClose, boardVars
  <2>3. CASE u \notin Open \ seen
    BY <1>2, <1>4, <2>1, <2>2, <2>3, SweepEffect
  <2>4. CASE u \in Open \ seen
    <3>1. job[u].closed = 0 /\ job[u].miss \in Nat /\ job[u].miss < 2
      BY <1>2, <2>1, <2>4 DEF Open, HasReason, Row
    <3>2. job[u].exp \in Nat /\ job[u].last \in Nat /\ job'[u] \in Row
      BY <1>2, <1>4, <2>1, SweepEffect DEF Row
    <3>3. CASE job[u].exp < day /\ job'[u].closed = day /\ job'[u].miss = 0
      BY <1>1, <1>2, <1>4, <2>1, <2>2, <3>1, <3>2, <3>3, SweepEffect DEF HasReason
    <3>4. CASE job'[u] = job[u]
      BY <1>2, <2>1, <2>2, <3>4
    <3>5. CASE /\ job'[u].miss = job[u].miss + 1
               /\ job'[u].closed = IF job[u].miss + 1 >= 2 THEN day ELSE 0
      BY <1>1, <1>2, <1>4, <2>1, <2>2, <3>1, <3>2, <3>5, SweepEffect DEF HasReason
    <3> QED
      BY <1>4, <2>1, <2>4, <3>3, <3>4, <3>5, SweepEffect
  <2> QED
    BY <2>3, <2>4
<1>5. CASE UNCHANGED job
  <2>1. u \in Stored
    BY <1>1, <1>5 DEF Stored
  <2>2. job[u].last \in Nat /\ job[u].closed \in Nat
    BY <1>2, <2>1 DEF Row
  <2> QED
    BY <1>1, <1>2, <1>5, <2>1, <2>2 DEF HasReason
<1> QED
  BY <1>3, <1>4, <1>5, TableSteps
-----------------------------------------------------------------------------
(* What a run owes                                                         *)

\* A run without errors keeps its record of what it owes: an upsert takes a
\* candidate from the page to the table, a close pass spares what was seen.
LEMMA OwedStep ==
  ASSUME IInv, [Next]_vars
  PROVE  OwedIsRecorded'
<1> USE DEF IInv
<1> SUFFICES ASSUME ~failed', NEW u \in owed' \ todo'
             PROVE  u \in Open' /\ job'[u].last = day' /\ (kind' = "reconcile" => u \in seen')
  BY DEF OwedIsRecorded
<1> DEFINE Rec == u \in Open /\ job[u].last = day /\ (kind = "reconcile" => u \in seen)
<1>1. ~failed /\ u \in owed \ todo => Rec
  BY DEF OwedIsRecorded
<1>2. CASE \E v \in Uuid : Upsert(v)
  <2>1. PICK v \in Uuid : Upsert(v)
    BY <1>2
  <2>2. /\ owed' = owed /\ todo' = todo \ {v} /\ failed' = failed /\ kind' = kind
        /\ day' = day /\ seen' = IF kind = "reconcile" THEN seen \cup {v} ELSE seen
    BY <2>1 DEF Upsert, boardVars, scanVars, historyVars
  <2>3. CASE u = v
    BY <2>1, <2>2, <2>3, UpsertEffect DEF TypeOK
  <2>4. CASE u # v
    BY <1>1, <2>1, <2>2, <2>4, UpsertEffect DEF TypeOK
  <2> QED
    BY <2>3, <2>4
<1>3. CASE MissAndClose
  <2>1. /\ owed' = owed /\ todo' = todo /\ failed' = failed /\ kind' = kind
        /\ day' = day /\ seen' = seen /\ kind = "reconcile"
    BY <1>3 DEF MissAndClose, boardVars, scanVars, historyVars, SweepIsClean
  <2>2. Rec /\ u \in Stored
    BY <1>1, <2>1 DEF Open
  <2>3. job'[u] = job[u] /\ u \in Stored'
    BY <1>3, <2>1, <2>2, SweepEffect
  <2> QED
    BY <2>1, <2>2, <2>3 DEF Open
<1>4. ASSUME NEW lost \in SUBSET PageOf(page), FetchPage(lost)
      PROVE  u \in Open' /\ job'[u].last = day' /\ (kind' = "reconcile" => u \in seen')
  <2>1. lost = {} /\ ~failed
    BY <1>4 DEF FetchPage
  <2>2. u \in owed \ todo
    BY <1>4, <2>1 DEF FetchPage, Kept, PageInHand
  <2> QED
    BY <1>1, <1>4, <2>1, <2>2 DEF FetchPage, Open, Stored, boardVars, tableVars
<1>5. CASE Begin
  BY <1>5 DEF Begin, Forgotten, historyVars, pageVars
<1>6. CASE NextDay \/ BeginFails \/ (\E v \in Uuid : ChangeListing(v) /\ pc = "idle")
  BY <1>6 DEF NextDay, BeginFails, ChangeListing, Forgotten, historyVars, pageVars
<1>7. CASE (\E v \in Uuid : ChangeListing(v) /\ pc # "idle") \/ UNCHANGED vars
  <2>1. /\ owed' = owed /\ todo' = todo /\ failed' = failed /\ kind' = kind
        /\ day' = day /\ seen' = seen /\ job' = job
    BY <1>7 DEF ChangeListing, vars, boardVars, tableVars, scanVars, pageVars, historyVars
  <2> QED
    BY <1>1, <2>1 DEF Open, Stored
<1>8. CASE FetchEmptyPage \/ FetchTruncatedPage \/ EndPage \/ CloseArchive
  BY <1>1, <1>8 DEF FetchEmptyPage, FetchTruncatedPage, EndPage, CloseArchive,
     boardVars, tableVars, scanVars, pageVars, historyVars, Open, Stored
<1>9. CASE \/ FetchFails \/ (\E v \in Uuid : UpsertFails(v)) \/ CloseArchiveFails
           \/ MissAndCloseFails
  BY <1>9 DEF FetchFails, UpsertFails, CloseArchiveFails, MissAndCloseFails
<1>10. CASE Finish \/ FinishFails \/ Crash
  BY <1>10 DEF Finish, FinishFails, Crash, Forget
<1> QED
  BY <1>2, <1>3, <1>4, <1>5, <1>6, <1>7, <1>8, <1>9, <1>10 DEF Next

\* Nothing leaves the archive or, before the archive is closed, the buffer.
LEMMA ServedStep ==
  ASSUME IInv, [Next]_vars
  PROVE  ServedIsArchived'
<1> USE DEF IInv
<1>1. ASSUME NEW lost \in SUBSET PageOf(page), FetchPage(lost)
      PROVE  ServedIsArchived'
  <2>1. ASSUME ~failed'
        PROVE  served' \subseteq archived' \cup buffer'
    <3>1. lost = {} /\ ~failed
      BY <1>1, <2>1 DEF FetchPage
    <3>2. /\ served' = served \cup {<<u, board[u].desc>> : u \in PageOf(page) \ known}
          /\ buffer' = buffer \cup {<<u, board[u].desc>> : u \in PageOf(page) \ known}
          /\ archived' = archived
      BY <1>1, <3>1 DEF FetchPage, tableVars
    <3> QED
      BY <3>1, <3>2 DEF ServedIsArchived
  <2> QED
    BY <1>1, <2>1 DEF FetchPage, ServedIsArchived
<1>2. CASE CloseArchive \/ CloseArchiveFails
  BY <1>2 DEF CloseArchive, CloseArchiveFails, ServedIsArchived, historyVars
<1>3. CASE Begin
  BY <1>3 DEF Begin, ServedIsArchived, Forgotten, historyVars, pageVars
<1>4. CASE Finish \/ FinishFails \/ Crash
  BY <1>4 DEF Finish, FinishFails, Crash, Forget, ServedIsArchived
<1>5. CASE \/ NextDay \/ BeginFails \/ (\E u \in Uuid : ChangeListing(u)) \/ UNCHANGED vars
  <2>1. /\ served' = served /\ archived' = archived /\ buffer' = buffer
        /\ failed' = failed /\ pc' = pc
    BY <1>5 DEF NextDay, BeginFails, ChangeListing, vars, tableVars, pageVars, historyVars
  <2> QED
    BY <2>1 DEF ServedIsArchived
<1>6. CASE \/ FetchEmptyPage \/ FetchTruncatedPage \/ EndPage
           \/ (\E u \in Uuid : Upsert(u))
  <2>1. CASE EndPage
    BY <2>1 DEF EndPage, ServedIsArchived, tableVars, historyVars
  <2>2. CASE FetchEmptyPage \/ FetchTruncatedPage \/ (\E u \in Uuid : Upsert(u))
    BY <2>2 DEF FetchEmptyPage, FetchTruncatedPage, Upsert, ServedIsArchived, tableVars,
       pageVars, historyVars
  <2> QED
    BY <1>6, <2>1, <2>2
<1>7. CASE FetchFails \/ (\E u \in Uuid : UpsertFails(u))
  BY <1>7 DEF FetchFails, UpsertFails, ServedIsArchived
<1>8. CASE MissAndClose \/ MissAndCloseFails
  <2>1. /\ served' = served /\ archived' = archived /\ buffer' = buffer
        /\ (~failed' => ~failed) /\ pc = "sweep"
    BY <1>8 DEF MissAndClose, MissAndCloseFails, tableVars, historyVars
  <2> QED
    BY <2>1 DEF ServedIsArchived
<1> QED
  BY <1>1, <1>2, <1>3, <1>4, <1>5, <1>6, <1>7, <1>8 DEF Next
-----------------------------------------------------------------------------
(* The inductive invariant                                                 *)

\* IInv holds at the start and is kept by every step.
LEMMA Inductive ==
  /\ Init => IInv
  /\ IInv /\ [Next]_vars => IInv'
<1>1. ASSUME Init PROVE IInv
  <2>1. TypeOK
    BY <1>1, InitType
  <2>2. Stored = {} /\ day > 0
    BY <1>1, IngestAssumption DEF Init, Stored
  <2> QED
    BY <1>1, <2>1, <2>2
    DEF Init, IInv, Forgotten, PageInHand, KnownIsStored, SeenInThePast,
        OwedIsRecorded, ServedIsArchived, SweepIsClean, ClosedForAReason
<1>2. ASSUME IInv, [Next]_vars PROVE IInv'
  <2>1. TypeOK' /\ Forgotten' /\ PageInHand' /\ KnownIsStored'
    BY <1>2, TypeStep, ForgottenStep, PageStep, KnownStep DEF IInv
  <2>2. SeenInThePast' /\ SweepIsClean' /\ ClosedForAReason'
    BY <1>2, SeenInThePastStep, SweepStep, ReasonStep DEF IInv
  <2>3. OwedIsRecorded' /\ ServedIsArchived'
    BY <1>2, OwedStep, ServedStep
  <2> QED
    BY <2>1, <2>2, <2>3 DEF IInv
<1> QED
  BY <1>1, <1>2

\* The strengthening under which every safety result below is proved.
THEOREM Invariance == Spec => []IInv
<1> QED
  BY Inductive, PTL DEF Spec

\* Every reachable state has values of the declared types.
THEOREM TypeCorrect == Spec => []TypeOK
<1>1. IInv => TypeOK
  BY DEF IInv
<1> QED
  BY <1>1, Invariance, PTL

\* No posting is ever closed without its reason on record, and no reason is on
\* record for an open one, whatever fails and wherever the job is killed.
THEOREM ReasonOnRecord == Spec => []ClosedForAReason
<1>1. IInv => ClosedForAReason
  BY DEF IInv
<1> QED
  BY <1>1, Invariance, PTL
-----------------------------------------------------------------------------
(* Action properties                                                       *)

\* No close pass ever touches a posting its sweep was served, for any board,
\* page size and combination of failed writes and upserts.
THEOREM SweepSparesServed == Spec => ServedIsNeverMissed
<1>1. ASSUME IInv, [Next]_vars, pc = "sweep", NEW u \in owed
      PROVE  job'[u] = job[u] /\ u \in Open
  <2>1. ~failed /\ kind = "reconcile" /\ todo = {}
    BY <1>1 DEF IInv, SweepIsClean, PageInHand
  <2>2. u \in Open /\ u \in seen
    BY <1>1, <2>1 DEF IInv, OwedIsRecorded
  <2>3. CASE MissAndClose
    BY <1>1, <2>2, <2>3, SweepEffect DEF IInv, Open
  <2>4. CASE UNCHANGED job
    BY <2>2, <2>4
  <2> QED
    BY <1>1, <2>2, <2>3, <2>4, TableSteps DEF Upsert
<1>2. IInv /\ [Next]_vars => [pc = "sweep" => \A u \in owed : job'[u] = job[u] /\ u \in Open]_vars
  BY <1>1
<1> QED
  BY <1>2, Invariance, PTL DEF Spec, ServedIsNeverMissed

\* Only the last step of a run that met no error moves the freshness stamp.
LEMMA FreshStep ==
  ASSUME [Next]_vars, fresh' # fresh
  PROVE  Finish
BY DEF Next, vars, tableVars, ChangeListing, NextDay, Begin, BeginFails, FetchPage,
   FetchEmptyPage, FetchTruncatedPage, FetchFails, Upsert, UpsertFails, EndPage,
   CloseArchive, CloseArchiveFails, MissAndClose, MissAndCloseFails, FinishFails, Crash

\* The staleness alert is right to trust LastSuccess: a run that stamps it has
\* recorded and archived everything it was served.
THEOREM FreshIsRecorded == Spec => FreshMeansRecorded
<1>1. ASSUME IInv, [Next]_vars, fresh' # fresh
      PROVE  /\ \A u \in owed : u \in Open /\ job[u].last = day
             /\ served \subseteq archived
  <2>1. Finish
    BY <1>1, FreshStep
  <2>2. pc = "finish" /\ ~failed
    <3>1. CASE failed
      <4>1. fresh' = [k \in DOMAIN fresh |-> fresh[k]]
        BY <2>1, <3>1 DEF Finish, Stamps
      <4>2. fresh' = fresh
        BY <1>1, <4>1 DEF IInv, TypeOK
      <4> QED
        BY <1>1, <4>2
    <3> QED
      BY <2>1, <3>1 DEF Finish, Stamps
  <2>3. todo = {} /\ buffer = {}
    BY <1>1, <2>2 DEF IInv, PageInHand, ServedIsArchived
  <2> QED
    BY <1>1, <2>2, <2>3 DEF IInv, OwedIsRecorded, ServedIsArchived
<1>2. IInv /\ [Next]_vars =>
        [fresh' # fresh => /\ \A u \in owed : u \in Open /\ job[u].last = day
                           /\ served \subseteq archived]_vars
  BY <1>1
<1> QED
  BY <1>2, Invariance, PTL DEF Spec, FreshMeansRecorded
-----------------------------------------------------------------------------
(* The archive behind the table                                            *)

\* What is left to upsert and not known was written to the archive first.
ArchivedFirst == \A u \in todo \ known : <<u, board[u].desc>> \in buffer

\* The callback archives a page before it upserts any of it.
LEMMA ArchivedFirstStep ==
  ASSUME IInv, ArchivedFirst, [Next]_vars
  PROVE  ArchivedFirst'
<1> USE DEF IInv
<1> SUFFICES ASSUME NEW u \in todo' \ known' PROVE <<u, board'[u].desc>> \in buffer'
  BY DEF ArchivedFirst
<1>1. pc' = "upsert"
  BY PageStep DEF PageInHand
<1>2. ASSUME NEW lost \in SUBSET PageOf(page), FetchPage(lost)
      PROVE  <<u, board'[u].desc>> \in buffer'
  BY <1>2 DEF FetchPage, Kept, boardVars
<1>3. CASE \E v \in Uuid : Upsert(v) \/ UpsertFails(v)
  BY <1>3 DEF Upsert, UpsertFails, ArchivedFirst, boardVars, scanVars
<1>4. CASE UNCHANGED vars
  BY <1>4 DEF vars, boardVars, scanVars, pageVars, ArchivedFirst
<1>5. \/ pc' # "upsert" \/ UNCHANGED vars
      \/ \E v \in Uuid : Upsert(v) \/ UpsertFails(v)
      \/ \E lost \in SUBSET PageOf(page) : FetchPage(lost)
  BY DEF Next, ChangeListing, NextDay, Begin, BeginFails, FetchEmptyPage,
     FetchTruncatedPage, FetchFails, EndPage, CloseArchive, CloseArchiveFails,
     AfterArchive, MissAndClose, MissAndCloseFails, Finish, FinishFails, Crash, Forget
<1> QED
  BY <1>1, <1>2, <1>3, <1>4, <1>5

\* An insert names a record of the buffer, an update keeps the path it had.
LEMMA RawPathStep ==
  ASSUME Faults \cap {"flush", "crash"} = {},
         IInv, ArchivedFirst, RawPathReadable, [Next]_vars
  PROVE  RawPathReadable'
<1> USE DEF IInv
<1> SUFFICES ASSUME NEW u \in Stored' PROVE <<u, job'[u].raw>> \in archived' \cup buffer'
  BY DEF RawPathReadable
<1>1. archived \cup buffer \subseteq archived' \cup buffer'
  <2>1. CASE Finish \/ FinishFails
    BY <2>1 DEF Finish, FinishFails, ServedIsArchived, tableVars
  <2>2. ~CloseArchiveFails /\ ~Crash
    BY DEF CloseArchiveFails, Crash, Strikes
  <2>3. CASE UNCHANGED vars
    BY <2>3 DEF vars, tableVars, pageVars
  <2> QED
    BY <2>1, <2>2, <2>3
    DEF Next, tableVars, pageVars, ChangeListing, NextDay, Begin, BeginFails, FetchPage,
        FetchEmptyPage, FetchTruncatedPage, FetchFails, Upsert, UpsertFails, EndPage,
        CloseArchive, MissAndClose, MissAndCloseFails
<1>2. u \in Uuid /\ (u \in Stored => <<u, job[u].raw>> \in archived \cup buffer)
  BY DEF Stored, RawPathReadable
<1>3. CASE \E v \in Uuid : Upsert(v)
  <2>1. PICK v \in Uuid : Upsert(v)
    BY <1>3
  <2>2. v \in todo /\ (v \in known => v \in Stored)
    BY <2>1 DEF Upsert, IsNext, KnownIsStored
  <2>3. <<v, UpsertedRow(v).raw>> \in archived \cup buffer
    BY <2>2 DEF ArchivedFirst, RawPathReadable, UpsertedRow, RowOf
  <2>4. CASE u = v
    BY <1>1, <2>1, <2>3, <2>4, UpsertEffect DEF TypeOK
  <2>5. CASE u # v
    BY <1>1, <1>2, <2>1, <2>5, UpsertEffect DEF TypeOK
  <2> QED
    BY <2>4, <2>5
<1>4. CASE MissAndClose
  <2>1. u \in Stored /\ job[u] \in Row
    BY <1>2, <1>4, SweptRowType DEF MissAndClose, Stored, TypeOK
  <2>2. SweptRow(u).raw = job[u].raw
    BY <2>1 DEF SweptRow, Absent, Row
  <2> QED
    BY <1>1, <1>2, <1>4, <2>1, <2>2 DEF MissAndClose
<1>5. CASE UNCHANGED job
  BY <1>1, <1>2, <1>5 DEF Stored
<1> QED
  BY <1>3, <1>4, <1>5, TableSteps

\* Where the archive is closed properly, every raw_path in the table leads to
\* a record, whichever pages, writes and upserts failed.
THEOREM RawPathsLead ==
  ASSUME Faults \cap {"flush", "crash"} = {}
  PROVE  Spec => []RawPathReadable
<1> DEFINE J == IInv /\ ArchivedFirst /\ RawPathReadable
<1>1. Init => J
  BY Inductive DEF Init, ArchivedFirst, RawPathReadable, Stored
<1>2. J /\ [Next]_vars => J'
  BY Inductive, ArchivedFirstStep, RawPathStep
<1>3. J => RawPathReadable
  OBVIOUS
<1> QED
  BY <1>1, <1>2, <1>3, PTL DEF Spec
-----------------------------------------------------------------------------
(* The close gate                                                          *)

\* Where no page is blank, a run that has fetched a page of a board that stood
\* still knows how large the board is.
TotalKnown ==
  steady /\ ~failed /\ pc \in {"upsert", "archive", "sweep"} =>
    maxTotal >= Cardinality(Listed)

\* TotalKnown is kept by every step.
LEMMA TotalKnownStep ==
  ASSUME "blank" \notin Faults, IInv, TotalKnown, [Next]_vars
  PROVE  TotalKnown'
<1> USE DEF IInv
<1> SUFFICES ASSUME steady', ~failed', pc' \in {"upsert", "archive", "sweep"}
             PROVE  maxTotal' >= Cardinality(Listed)'
  BY DEF TotalKnown
<1>1. TotalSeen \in Nat /\ TotalSeen >= Cardinality(Listed)
  BY SizesAreNaturals DEF TotalSeen, TypeOK
<1>2. CASE \/ (\E lost \in SUBSET PageOf(page) : FetchPage(lost))
           \/ FetchEmptyPage \/ FetchTruncatedPage
  <2>1. maxTotal' = TotalSeen /\ board' = board
    BY <1>2 DEF FetchPage, FetchEmptyPage, FetchTruncatedPage, Strikes, boardVars
  <2> QED
    BY <1>1, <2>1 DEF Listed
<1>3. CASE UNCHANGED <<maxTotal, board>> /\ steady' = steady /\ pc \in {"upsert", "archive", "sweep"}
  BY <1>3 DEF TotalKnown, Listed, Next, vars, pageVars, ChangeListing, NextDay, Begin,
     BeginFails, FetchPage, FetchEmptyPage, FetchTruncatedPage, FetchFails, Upsert,
     UpsertFails, EndPage, CloseArchive, CloseArchiveFails, MissAndClose,
     MissAndCloseFails, Finish, FinishFails, Crash, Forget
<1> QED
  BY <1>2, <1>3
  DEF Next, vars, boardVars, scanVars, pageVars, historyVars, ChangeListing, NextDay,
      Begin, BeginFails, FetchFails, Upsert, UpsertFails, EndPage, CloseArchive,
      CloseArchiveFails, AfterArchive, MissAndClose, MissAndCloseFails, Finish,
      FinishFails, Crash, Forget

\* The close gate is sound as long as every answer of the API advertises the
\* size of the board: an absence is counted only on the evidence of a sweep
\* that walked four fifths of it.
THEOREM CountedOnEvidence ==
  ASSUME "blank" \notin Faults
  PROVE  Spec => AbsenceIsEvidence
<1> DEFINE J == IInv /\ TotalKnown
           Evidence == pc = "sweep" /\ steady
                         /\ (\E u \in Stored : job'[u].miss > job[u].miss)
                       => 5 * scanned >= 4 * Cardinality(Listed)
<1>1. Init => J
  BY Inductive DEF Init, TotalKnown
<1>2. J /\ [Next]_vars => J'
  BY Inductive, TotalKnownStep
<1>3. ASSUME J, [Next]_vars PROVE [Evidence]_vars
  <2> SUFFICES ASSUME pc = "sweep", steady, NEW u \in Stored, job'[u].miss > job[u].miss
               PROVE  5 * scanned >= 4 * Cardinality(Listed)
    OBVIOUS
  <2>1. job[u] \in Row
    BY <1>3 DEF IInv, TypeOK, Stored
  <2>2. MissAndClose
    <3>1. job'[u] # job[u]
      BY <2>1 DEF Row
    <3> QED
      BY <1>3, <3>1, TableSteps DEF Upsert
  <2>3. Covered
    <3>1. job[u].miss \in Nat
      BY <2>1 DEF Row
    <3>2. TypeOK
      BY <1>3 DEF IInv
    <3> QED
      BY <2>2, <3>1, <3>2, SweepEffect
  <2>4. ~failed
    BY <1>3 DEF IInv, SweepIsClean
  <2>5. maxTotal >= Cardinality(Listed)
    BY <1>3, <2>4 DEF TotalKnown
  <2>6. Cardinality(Listed) \in Nat /\ maxTotal \in Nat /\ scanned \in Nat
    BY <1>3, SizesAreNaturals DEF IInv, TypeOK
  <2> QED
    BY <2>3, <2>5, <2>6 DEF Covered
<1> QED
  BY <1>1, <1>2, <1>3, PTL DEF Spec, AbsenceIsEvidence
-----------------------------------------------------------------------------
(* The pages of the board                                                  *)

\* A set of naturals has a least element.
LEMMA Least ==
  ASSUME NEW S, S \subseteq Nat, S # {}
  PROVE  \E x \in S : \A y \in S : x <= y
<1>1. \A R, A, X : IsWellFoundedOn(R, A) /\ X \subseteq A /\ X # {}
                     => \E x \in X : \A y \in X : <<y, x>> \notin R
  BY WFMin
<1>2. PICK x \in S : \A y \in S : <<y, x>> \notin OpToRel(<, Nat)
  <2>1. IsWellFoundedOn(OpToRel(<, Nat), Nat)
    BY NatLessThanWellFounded
  <2> HIDE DEF IsWellFoundedOn, OpToRel
  <2> QED
    BY <1>1, <2>1
<1>3. \A y \in S : ~(y < x)
  BY <1>2 DEF OpToRel
<1> QED
  BY <1>3

\* A quotient by a page size and what it bounds.
LEMMA Quotient ==
  ASSUME NEW r \in Nat, NEW p \in Nat, NEW n \in Nat \ {0}
  PROVE  /\ r \div n \in Nat
         /\ r \div n < p => r < n * p
         /\ r \div n >= p => n * p <= r
         /\ n * p \in Nat
<1> DEFINE q == r \div n
<1>1. q \in Int /\ q >= 0 /\ n * q <= r /\ r < n * (q + 1)
  BY SMTT(30)
<1> HIDE DEF q
<1>2. ASSUME q < p PROVE r < n * p
  <2>1. n * (q + 1) <= n * p
    BY <1>1, <1>2
  <2> QED
    BY <1>1, <2>1
<1>3. ASSUME q >= p PROVE n * p <= r
  <2>1. n * p <= n * q
    BY <1>1, <1>3
  <2> QED
    BY <1>1, <2>1
<1>4. n * p \in Nat
  OBVIOUS
<1> QED
  BY <1>1, <1>2, <1>3, <1>4 DEF q

\* The postings ahead of one in the board's order.
Ahead(u) == {v \in Listed : Before(v, u)}

Rank(u) == Cardinality(Ahead(u))

\* The page a posting is served on.
PageAt(u) == Rank(u) \div Limit

\* The order of the board is total, and a posting ahead of another has fewer
\* ahead of it.
LEMMA BoardOrder ==
  ASSUME TypeOK, NEW u \in Listed, NEW v \in Listed
  PROVE  /\ Rank(u) \in Nat /\ Ahead(u) \subseteq Listed /\ IsFiniteSet(Ahead(u))
         /\ PageAt(u) \in Nat
         /\ u = v \/ Before(u, v) \/ Before(v, u)
         /\ Before(u, v) => Rank(u) < Rank(v)
<1>1. /\ Listed \subseteq Int /\ IsFiniteSet(Listed)
      /\ \A x \in Listed : board[x].post \in Nat
  <2>1. Listed \subseteq Uuid
    BY DEF Listed
  <2> QED
    BY <2>1, IngestAssumption, FS_Subset DEF TypeOK, Listed, Listing
<1>2. \A x \in Listed : /\ Ahead(x) \subseteq Listed /\ IsFiniteSet(Ahead(x)) /\ Rank(x) \in Nat
  BY <1>1, FS_Subset, FS_CardinalityType DEF Ahead, Rank
<1>3. u = v \/ Before(u, v) \/ Before(v, u)
  BY <1>1 DEF Before
<1>4. ASSUME Before(u, v) PROVE Rank(u) < Rank(v)
  <2>1. Ahead(u) \subseteq Ahead(v)
    <3>1. ASSUME NEW w \in Listed, Before(w, u) PROVE Before(w, v)
      <4>1. board[w].post \in Nat /\ board[u].post \in Nat /\ board[v].post \in Nat
        BY <1>1
      <4>2. w \in Int /\ u \in Int /\ v \in Int
        BY <1>1
      <4> QED
        BY <1>4, <3>1, <4>1, <4>2 DEF Before
    <3> QED
      BY <3>1 DEF Ahead
  <2>2. u \in Ahead(v) /\ u \notin Ahead(u)
    BY <1>1, <1>4 DEF Ahead, Before
  <2>3. Rank(u) <= Rank(v) /\ Rank(u) # Rank(v)
    BY <1>2, <2>1, <2>2, FS_Subset DEF Rank
  <2> QED
    BY <1>2, <2>3
<1>5. PageAt(u) \in Nat
  BY <1>2, Quotient, IngestAssumption DEF PageAt
<1> QED
  BY <1>2, <1>3, <1>4, <1>5

\* Nothing on a later page is dated after a posting of an earlier one.
LEMMA LaterIsOlder ==
  ASSUME TypeOK, NEW u \in Listed, NEW v \in Listed, PageAt(u) > PageAt(v)
  PROVE  board[u].post <= board[v].post
<1>1. ASSUME Before(u, v) PROVE FALSE
  <2>1. Rank(u) < Rank(v) /\ Rank(u) \in Nat /\ Rank(v) \in Nat
    BY <1>1, BoardOrder
  <2>2. PageAt(u) \in Nat /\ PageAt(v) \in Nat
    BY BoardOrder
  <2>3. Limit * PageAt(u) <= Rank(u) /\ Rank(v) < Limit * (PageAt(v) + 1)
    BY <2>1, <2>2, Quotient, IngestAssumption DEF PageAt
  <2>4. Limit * (PageAt(v) + 1) <= Limit * PageAt(u)
    BY <2>2, IngestAssumption
  <2>5. Limit * (PageAt(v) + 1) \in Nat /\ Limit * PageAt(u) \in Nat
    BY <2>2, IngestAssumption
  <2> QED
    BY <2>1, <2>3, <2>4, <2>5
<1>2. u # v
  BY BoardOrder
<1>3. Before(v, u)
  BY <1>1, <1>2, BoardOrder
<1>4. board[u].post \in Nat /\ board[v].post \in Nat
  BY DEF TypeOK, Listed, Listing
<1> QED
  BY <1>3, <1>4 DEF Before

\* The pages are filled one after another: behind an empty one is nothing.
LEMMA EmptyPageIsTheEnd ==
  ASSUME TypeOK, NEW p \in Nat, PageOf(p) = {}, NEW x \in Listed
  PROVE  PageAt(x) < p
<1> SUFFICES ASSUME PageAt(x) >= p PROVE FALSE
  BY BoardOrder
<1> DEFINE Late == {y \in Listed : PageAt(y) >= p}
<1>1. PICK u \in Late : \A y \in Late : Rank(u) <= Rank(y)
  <2>1. {Rank(y) : y \in Late} \subseteq Nat /\ {Rank(y) : y \in Late} # {}
    BY BoardOrder
  <2>2. PICK r \in {Rank(y) : y \in Late} : \A s \in {Rank(y) : y \in Late} : r <= s
    BY <2>1, Least
  <2> QED
    BY <2>2
<1>2. PageAt(u) \in Nat /\ PageAt(u) > p
  BY BoardOrder, <1>1 DEF PageOf, PageAt, Rank, Ahead
<1>3. \A v \in Ahead(u) : v \in Listed /\ Rank(v) \in Nat /\ Rank(v) < Limit * p
  <2> SUFFICES ASSUME NEW v \in Ahead(u) PROVE v \in Listed /\ Rank(v) \in Nat /\ Rank(v) < Limit * p
    OBVIOUS
  <2>1. v \in Listed /\ Rank(v) \in Nat /\ PageAt(v) \in Nat /\ Rank(v) < Rank(u) /\ Rank(u) \in Nat
    BY BoardOrder DEF Ahead
  <2>2. PageAt(v) < p
    BY <1>1, <2>1
  <2> QED
    BY <2>1, <2>2, Quotient, IngestAssumption DEF PageAt
<1>4. Rank(u) <= Limit * p
  <2> DEFINE f == [v \in Ahead(u) |-> Rank(v)]
             T == 0..(Limit * p - 1)
  <2>1. Limit * p \in Nat
    BY Quotient, IngestAssumption
  <2>2. f \in [Ahead(u) -> T]
    <3>1. \A n, m \in Nat : n < m => n \in 0..(m - 1)
      OBVIOUS
    <3>2. \A v \in Ahead(u) : Rank(v) \in T
      BY <1>3, <2>1, <3>1, Zenon
    <3> QED
      BY <3>2
  <2>3. \A v, w \in Ahead(u) : f[v] = f[w] => v = w
    <3>1. \A v, w \in Listed : Rank(v) = Rank(w) => v = w
      BY BoardOrder
    <3> QED
      BY <1>3, <3>1
  <2>4. IsFiniteSet(T) /\ Cardinality(T) = Limit * p
    <3>1. \A m \in Nat : IsFiniteSet(0..(m - 1)) /\ Cardinality(0..(m - 1)) = m
      BY FS_Interval
    <3> QED
      BY <2>1, <3>1, Zenon
  <2> HIDE DEF f, T
  <2>5. f \in Injection(Ahead(u), T)
    BY <2>2, <2>3 DEF Injection, IsInjective
  <2>6. Cardinality(Ahead(u)) <= Cardinality(T)
    BY <2>4, <2>5, FS_Injection
  <2> QED
    BY <2>4, <2>6 DEF Rank
<1>5. Limit * p < Rank(u)
  <2>1. Rank(u) \in Nat
    BY BoardOrder
  <2>2. Limit * (p + 1) <= Rank(u)
    BY <1>2, <2>1, Quotient, IngestAssumption DEF PageAt
  <2> QED
    BY <2>1, <2>2, IngestAssumption
<1>6. Rank(u) \in Nat
  BY BoardOrder
<1> QED
  BY <1>4, <1>5, <1>6, IngestAssumption
-----------------------------------------------------------------------------
(* The window                                                              *)

\* A candidate the scan is after, and a row that says what the board says.
Wanted(u) == board[u].cand /\ InWindow(u)

AsListed(u) == u \in Stored /\ job[u].post = board[u].post /\ job[u].desc = board[u].desc

\* While the board stands still, what a run upserted is as the board has it.
RecordedAsListed == steady /\ ~failed => \A u \in owed \ todo : AsListed(u)

\* The run owes every wanted posting of the pages it has passed; a page with a
\* posting below the window is its last, and behind the last there is no other.
PassedIsOwed ==
  steady /\ ~failed =>
    /\ pc = "fetch" => \A u \in Listed : Wanted(u) /\ PageAt(u) < page => u \in owed
    /\ pc = "upsert" =>
         /\ \A u \in Listed : Wanted(u) /\ PageAt(u) <= page => u \in owed
         /\ stop = (\E u \in PageOf(page) : ~InWindow(u))
    /\ pc \in {"archive", "sweep", "finish"} => \A u \in Listed : Wanted(u) => u \in owed

\* A run begins with the first page.
FromPageOne == pc = "idle" => page = 0

ScanInv == IInv /\ RecordedAsListed /\ PassedIsOwed /\ FromPageOne

\* An upsert and a close pass as to what a row says of its posting.
LEMMA RowSays ==
  ASSUME TypeOK, PageInHand, KnownIsStored, [Next]_vars, NEW u \in Uuid
  PROVE  \/ u \in Stored' /\ job'[u].post = board[u].post /\ job'[u].desc = board[u].desc
              /\ Upsert(u)
         \/ (u \in Stored <=> u \in Stored')
              /\ (u \in Stored => job'[u].post = job[u].post /\ job'[u].desc = job[u].desc)
<1>1. ASSUME NEW v \in Uuid, Upsert(v), u = v
      PROVE  u \in Stored' /\ job'[u].post = board[u].post /\ job'[u].desc = board[u].desc /\ Upsert(u)
  <2>1. UpsertedRow(u).post = board[u].post /\ UpsertedRow(u).desc = board[u].desc
    BY DEF UpsertedRow, RowOf
  <2>2. job'[u] = UpsertedRow(u) /\ u \in Stored'
    BY <1>1, UpsertEffect DEF TypeOK
  <2> QED
    BY <1>1, <2>1, <2>2
<1>2. ASSUME NEW v \in Uuid, Upsert(v), u # v
      PROVE  (u \in Stored <=> u \in Stored') /\ job'[u] = job[u]
  BY <1>2, UpsertEffect DEF TypeOK
<1>3. ASSUME MissAndClose
      PROVE  /\ u \in Stored <=> u \in Stored'
             /\ u \in Stored => job'[u].post = job[u].post /\ job'[u].desc = job[u].desc
  <2>1. job'[u] = SweptRow(u)
    BY <1>3 DEF MissAndClose
  <2>2. CASE u \in Stored
    <3>1. job[u] \in Row
      BY <2>2 DEF TypeOK, Stored
    <3>2. SweptRow(u).post = job[u].post /\ SweptRow(u).desc = job[u].desc
      BY <3>1 DEF SweptRow, Row
    <3> QED
      BY <1>3, <2>1, <2>2, <3>2, SweepEffect
  <2>3. CASE u \notin Stored
    BY <2>1, <2>3, SweptRowType DEF Stored
  <2> QED
    BY <2>2, <2>3
<1>4. CASE UNCHANGED job
  BY <1>4 DEF Stored
<1> QED
  BY <1>1, <1>2, <1>3, <1>4, TableSteps

\* The board stands still in every step of a run that leaves it steady.
LEMMA SteadySteps ==
  ASSUME [Next]_vars, steady', pc' # "idle"
  PROVE  steady /\ board' = board
BY DEF Next, vars, boardVars, historyVars, ChangeListing, NextDay, Begin, BeginFails,
   FetchPage, FetchEmptyPage, FetchTruncatedPage, FetchFails, Upsert, UpsertFails,
   EndPage, CloseArchive, CloseArchiveFails, MissAndClose, MissAndCloseFails, Finish,
   FinishFails, Crash, Forget

\* A candidate that leaves the page in hand is in the table as listed.
LEMMA RecordedStep ==
  ASSUME IInv, RecordedAsListed, [Next]_vars
  PROVE  RecordedAsListed'
<1> USE DEF IInv
<1>1. CASE pc' = "idle"
  <2>1. owed' = {}
    BY <1>1, ForgottenStep DEF Forgotten
  <2> QED
    BY <2>1 DEF RecordedAsListed
<1>2. CASE pc' # "idle"
  <2> SUFFICES ASSUME steady', ~failed', NEW u \in owed' \ todo' PROVE AsListed(u)'
    BY DEF RecordedAsListed
  <2>1. steady /\ board' = board
    BY <1>2, SteadySteps
  <2>2. u \in Uuid /\ failed \in BOOLEAN /\ failed' \in BOOLEAN
    BY TypeStep DEF TypeOK
  <2>3. ~failed /\ (u \in owed \ todo \/ Upsert(u))
    <3>1. ASSUME NEW lost \in SUBSET PageOf(page), FetchPage(lost)
          PROVE  ~failed /\ u \in owed \ todo
      <4>1. lost = {} /\ ~failed /\ todo = {}
        BY <3>1 DEF FetchPage, PageInHand
      <4> QED
        BY <3>1, <4>1 DEF FetchPage, Kept
    <3>2. ASSUME Begin PROVE ~failed /\ u \in owed \ todo
      BY <3>2 DEF Begin, pageVars, historyVars
    <3>3. ASSUME NEW v \in Uuid, Upsert(v) PROVE ~failed /\ (u \in owed \ todo \/ Upsert(u))
      BY <3>3 DEF Upsert, historyVars
    <3>4. ~(\E v \in Uuid : UpsertFails(v)) /\ ~FetchFails /\ ~CloseArchiveFails /\ ~MissAndCloseFails
      BY DEF UpsertFails, FetchFails, CloseArchiveFails, MissAndCloseFails
    <3>5. CASE \/ FetchEmptyPage \/ FetchTruncatedPage \/ EndPage \/ CloseArchive \/ MissAndClose
               \/ (\E v \in Uuid : ChangeListing(v)) \/ UNCHANGED vars
      <4>1. CASE EndPage
        BY <2>2, <4>1 DEF EndPage, historyVars
      <4>2. CASE CloseArchive \/ MissAndClose
        BY <2>2, <4>2 DEF CloseArchive, MissAndClose, historyVars
      <4>3. CASE FetchEmptyPage \/ FetchTruncatedPage
        BY <2>2, <4>3 DEF FetchEmptyPage, FetchTruncatedPage, pageVars, historyVars
      <4>4. CASE (\E v \in Uuid : ChangeListing(v)) \/ UNCHANGED vars
        BY <2>2, <4>4 DEF ChangeListing, vars, pageVars, historyVars
      <4> QED
        BY <3>5, <4>1, <4>2, <4>3, <4>4
    <3> QED
      BY <1>2, <3>1, <3>2, <3>3, <3>4, <3>5
      DEF Next, NextDay, BeginFails, Finish, FinishFails, Crash, Forget
  <2>4. CASE Upsert(u)
    <3>1. job'[u] = UpsertedRow(u) /\ u \in Stored'
      BY <2>2, <2>4, UpsertEffect DEF TypeOK
    <3> QED
      BY <2>1, <3>1 DEF AsListed, UpsertedRow, RowOf
  <2>5. CASE u \in owed \ todo
    <3>1. AsListed(u)
      BY <2>1, <2>3, <2>5 DEF RecordedAsListed
    <3> QED
      BY <2>1, <2>2, <3>1, RowSays DEF AsListed
  <2> QED
    BY <2>3, <2>4, <2>5
<1> QED
  BY <1>1, <1>2

\* A run that ends forgets its page, and one that begins has none.
LEMMA FromPageOneStep ==
  ASSUME FromPageOne, [Next]_vars
  PROVE  FromPageOne'
BY DEF FromPageOne, Next, vars, scanVars, ChangeListing, NextDay,
   Begin, BeginFails, FetchPage, FetchEmptyPage, FetchTruncatedPage, FetchFails,
   Upsert, UpsertFails, EndPage, CloseArchive, CloseArchiveFails, AfterArchive,
   MissAndClose, MissAndCloseFails, Finish, FinishFails, Crash, Forget

\* What is on the pages behind one with a posting below the window is below it.
LEMMA NothingBehind ==
  ASSUME TypeOK, NEW v \in PageOf(page), ~InWindow(v), NEW u \in Listed, InWindow(u)
  PROVE  PageAt(u) <= page
<1>1. v \in Listed /\ PageAt(v) = page
  BY DEF PageOf, PageAt, Rank, Ahead
<1>2. board[u].post \in Nat /\ board[v].post \in Nat /\ floor \in Nat
  BY <1>1 DEF TypeOK, Listed, Listing
<1>3. PageAt(u) \in Nat /\ PageAt(v) \in Nat
  BY <1>1, BoardOrder
<1>4. ~(board[u].post <= board[v].post)
  BY <1>2 DEF InWindow
<1>5. ~(PageAt(u) > PageAt(v))
  BY <1>1, <1>4, LaterIsOlder
<1> QED
  BY <1>1, <1>3, <1>5

\* Early stop and the empty page end a scan where nothing is left to owe; no
\* other end is without an error, unless the API serves an empty page early.
LEMMA PassedStep ==
  ASSUME Faults \cap {"truncate", "blank"} = {}, ScanInv, [Next]_vars
  PROVE  PassedIsOwed'
<1> USE DEF ScanInv, IInv
<1> SUFFICES ASSUME steady', ~failed', pc' # "idle" PROVE PassedIsOwed'
  BY DEF PassedIsOwed
<1>0. steady /\ board' = board
  BY SteadySteps
<1>1. page \in Nat /\ \A u \in Listed : PageAt(u) \in Nat
  BY BoardOrder DEF TypeOK
<1>2. \A u : PageAt(u)' = PageAt(u) /\ (Wanted(u)' <=> board[u].cand /\ board[u].post >= floor')
  BY <1>0 DEF PageAt, Rank, Ahead, Listed, Before, Wanted, InWindow
<1>3. Listed' = Listed /\ \A u \in Listed : u \in PageOf(page) <=> PageAt(u) = page
  BY <1>0 DEF Listed, PageOf, PageAt, Rank, Ahead
<1>4. CASE Begin
  <2>1. pc' = "fetch" /\ page' = 0
    BY <1>4 DEF Begin, FromPageOne
  <2> QED
    BY <1>1, <1>2, <1>3, <2>1 DEF PassedIsOwed
<1>5. ASSUME NEW lost \in SUBSET PageOf(page), FetchPage(lost) PROVE PassedIsOwed'
  <2>1. lost = {} /\ ~failed /\ pc = "fetch" /\ pc' = "upsert" /\ page' = page /\ floor' = floor
    BY <1>5 DEF FetchPage
  <2>2. /\ owed' = owed \cup {u \in PageOf(page) : Wanted(u)}
        /\ stop' = (\E u \in PageOf(page) : ~InWindow(u))
    BY <1>5, <2>1 DEF FetchPage, Kept, Wanted
  <2>3. stop' = (\E u \in PageOf(page) : ~InWindow(u))'
    BY <1>0, <2>1, <2>2 DEF PageOf, Listed, Before, InWindow
  <2>4. ASSUME NEW u \in Listed, Wanted(u), PageAt(u) <= page PROVE u \in owed'
    <3>1. CASE PageAt(u) < page
      BY <1>0, <2>1, <2>2, <2>4, <3>1 DEF PassedIsOwed
    <3>2. CASE PageAt(u) = page
      BY <1>3, <2>2, <2>4, <3>2
    <3> QED
      BY <1>1, <2>4, <3>1, <3>2
  <2> QED
    BY <1>2, <1>3, <2>1, <2>3, <2>4 DEF PassedIsOwed, Wanted, InWindow
<1>6. CASE FetchEmptyPage
  <2>1. pc = "fetch" /\ pc' = "archive" /\ PageOf(page) = {} /\ owed' = owed /\ failed' = failed
        /\ floor' = floor
    BY <1>6 DEF FetchEmptyPage, historyVars, pageVars
  <2>2. \A u \in Listed : PageAt(u) < page
    BY <1>1, <2>1, EmptyPageIsTheEnd
  <2> QED
    BY <1>0, <1>2, <1>3, <2>1, <2>2 DEF PassedIsOwed, Wanted, InWindow
<1>7. CASE EndPage
  <2>1. /\ pc = "upsert" /\ owed' = owed /\ floor' = floor /\ page' = page + 1 /\ ~failed
        /\ pc' = IF stop THEN "archive" ELSE "fetch"
    BY <1>7 DEF EndPage, historyVars
  <2>2. /\ \A u \in Listed : Wanted(u) /\ PageAt(u) <= page => u \in owed
        /\ stop = (\E u \in PageOf(page) : ~InWindow(u))
    BY <1>0, <2>1 DEF PassedIsOwed
  <2>3. CASE stop
    <3>1. \A u \in Listed : Wanted(u) => PageAt(u) <= page
      BY <2>2, <2>3, NothingBehind DEF Wanted
    <3> QED
      BY <1>2, <1>3, <2>1, <2>2, <2>3, <3>1 DEF PassedIsOwed, Wanted, InWindow
  <2>4. CASE ~stop
    <3>1. \A u \in Listed : PageAt(u) < page + 1 => PageAt(u) <= page
      BY <1>1
    <3> QED
      BY <1>2, <1>3, <2>1, <2>2, <2>4, <3>1 DEF PassedIsOwed, Wanted, InWindow
  <2> QED
    BY <2>3, <2>4
<1>8. CASE \E u \in Uuid : Upsert(u)
  <2>1. /\ pc = "upsert" /\ pc' = pc /\ page' = page /\ floor' = floor /\ owed' = owed
        /\ stop' = stop /\ failed' = failed
    BY <1>8 DEF Upsert, scanVars, historyVars
  <2>2. (\E u \in PageOf(page) : ~InWindow(u))' = (\E u \in PageOf(page) : ~InWindow(u))
    BY <1>0, <2>1 DEF PageOf, Listed, Before, InWindow
  <2> QED
    BY <1>0, <1>2, <1>3, <2>1, <2>2 DEF PassedIsOwed, Wanted, InWindow
<1>9. CASE CloseArchive \/ MissAndClose
  <2>1. /\ pc \in {"archive", "sweep"} /\ pc' \in {"sweep", "finish"} /\ floor' = floor
        /\ owed' = owed /\ failed' = failed
    BY <1>9 DEF CloseArchive, AfterArchive, MissAndClose, scanVars, historyVars
  <2> QED
    BY <1>0, <1>2, <1>3, <2>1 DEF PassedIsOwed, Wanted, InWindow
<1>10. CASE UNCHANGED vars
  BY <1>10 DEF vars, boardVars, scanVars, pageVars, historyVars, PassedIsOwed, Listed, PageOf,
     Before, Wanted, InWindow, PageAt, Rank, Ahead
<1>11. /\ ~FetchTruncatedPage /\ ~FetchFails /\ ~CloseArchiveFails /\ ~MissAndCloseFails
       /\ ~(\E u \in Uuid : UpsertFails(u) \/ ChangeListing(u))
  BY DEF FetchTruncatedPage, Strikes, FetchFails, CloseArchiveFails, MissAndCloseFails,
     UpsertFails, ChangeListing
<1> QED
  BY <1>4, <1>5, <1>6, <1>7, <1>8, <1>9, <1>10, <1>11
  DEF Next, NextDay, BeginFails, Finish, FinishFails, Crash, Forget

\* ScanInv is inductive where the API serves no page empty that is not.
LEMMA ScanInductive ==
  ASSUME Faults \cap {"truncate", "blank"} = {}
  PROVE  /\ Init => ScanInv
         /\ ScanInv /\ [Next]_vars => ScanInv'
<1>1. Init => ScanInv
  BY Inductive DEF Init, ScanInv, RecordedAsListed, PassedIsOwed, FromPageOne
<1>2. ScanInv /\ [Next]_vars => ScanInv'
  <2>1. ScanInv /\ [Next]_vars => IInv' /\ RecordedAsListed' /\ FromPageOne'
    BY Inductive, RecordedStep, FromPageOneStep DEF ScanInv
  <2>2. ScanInv /\ [Next]_vars => PassedIsOwed'
    BY PassedStep
  <2> QED
    BY <2>1, <2>2 DEF ScanInv
<1> QED
  BY <1>1, <1>2

\* A run that stamps its success has done so without an error.
LEMMA FreshIsClean ==
  ASSUME TypeOK, [Next]_vars, fresh' # fresh
  PROVE  Finish /\ pc = "finish" /\ ~failed
<1>1. Finish
  BY FreshStep
<1>2. ASSUME failed PROVE fresh' = fresh
  <2>1. fresh' = [k \in DOMAIN fresh |-> fresh[k]]
    BY <1>1, <1>2 DEF Finish, Stamps
  <2> QED
    BY <2>1 DEF TypeOK
<1> QED
  BY <1>1, <1>2 DEF Finish

\* When a run stamps its success over a board that stood still, each wanted
\* posting is in the table as listed.
LEMMA FreshIsComplete ==
  ASSUME ScanInv, [Next]_vars, fresh' # fresh, steady, NEW u \in Listed, Wanted(u)
  PROVE  u \in Open /\ AsListed(u)
<1>1. pc = "finish" /\ ~failed
  BY FreshIsClean DEF ScanInv, IInv
<1>2. u \in owed \ todo
  BY <1>1 DEF ScanInv, PassedIsOwed, IInv, PageInHand
<1> QED
  BY <1>1, <1>2 DEF ScanInv, RecordedAsListed, IInv, OwedIsRecorded

\* Early stop, page limits and the circuit breaker lose nothing, for any board,
\* page size and window, whatever pages, writes and upserts fail and wherever
\* the run is killed, as long as no page is served empty that is not.
THEOREM WindowIsComplete ==
  ASSUME Faults \cap {"truncate", "blank"} = {}
  PROVE  Spec => WindowComplete
<1> DEFINE A == fresh' # fresh /\ steady =>
                  \A u \in Listed : board[u].cand /\ board[u].post >= floor =>
                    u \in Open /\ job[u].post = board[u].post /\ job[u].desc = board[u].desc
<1>1. ScanInv /\ [Next]_vars => [A]_vars
  BY FreshIsComplete DEF Wanted, InWindow, AsListed
<1> QED
  BY <1>1, ScanInductive, PTL DEF Spec, WindowComplete
-----------------------------------------------------------------------------
(* The gap below the watermark                                             *)

\* In the table under the date it has on the board.
InTable(u) == u \in Stored /\ job[u].post = board[u].post

\* Nothing is dated in the future.
DatedByNow ==
  /\ \A u \in Listed : board[u].post <= day
  /\ \A u \in Stored : job[u].post <= day

\* After clean runs a candidate that is missing was listed since, so that it is
\* dated no further than Lag below any date stored, and a run that begins finds
\* it in its window.
MissingIsRecent ==
  sound =>
    /\ pc = "idle" => \A u \in Listed : board[u].cand /\ ~InTable(u) =>
                        \A v \in Stored : job[v].post <= board[u].post + Lag
    /\ pc # "idle" /\ steady => \A u \in Listed : board[u].cand /\ ~InTable(u) => InWindow(u)

GapInv == ScanInv /\ DatedByNow /\ MissingIsRecent

\* The date of a listing that a change puts up is recent, or it is the one the
\* posting had.
LEMMA ChangeSays ==
  ASSUME TypeOK, NEW u \in Uuid, ChangeListing(u)
  PROVE  /\ \A v \in Uuid \ {u} : board'[v] = board[v]
         /\ u \in Listed' => board'[u].post \in Nat /\
              \/ board'[u].post <= day /\ day <= board'[u].post + Lag
              \/ u \in Listed /\ board'[u].post = board[u].post
                   /\ (board'[u].cand = board[u].cand \/ Reclassify)
<1> DEFINE recent == {p \in 1..day : p + Lag >= day}
           edits  == IF board[u] = Gone THEN {}
                     ELSE {l \in Offers({board[u].post}) : l.cand = board[u].cand \/ Reclassify}
<1>1. PICK l \in {Gone} \cup Offers(recent) \cup edits : board' = [board EXCEPT ![u] = l]
  BY DEF ChangeListing
<1>2. board'[u] = l /\ \A v \in Uuid \ {u} : board'[v] = board[v]
  BY <1>1 DEF TypeOK
<1>3. l \in Offers(recent) => l.post \in Nat /\ l.post <= day /\ day <= l.post + Lag
  BY DEF Offers, TypeOK
<1>4. l \in edits => /\ u \in Listed /\ l.post = board[u].post /\ l.post \in Nat
                     /\ (l.cand = board[u].cand \/ Reclassify)
  BY DEF Offers, Listed, TypeOK, Listing
<1>5. u \in Listed' => l # Gone
  BY <1>2 DEF Listed
<1> QED
  BY <1>1, <1>2, <1>3, <1>4, <1>5

\* A listing is changed by its publisher and by no one else.
LEMMA BoardSteps ==
  ASSUME [Next]_vars
  PROVE  (\E u \in Uuid : ChangeListing(u)) \/ UNCHANGED board
BY DEF Next, vars, boardVars, NextDay, Begin, BeginFails, FetchPage, FetchEmptyPage,
   FetchTruncatedPage, FetchFails, Upsert, UpsertFails, EndPage, CloseArchive,
   CloseArchiveFails, MissAndClose, MissAndCloseFails, Finish, FinishFails, Crash

\* Publishers date their listings today or back.
LEMMA DatedStep ==
  ASSUME IInv, DatedByNow, [Next]_vars
  PROVE  DatedByNow'
<1> USE DEF IInv
<1>1. day \in Nat /\ day' \in Nat /\ day <= day'
  BY DaySteps DEF TypeOK
<1>2. \A u \in Listed : board[u].post \in Nat /\ board[u].post <= day
  BY DEF TypeOK, Listed, Listing, DatedByNow
<1>3. \A u \in Stored : job[u].post \in Nat /\ job[u].post <= day
  BY DEF TypeOK, Stored, Row, DatedByNow
<1>4. ASSUME NEW u \in Listed' PROVE board'[u].post <= day'
  <2>1. u \in Uuid
    BY DEF Listed
  <2>2. CASE UNCHANGED board
    BY <1>1, <1>2, <2>1, <2>2 DEF Listed
  <2>3. ASSUME NEW v \in Uuid, ChangeListing(v) PROVE board'[u].post <= day'
    <3>1. CASE u = v
      BY <1>1, <1>2, <2>3, <3>1, ChangeSays
    <3>2. CASE u # v
      <4>1. board'[u] = board[u] /\ u \in Listed
        BY <2>1, <2>3, <3>2, ChangeSays DEF Listed
      <4> QED
        BY <1>1, <1>2, <4>1
    <3> QED
      BY <3>1, <3>2
  <2> QED
    BY <2>2, <2>3, BoardSteps
<1>5. ASSUME NEW u \in Stored' PROVE job'[u].post <= day'
  <2>1. u \in Uuid
    BY DEF Stored
  <2>2. CASE Upsert(u) /\ job'[u].post = board[u].post
    <3>1. u \in Listed
      BY <2>1, <2>2, UpsertEffect
    <3> QED
      BY <1>1, <1>2, <2>2, <3>1
  <2>3. CASE u \in Stored /\ job'[u].post = job[u].post
    BY <1>1, <1>3, <2>3
  <2> QED
    BY <2>1, <2>2, <2>3, RowSays
<1> QED
  BY <1>4, <1>5 DEF DatedByNow

\* What is in the table under its date stays so while the board stands still.
LEMMA InTableStays ==
  ASSUME IInv, [Next]_vars, NEW u \in Listed, InTable(u), board'[u] = board[u]
  PROVE  InTable(u)'
<1>1. u \in Uuid
  BY DEF Listed
<1> QED
  BY <1>1, RowSays DEF IInv, InTable

\* A run that ends in success over a board that stood still leaves nothing out.
LEMMA CleanIsComplete ==
  ASSUME GapInv, Finish, sound'
  PROVE  Complete
<1>1. sound /\ ~failed /\ steady /\ pc = "finish"
  BY DEF Finish
<1> SUFFICES ASSUME NEW u \in Listed, board[u].cand PROVE InTable(u)
  BY DEF Complete, InTable
<1>2. CASE InWindow(u)
  <2>1. u \in owed \ todo
    BY <1>1, <1>2 DEF GapInv, ScanInv, PassedIsOwed, Wanted, IInv, PageInHand
  <2> QED
    BY <1>1, <2>1 DEF GapInv, ScanInv, RecordedAsListed, AsListed, InTable
<1>3. CASE ~InWindow(u)
  BY <1>1, <1>3 DEF GapInv, MissingIsRecent
<1> QED
  BY <1>2, <1>3

\* The window of a run reaches Lag days and more below every date stored.
LEMMA MissingStep ==
  ASSUME Lag <= BackoffDays, ~Reclassify, GapInv, [Next]_vars
  PROVE  MissingIsRecent'
<1> USE DEF GapInv, ScanInv, IInv
<1> SUFFICES ASSUME sound' PROVE MissingIsRecent'
  BY DEF MissingIsRecent
<1>0. TypeOK' /\ sound \in BOOLEAN /\ steady \in BOOLEAN /\ day \in Nat /\ Lag \in Nat
  BY TypeStep, IngestAssumption DEF TypeOK
<1>1. \A u \in Listed : board[u].post \in Nat /\ u \in Uuid
  BY DEF TypeOK, Listed, Listing
<1>2. \A v \in Stored : job[v].post \in Nat /\ job[v].post <= day /\ v \in Uuid
  BY DEF TypeOK, Stored, Row, DatedByNow
<1>3. ASSUME NEW u \in Uuid, ChangeListing(u) PROVE MissingIsRecent'
  <2>1. UNCHANGED <<job, pc, sound, day>> /\ (pc # "idle" => ~steady')
    BY <1>3 DEF ChangeListing, tableVars
  <2>2. ASSUME pc = "idle", NEW x \in Listed', board'[x].cand, ~InTable(x)', NEW v \in Stored
        PROVE  job[v].post <= board'[x].post + Lag
    <3>1. CASE x \in Listed /\ board'[x].post = board[x].post /\ board'[x].cand = board[x].cand
      <4>1. ~InTable(x) /\ board[x].cand
        BY <2>1, <2>2, <3>1 DEF InTable, Stored
      <4> QED
        BY <2>1, <2>2, <3>1, <4>1 DEF MissingIsRecent
    <3>2. CASE x = u /\ board'[x].post \in Nat /\ day <= board'[x].post + Lag
      BY <1>0, <1>2, <3>2
    <3>3. x = u \/ (x \in Listed /\ board'[x] = board[x])
      BY <1>3, ChangeSays DEF Listed
    <3> QED
      BY <1>3, <3>1, <3>2, <3>3, ChangeSays
  <2> QED
    BY <2>1, <2>2 DEF MissingIsRecent, Stored
<1>4. CASE Begin
  <2>1. UNCHANGED <<job, board, steady, sound>> /\ pc = "idle" /\ pc' = "fetch"
    BY <1>4 DEF Begin, boardVars, tableVars, historyVars
  <2>2. PICK w \in Watermarks : floor' = IF kind' = "incremental" THEN FloorBelow(w) ELSE 0
    BY <1>4 DEF Begin
  <2>3. ASSUME NEW u \in Listed, board[u].cand, ~InTable(u) PROVE board[u].post >= floor'
    <3>1. CASE floor' = 0
      BY <1>1, <3>1
    <3>2. ASSUME NEW v \in Stored, w = job[v].post, floor' = FloorBelow(w) PROVE board[u].post >= floor'
      <4>1. w <= board[u].post + Lag
        BY <2>1, <2>3, <3>2 DEF MissingIsRecent
      <4> QED
        BY <1>1, <1>2, <3>2, <4>1, IngestAssumption DEF FloorBelow
    <3>3. FloorBelow(0) = 0
      BY IngestAssumption DEF FloorBelow
    <3> QED
      BY <2>2, <3>1, <3>2, <3>3 DEF Watermarks
  <2>4. Listed' = Listed /\ \A u : InTable(u)' = InTable(u)
    BY <2>1 DEF Listed, InTable, Stored
  <2> QED
    BY <2>1, <2>3, <2>4 DEF MissingIsRecent, InWindow
<1>5. CASE Finish
  <2>1. Complete
    BY <1>5, CleanIsComplete
  <2>2. UNCHANGED <<job, board>> /\ pc' = "idle"
    BY <1>5 DEF Finish, Forget, boardVars
  <2>3. \A u \in Listed' : board'[u].cand => InTable(u)'
    BY <2>1, <2>2 DEF Complete, InTable, Listed, Stored
  <2> QED
    BY <2>2, <2>3 DEF MissingIsRecent
<1>6. CASE NextDay \/ UNCHANGED vars
  <2>1. UNCHANGED <<job, board, pc, steady, sound, floor>>
    BY <1>6 DEF NextDay, vars, boardVars, tableVars, historyVars, scanVars
  <2> QED
    BY <2>1 DEF MissingIsRecent, Listed, InTable, Stored, InWindow
<1>7. CASE pc # "idle" /\ pc' # "idle" /\ UNCHANGED <<board, steady, sound, floor>>
  <2>1. Listed' = Listed /\ \A u \in Listed : board'[u] = board[u] /\ InWindow(u)' = InWindow(u)
    BY <1>7 DEF Listed, InWindow
  <2>2. \A u \in Listed : ~InTable(u)' => ~InTable(u)
    BY <2>1, InTableStays
  <2> QED
    BY <1>7, <2>1, <2>2 DEF MissingIsRecent
<1>8. \/ (\E u \in Uuid : ChangeListing(u)) \/ Begin \/ Finish \/ NextDay \/ UNCHANGED vars
      \/ pc # "idle" /\ pc' # "idle" /\ UNCHANGED <<board, steady, sound, floor>>
  <2>1. ~BeginFails /\ ~FinishFails /\ ~Crash
    BY DEF BeginFails, FinishFails, Crash
  <2> QED
    BY <2>1
    DEF Next, boardVars, scanVars, historyVars, FetchPage, FetchEmptyPage,
        FetchTruncatedPage, FetchFails, Upsert, UpsertFails, EndPage, CloseArchive,
        CloseArchiveFails, AfterArchive, MissAndClose, MissAndCloseFails
<1> QED
  BY <1>3, <1>4, <1>5, <1>6, <1>7, <1>8

\* As long as every run was clean, BackoffWindow below the watermark is enough
\* for postings that are dated back by no more, for every board and calendar:
\* where candidates stay candidates and no page is served empty that is not, a
\* clean run leaves every listed candidate in the table.
THEOREM NoGap ==
  ASSUME Faults \cap {"truncate", "blank"} = {}, Lag <= BackoffDays, ~Reclassify
  PROVE  Spec => NoGapAfterCleanRuns
<1>1. Init => GapInv
  <2>1. ASSUME Init PROVE DatedByNow
    <3>1. \A u \in Listed : board[u].post <= day
      BY <2>1, IngestAssumption DEF Init, Listed, Offers
    <3> QED
      BY <2>1, <3>1 DEF Init, DatedByNow, Stored
  <2> QED
    BY <2>1, ScanInductive DEF Init, GapInv, MissingIsRecent, Stored
<1>2. GapInv /\ [Next]_vars => GapInv'
  <2>1. GapInv /\ [Next]_vars => ScanInv' /\ DatedByNow'
    BY ScanInductive, DatedStep DEF GapInv, ScanInv
  <2>2. GapInv /\ [Next]_vars => MissingIsRecent'
    BY MissingStep
  <2> QED
    BY <2>1, <2>2 DEF GapInv
<1>3. GapInv /\ [Next]_vars => [fresh' # fresh /\ sound' => Complete]_vars
  BY FreshStep, CleanIsComplete
<1> QED
  BY <1>1, <1>2, <1>3, PTL DEF Spec, NoGapAfterCleanRuns
-----------------------------------------------------------------------------
(* Ingest implements Lifecycle: with pages, retries, failed transactions   *)
(* and kills taken away, what is left of a run is a sequence of sightings  *)
(* and, for a reconcile, one sweep that ends or is aborted.                *)


\* What a step that leaves the table alone does to the books.
LEMMA BooksStand ==
  ASSUME UNCHANGED job
  PROVE  UNCHANGED <<Status, Absences, Ends>>
BY DEF Status, Absences, Ends, Open, Stored

\* The initial states: an empty table is a book of unknown postings.
LEMMA InitImplements == Init => Promise!Init
<1> SUFFICES ASSUME Init PROVE Promise!Init
  OBVIOUS
<1>1. Stored = {} /\ ~Sweeping /\ day \in Nat
  BY IngestAssumption DEF Init, Stored, Sweeping
<1> QED
  BY <1>1 DEF Promise!Init, Status, Absences, Ends, Sighted

\* A step outside the table that neither begins nor leaves a sweep is a stutter.
LEMMA Stutters ==
  ASSUME UNCHANGED <<job, day>>, Sweeping' = Sweeping,
         Sweeping => seen' = seen
  PROVE  UNCHANGED Promise!vars
BY BooksStand DEF Promise!vars, Sighted

\* A step outside the table that leaves a sweep aborts it.
LEMMA Aborts ==
  ASSUME UNCHANGED <<job, day>>, Sweeping, ~Sweeping'
  PROVE  Promise!AbortSweep
BY BooksStand DEF Promise!AbortSweep, Sighted

\* An upsert is a sighting.
LEMMA UpsertSights ==
  ASSUME TypeOK, PageInHand, KnownIsStored, NEW u \in Uuid, Upsert(u)
  PROVE  Promise!Sight(u)
<1>1. /\ job' = [job EXCEPT ![u] = UpsertedRow(u)] /\ UpsertedRow(u) \in Row
      /\ UpsertedRow(u).miss = 0
      /\ Stored' = Stored \cup {u} /\ Open' = Open \cup {u}
  BY UpsertEffect
<1>2. Status' = [Status EXCEPT ![u] = "open"]
  BY <1>1 DEF Status
<1>3. Absences' = [Absences EXCEPT ![u] = 0]
  BY <1>1 DEF Absences, TypeOK
<1>4. Ends'[u] \in Nat
  BY <1>1 DEF Ends, TypeOK, Row
<1>5. Ends' = [Ends EXCEPT ![u] = Ends'[u]]
  BY <1>1 DEF Ends, TypeOK
<1>6. day' = day /\ pc = "upsert" /\ pc' = pc /\ kind' = kind
  BY DEF Upsert, boardVars, scanVars
<1>7. Sweeping' = Sweeping
  BY <1>6 DEF Sweeping
<1>8. Sighted' = IF Sweeping THEN Sighted \cup {u} ELSE Sighted
  BY <1>6, <1>7 DEF Sighted, Sweeping, Upsert
<1> QED
  BY <1>2, <1>3, <1>4, <1>5, <1>6, <1>7, <1>8 DEF Promise!Sight

\* The close pass ends the sweep, trusted if the sweep covered the board.
LEMMA MissAndCloseEnds ==
  ASSUME IInv, MissAndClose
  PROVE  Promise!EndSweep(Covered)
<1> DEFINE absent  == Promise!Open \ Sighted
           expired == {u \in absent : Ends[u] < day}
           missed  == IF Covered THEN absent \ expired ELSE {}
           due     == {u \in missed : Absences[u] + 1 >= 2}
<1>1. Sweeping /\ ~Sweeping' /\ day' = day /\ day \in Nat /\ day > 0
  BY DEF MissAndClose, IInv, SweepIsClean, SeenInThePast, Sweeping, boardVars, TypeOK
<1>2. Stored' = Stored
  BY SweptRowType, IngestAssumption DEF IInv, MissAndClose, Stored
<1>3. Promise!Open = Open /\ Sighted = seen /\ Open \subseteq Stored /\ Stored \subseteq Uuid
  BY <1>1 DEF Promise!Open, Status, Sighted, Open, Stored
<1>4. ASSUME NEW u \in Stored
      PROVE  /\ job'[u].exp = job[u].exp
             /\ u \in Open' <=> u \in Open /\ u \notin expired \cup due
             /\ job'[u].miss = IF u \in expired THEN 0
                               ELSE IF u \in missed THEN job[u].miss + 1
                               ELSE job[u].miss
  <2>1. Ends[u] = job[u].exp /\ Absences[u] = job[u].miss
    BY <1>3 DEF Ends, Absences
  <2>2. job[u] \in Row /\ job'[u].exp = job[u].exp /\ u \in Stored'
    BY <1>2, <1>3, SweepEffect DEF IInv, TypeOK, Stored
  <2>3. CASE u \notin Open \ seen
    <3>1. job'[u] = job[u] /\ u \notin expired \cup due /\ u \notin missed
      BY <1>3, <2>3, SweepEffect DEF IInv
    <3> QED
      BY <1>2, <2>2, <3>1 DEF Open
  <2>4. CASE u \in Open \ seen /\ job[u].exp < day
    <3>1. job'[u].closed = day /\ job'[u].miss = 0
      BY <1>1, <2>2, <2>4, SweepEffect DEF IInv, Row
    <3>2. u \in expired
      BY <1>3, <2>1, <2>4
    <3> QED
      BY <1>1, <2>2, <3>1, <3>2 DEF Open
  <2>5. CASE u \in Open \ seen /\ job[u].exp >= day /\ ~Covered
    <3>1. job'[u] = job[u]
      BY <1>1, <2>2, <2>5, SweepEffect DEF IInv, Row
    <3>2. u \notin expired /\ missed = {}
      BY <1>1, <2>1, <2>2, <2>5 DEF Row
    <3> QED
      BY <1>2, <2>2, <3>1, <3>2 DEF Open
  <2>6. CASE u \in Open \ seen /\ job[u].exp >= day /\ Covered
    <3>1. /\ job'[u].miss = job[u].miss + 1
          /\ job'[u].closed = IF job[u].miss + 1 >= 2 THEN day ELSE 0
      BY <1>1, <2>2, <2>6, SweepEffect DEF IInv, Row
    <3>2. u \notin expired /\ u \in missed
      BY <1>1, <1>3, <2>1, <2>2, <2>6 DEF Row
    <3>3. u \in due <=> job[u].miss + 1 >= 2
      BY <2>1, <3>2
    <3>4. u \in Open' <=> u \notin due
      BY <1>1, <2>2, <3>1, <3>3 DEF Open
    <3> QED
      BY <2>2, <2>6, <3>1, <3>2, <3>4
  <2> QED
    BY <1>1, <2>2, <2>3, <2>4, <2>5, <2>6 DEF Row
<1>5. Status' = [u \in Uuid |-> IF u \in expired \cup due THEN "closed" ELSE Status[u]]
  BY <1>2, <1>3, <1>4 DEF Status
<1>6. Absences' = [u \in Uuid |-> IF u \in expired THEN 0
                                 ELSE IF u \in missed THEN Absences[u] + 1
                                 ELSE Absences[u]]
  BY <1>2, <1>3, <1>4 DEF Absences
<1>7. Ends' = Ends /\ Sighted' = {}
  BY <1>1, <1>2, <1>4 DEF Ends, Sighted
<1> QED
  BY <1>1, <1>5, <1>6, <1>7 DEF Promise!EndSweep

\* Every step of the job is a step of the lifecycle or none.
LEMMA StepImplements ==
  ASSUME IInv, [Next]_vars
  PROVE  Promise!Next \/ UNCHANGED Promise!vars
<1> USE DEF IInv
<1>1. CASE NextDay
  <2>1. ~Sweeping /\ Sweeping' = Sweeping /\ UNCHANGED job
    BY <1>1 DEF NextDay, Sweeping, tableVars
  <2>2. CASE day' = day
    BY <2>1, <2>2, Stutters
  <2>3. CASE day' = day + 1
    BY <2>1, <2>3, BooksStand DEF Promise!Next, Promise!NextDay, Sighted
  <2> QED
    BY <1>1, <2>2, <2>3 DEF NextDay
<1>2. CASE Begin
  <2>1. ~Sweeping /\ UNCHANGED <<job, day>> /\ seen = {} /\ seen' = {}
        /\ (Sweeping' <=> kind' = "reconcile")
    BY <1>2 DEF Begin, Forgotten, Sweeping, tableVars, boardVars, pageVars
  <2>2. CASE kind' = "reconcile"
    BY <2>1, <2>2, BooksStand DEF Promise!Next, Promise!BeginSweep, Sighted
  <2>3. CASE kind' # "reconcile"
    <3>1. Sweeping' = Sweeping
      BY <2>1, <2>3 DEF Sweeping
    <3> QED
      BY <2>1, <3>1, Stutters
  <2> QED
    BY <2>2, <2>3
<1>3. CASE \E u \in Uuid : Upsert(u)
  BY <1>3, UpsertSights DEF Promise!Next
<1>4. CASE MissAndClose
  <2>1. Covered \in BOOLEAN
    BY DEF Covered
  <2>2. \E trusted \in BOOLEAN : Promise!EndSweep(trusted)
    BY <1>4, <2>1, MissAndCloseEnds
  <2> QED
    BY <2>2 DEF Promise!Next
<1>5. CASE \/ (\E u \in Uuid : ChangeListing(u)) \/ BeginFails
           \/ (\E lost \in SUBSET PageOf(page) : FetchPage(lost))
           \/ FetchEmptyPage \/ FetchTruncatedPage \/ FetchFails
           \/ (\E u \in Uuid : UpsertFails(u)) \/ EndPage \/ UNCHANGED vars
  <2>1. UNCHANGED <<job, day, kind, seen>>
    BY <1>5 DEF ChangeListing, BeginFails, FetchPage, FetchEmptyPage, FetchTruncatedPage,
       FetchFails, UpsertFails, EndPage, vars, tableVars, boardVars, scanVars, pageVars
  <2>2. pc' = pc \/ {pc, pc'} \subseteq {"fetch", "upsert", "archive", "sweep"}
    BY <1>5 DEF ChangeListing, BeginFails, FetchPage, FetchEmptyPage, FetchTruncatedPage,
       FetchFails, UpsertFails, EndPage, vars
  <2> QED
    BY <2>1, <2>2, Stutters DEF Sweeping
<1>6. CASE \/ CloseArchive \/ CloseArchiveFails \/ MissAndCloseFails \/ Finish
           \/ FinishFails \/ Crash
  <2>1. UNCHANGED <<job, day>>
    BY <1>6 DEF CloseArchive, CloseArchiveFails, MissAndCloseFails, Finish, FinishFails,
       Crash, tableVars, boardVars
  <2>2. ~Sweeping => ~Sweeping'
    BY <1>6 DEF CloseArchive, CloseArchiveFails, AfterArchive, MissAndCloseFails, Finish,
       FinishFails, Crash, Forget, Sweeping, scanVars
  <2>3. Sweeping' => seen' = seen
    BY <1>6 DEF CloseArchive, CloseArchiveFails, MissAndCloseFails, Finish, FinishFails,
       Crash, Forget, Sweeping
  <2>4. CASE Sweeping' = Sweeping
    BY <2>1, <2>3, <2>4, Stutters
  <2>5. CASE Sweeping /\ ~Sweeping'
    BY <2>1, <2>5, Aborts DEF Promise!Next
  <2> QED
    BY <2>2, <2>4, <2>5 DEF Sweeping
<1> QED
  BY <1>1, <1>2, <1>3, <1>4, <1>5, <1>6 DEF Next

\* The job implements the lifecycle it promises, for any board, page size,
\* window and combination of faults.
THEOREM Implementation == Spec => ImplementsLifecycle
<1>1. Init => Promise!Init
  BY InitImplements
<1>2. ASSUME IInv, [Next]_vars PROVE [Promise!Next]_(Promise!vars)
  <2>1. Promise!Next \/ UNCHANGED Promise!vars
    BY <1>2, StepImplements
  <2> QED
    BY <2>1 DEF Promise!vars
<1> QED
  BY <1>1, <1>2, Invariance, PTL DEF Spec, ImplementsLifecycle, Promise!Spec
=============================================================================
