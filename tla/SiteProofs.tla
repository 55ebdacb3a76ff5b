----------------------------- MODULE SiteProofs -----------------------------
(***************************************************************************)
(* Proofs about Site, for all postings, technologies, rows and instants,   *)
(* and any runs and writes.                                                *)
(***************************************************************************)
EXTENDS Site, StatisticsProofs, CalendarProofs

-----------------------------------------------------------------------------
(* Instants                                                                *)

\* All instants lie between the first and the last.
LEMMA InstantsFit ==
  /\ Min(Times) \in Times /\ Max(Times) \in Times
  /\ Times \subseteq Instant /\ Instant \subseteq Nat
<1>1. Min(Times) \in Times /\ \A t \in Times : Min(Times) <= t
  BY SiteAssumption, Least
<1>2. Max(Times) \in Times /\ \A t \in Times : t <= Max(Times)
  <2>1. \E last \in Times : \A t \in Times : last >= t
    BY SiteAssumption
  <2>2. Max(Times) \in Times /\ \A t \in Times : Max(Times) >= t
    BY <2>1, Zenon DEF Max
  <2> QED
    BY <2>2, SiteAssumption
<1>3. \A t \in Times : t \in Nat
  BY SiteAssumption
<1>4. Times \subseteq Instant
  BY <1>1, <1>2, <1>3 DEF Instant
<1>5. Instant \subseteq Nat
  BY <1>1, <1>2, <1>3 DEF Instant
<1> QED
  BY <1>1, <1>2, <1>4, <1>5

-----------------------------------------------------------------------------
(* Types                                                                   *)

Stamped(shape, f, t, c) == Over(shape, [first |-> f, seen |-> t, closed |-> c])

\* A row is a shape with the store's stamps, in their order.
RowFit(p) ==
  \E shape \in Shape, f, t \in Times, c \in Times \cup {None} :
    /\ job[p] = Stamped(shape, f, t, c)
    /\ f <= t /\ t <= now /\ (c # None => t <= c /\ c <= now)

JobsFit == job = [p \in Posting |-> job[p]] /\ \A p \in Stored : RowFit(p)

TechFit ==
  /\ tech \in [Posting -> SUBSET (Slug \X Layers)] /\ marks \in [Posting -> SUBSET Layers]
  /\ \A p \in Posting : job[p] = None => tech[p] = {} /\ marks[p] = {}

RunFit(r) ==
  /\ r \in RunRow /\ (r.end = None <=> r.status = "running") /\ r.start <= now
  /\ r.end # None => r.end \in r.start..now

RunsFit == runs \in Seq(RunRow) /\ \A i \in DOMAIN runs : RunFit(runs[i])

TypeInv == now \in Times /\ JobsFit /\ TechFit /\ RunsFit

\* The fields of a row, and what the close pass makes of it.
LEMMA StampedIs ==
  ASSUME NEW shape \in Shape, NEW f \in Times, NEW t \in Times, NEW c \in Times \cup {None},
         NEW n \in Times
  PROVE  /\ \A x \in DOMAIN shape : Stamped(shape, f, t, c)[x] = shape[x]
         /\ Stamped(shape, f, t, c).first = f /\ Stamped(shape, f, t, c).seen = t
         /\ Stamped(shape, f, t, c).closed = c /\ Stamped(shape, f, t, c) # None
         /\ [Stamped(shape, f, t, c) EXCEPT !.closed = n] = Stamped(shape, f, t, n)
<1> DEFINE stamps == [first |-> f, seen |-> t, closed |-> c]
           later  == [first |-> f, seen |-> t, closed |-> n]
           S      == {"first", "seen", "closed"}
<1>1. S \cap DOMAIN shape = {}
  BY SiteAssumption
<1>2. /\ DOMAIN stamps = S /\ stamps.first = f /\ stamps.seen = t /\ stamps.closed = c
      /\ DOMAIN later = S /\ later.first = f /\ later.seen = t /\ later.closed = n
  OBVIOUS
<1>3. Stamped(shape, f, t, c) = Over(shape, stamps) /\ Stamped(shape, f, t, n) = Over(shape, later)
  BY DEF Stamped
<1>4. Stamped(shape, f, t, c) # None
  BY <1>3, SiteAssumption
<1>5. \A x \in S : x = "first" \/ x = "seen" \/ x = "closed"
  OBVIOUS
<1>6. "first" \in S /\ "seen" \in S /\ "closed" \in S
  OBVIOUS
<1> HIDE DEF stamps, later, S
<1>7. Over(shape, stamps) = [x \in DOMAIN shape \cup S |-> IF x \in DOMAIN shape THEN shape[x] ELSE stamps[x]]
  BY <1>2, Zenon DEF Over
<1>8. Over(shape, later) = [x \in DOMAIN shape \cup S |-> IF x \in DOMAIN shape THEN shape[x] ELSE later[x]]
  BY <1>2, Zenon DEF Over
<1>9. \A x \in DOMAIN shape \cup S : x # "closed" =>
        (IF x \in DOMAIN shape THEN shape[x] ELSE stamps[x]) = (IF x \in DOMAIN shape THEN shape[x] ELSE later[x])
  BY <1>2, <1>5
<1>10. [Over(shape, stamps) EXCEPT !.closed = n] = Over(shape, later)
  BY <1>1, <1>2, <1>6, <1>7, <1>8, <1>9
<1>11. /\ \A x \in DOMAIN shape : Over(shape, stamps)[x] = shape[x]
       /\ \A x \in S : Over(shape, stamps)[x] = stamps[x]
  BY <1>1, <1>7
<1> QED
  BY <1>2, <1>3, <1>4, <1>6, <1>10, <1>11

\* At first there is one posting at most.
LEMMA TypeInit == Init => TypeInv
<1> SUFFICES ASSUME Init PROVE TypeInv
  OBVIOUS
<1>1. now \in Times
  BY InstantsFit DEF Init
<1>2. RunsFit
  BY DEF Init, RunsFit
<1>3. marks \in [Posting -> SUBSET Layers] /\ \A p \in Posting : marks[p] = {}
  BY DEF Init
<1>4. CASE job = [p \in Posting |-> None] /\ tech = NoTech
  <2>1. JobsFit
    BY <1>4 DEF JobsFit, Stored
  <2>2. TechFit
    BY <1>3, <1>4 DEF TechFit, NoTech
  <2> QED
    BY <1>1, <1>2, <2>1, <2>2 DEF TypeInv
<1>5. ASSUME NEW shape \in Legacy, NEW p \in Posting, p = Min(Posting),
             job = [q \in Posting |-> IF q = p THEN Row(shape, now) ELSE None],
             tech = [NoTech EXCEPT ![p] = {<<Min(Slug), "rule">>}]
      PROVE  TypeInv
  <2>1. shape \in Shape
    BY SiteAssumption
  <2>2. PICK row : row = Stamped(shape, now, now, None)
    OBVIOUS
  <2>3. row # None
    BY <1>1, <2>1, <2>2, StampedIs
  <2>4. job = [q \in Posting |-> IF q = p THEN row ELSE None]
    BY <1>5, <2>2 DEF Row, Stamped
  <2>5. JobsFit
    <3>1. job = [q \in Posting |-> job[q]] /\ Stored = {p} /\ job[p] = row
      BY <2>3, <2>4 DEF Stored
    <3>2. RowFit(p)
      BY <1>1, <2>1, <2>2, <3>1, SiteAssumption DEF RowFit
    <3> QED
      BY <3>1, <3>2 DEF JobsFit
  <2>6. Min(Slug) \in Slug
    BY SiteAssumption, Least
  <2>7. <<Min(Slug), "rule">> \in Slug \X Layers
    BY <2>6 DEF Layers
  <2>8. TechFit
    BY <1>3, <1>5, <2>3, <2>4, <2>7 DEF TechFit, NoTech
  <2> QED
    BY <1>1, <1>2, <2>5, <2>8 DEF TypeInv
<1>6. Min(Posting) \in Posting
  BY SiteAssumption, Least
<1> QED
  BY <1>4, <1>5, <1>6 DEF Init

\* A row of the audit with another end, status and counts.
LEMMA RunEnded ==
  ASSUME NEW r \in RunRow
  PROVE  /\ \A t \in Instant \cup {None} :
              /\ [r EXCEPT !.end = t] \in RunRow
              /\ [r EXCEPT !.end = t].start = r.start /\ [r EXCEPT !.end = t].end = t
         /\ \A s \in Statuses :
              /\ [r EXCEPT !.status = s] \in RunRow
              /\ [r EXCEPT !.status = s].start = r.start /\ [r EXCEPT !.status = s].end = r.end
              /\ [r EXCEPT !.status = s].status = s
         /\ \A n \in Nat :
              /\ [r EXCEPT !.seen = n] \in RunRow /\ [r EXCEPT !.errors = n] \in RunRow
              /\ [r EXCEPT !.seen = n].start = r.start /\ [r EXCEPT !.seen = n].end = r.end
              /\ [r EXCEPT !.seen = n].status = r.status
              /\ [r EXCEPT !.errors = n].start = r.start /\ [r EXCEPT !.errors = n].end = r.end
              /\ [r EXCEPT !.errors = n].status = r.status
  BY DEF RunRow

\* One with the audit of its scan.
LEMMA RunAudited ==
  ASSUME NEW r \in RunRow, NEW n \in Nat, NEW k \in BOOLEAN
  PROVE  /\ [r EXCEPT !.scanned = n] \in RunRow /\ [r EXCEPT !.totalMax = n] \in RunRow
         /\ [r EXCEPT !.skipped = k] \in RunRow
         /\ [r EXCEPT !.scanned = n].start = r.start /\ [r EXCEPT !.scanned = n].end = r.end
         /\ [r EXCEPT !.scanned = n].status = r.status
         /\ [r EXCEPT !.totalMax = n].start = r.start /\ [r EXCEPT !.totalMax = n].end = r.end
         /\ [r EXCEPT !.totalMax = n].status = r.status
         /\ [r EXCEPT !.skipped = k].start = r.start /\ [r EXCEPT !.skipped = k].end = r.end
         /\ [r EXCEPT !.skipped = k].status = r.status
  BY DEF RunRow

\* A row of the audit is replaced.
LEMMA RunSet ==
  ASSUME RunsFit, NEW i \in DOMAIN runs, NEW r, RunFit(r), runs' = [runs EXCEPT ![i] = r],
         now' = now
  PROVE  RunsFit'
<1>1. runs' \in Seq(RunRow) /\ DOMAIN runs' = DOMAIN runs
  BY DEF RunsFit, RunFit
<1>2. \A j \in DOMAIN runs : runs'[j] = IF j = i THEN r ELSE runs[j]
  BY DEF RunsFit
<1>3. \A j \in DOMAIN runs : RunFit(runs'[j])
  BY <1>2 DEF RunsFit
<1> QED
  BY <1>1, <1>3 DEF RunsFit, RunFit

\* Some postings are stored.
LEMMA StoredCount == Cardinality(Stored) \in Nat /\ Cardinality(Posting) \in Nat
<1>1. Stored \subseteq Posting
  BY DEF Stored
<1> QED
  BY <1>1, SiteAssumption, FS_Subset, FS_CardinalityType

\* TypeInv is inductive.
LEMMA TypeStep == TypeInv /\ [Next]_vars => TypeInv'
<1> SUFFICES ASSUME TypeInv, [Next]_vars PROVE TypeInv'
  OBVIOUS
<1> USE DEF TypeInv
<1>0. now \in Nat /\ now \in Instant /\ now # None
  BY InstantsFit, SiteAssumption
<1>1. CASE Tick
  <2> DEFINE Later == {t \in Times : t > now}
  <2>1. Later # {} /\ Later \subseteq Nat /\ now' = Min(Later)
    BY <1>1, SiteAssumption DEF Tick
  <2>2. now' \in Later
    BY <2>1, Least
  <2>3. now' \in Times /\ now' > now /\ now' \in Nat
    BY <2>2, SiteAssumption
  <2>4. UNCHANGED <<job, tech, marks, runs>>
    BY <1>1 DEF Tick, tables
  <2>5. JobsFit'
    <3>1. \A x \in Times : x <= now => x <= now'
      BY <1>0, <2>3, InstantsFit
    <3>2. \A p \in Posting : RowFit(p) => RowFit(p)'
      <4>1. SUFFICES ASSUME NEW p \in Posting, RowFit(p) PROVE RowFit(p)'
        OBVIOUS
      <4>2. PICK shape \in Shape, f, t \in Times, c \in Times \cup {None} :
              /\ job[p] = Stamped(shape, f, t, c)
              /\ f <= t /\ t <= now /\ (c # None => t <= c /\ c <= now)
        BY <4>1 DEF RowFit
      <4>3. t <= now' /\ (c # None => c <= now')
        BY <3>1, <4>2
      <4> QED
        BY <2>4, <4>2, <4>3 DEF RowFit
    <3> QED
      BY <2>4, <3>2 DEF JobsFit, Stored
  <2>6. TechFit'
    BY <2>4 DEF TechFit
  <2>7. RunsFit'
    <3>1. \A i \in DOMAIN runs : runs[i].start \in Nat /\ RunFit(runs[i])
      BY InstantsFit DEF RunsFit, RunFit, RunRow
    <3> QED
      BY <1>0, <2>3, <2>4, <3>1 DEF RunsFit, RunFit
  <2> QED
    BY <2>3, <2>5, <2>6, <2>7
<1>2. CASE \E k \in Kinds : Start(k)
  <2>1. PICK k \in Kinds : runs' = Append(runs, Running(k, now))
    BY <1>2 DEF Start, StartRun
  <2>2. UNCHANGED <<job, tech, marks, now>>
    BY <1>2 DEF Start, tables
  <2>3. Running(k, now) \in RunRow /\ RunFit(Running(k, now))
    BY <1>0 DEF Running, RunRow, RunFit, Statuses
  <2>4. PICK r : r = Running(k, now)
    OBVIOUS
  <2>5. runs' \in Seq(RunRow) /\ \A i \in DOMAIN runs' : runs'[i] = r \/ (i \in DOMAIN runs /\ runs'[i] = runs[i])
    BY <2>1, <2>3, <2>4 DEF RunsFit
  <2>6. \A i \in DOMAIN runs' : RunFit(runs'[i])
    BY <2>3, <2>4, <2>5 DEF RunsFit
  <2>7. RunsFit'
    BY <2>2, <2>5, <2>6 DEF RunsFit, RunFit
  <2> QED
    BY <2>2, <2>7 DEF JobsFit, RowFit, Stored, TechFit
<1>3. ASSUME NEW p \in Posting, NEW shape \in Shape, Sight(p, shape) PROVE TypeInv'
  <2>1. PICK first : first = IF job[p] = None THEN now ELSE job[p].first
    OBVIOUS
  <2>2. first \in Times /\ first <= now
    <3>1. CASE job[p] = None
      BY <1>0, <2>1, <3>1
    <3>2. CASE job[p] # None
      <4>1. PICK s \in Shape, f, t \in Times, c \in Times \cup {None} :
              job[p] = Stamped(s, f, t, c) /\ f <= t /\ t <= now
        BY <3>2 DEF JobsFit, RowFit, Stored
      <4>2. first = f
        BY <2>1, <3>2, <4>1, StampedIs
      <4> QED
        BY <1>0, <4>1, <4>2, SiteAssumption
    <3> QED
      BY <3>1, <3>2
  <2>3. PICK row : row = Stamped(shape, first, now, None)
    OBVIOUS
  <2>4. job' = [job EXCEPT ![p] = row]
    BY <1>3, <2>1, <2>3 DEF Sight, Row, Stamped
  <2>5. row # None
    BY <2>2, <2>3, StampedIs
  <2>6. UNCHANGED <<tech, marks, runs, now>>
    BY <1>3 DEF Sight
  <2>7. job' = [q \in Posting |-> job'[q]] /\ \A q \in Posting : job'[q] = IF q = p THEN row ELSE job[q]
    BY <2>4 DEF JobsFit
  <2>8. RowFit(p)'
    BY <1>0, <2>2, <2>3, <2>6, <2>7 DEF RowFit
  <2>9. \A q \in Stored' : RowFit(q)'
    BY <2>6, <2>7, <2>8 DEF JobsFit, RowFit, Stored
  <2>10. JobsFit'
    BY <2>7, <2>9 DEF JobsFit
  <2>11. TechFit'
    BY <2>5, <2>6, <2>7 DEF TechFit
  <2> QED
    BY <2>6, <2>10, <2>11 DEF RunsFit, RunFit
<1>4. ASSUME NEW p \in Posting, Close(p) PROVE TypeInv'
  <2>1. p \in Stored /\ job' = [job EXCEPT ![p] = [job[p] EXCEPT !.closed = now]]
    BY <1>4 DEF Close, Stored, JobsFit
  <2>2. PICK shape \in Shape, f, t \in Times, c \in Times \cup {None} :
          job[p] = Stamped(shape, f, t, c) /\ f <= t /\ t <= now
    BY <2>1 DEF JobsFit, RowFit
  <2>3. PICK row : row = Stamped(shape, f, t, now)
    OBVIOUS
  <2>4. job' = [job EXCEPT ![p] = row]
    <3>1. [Stamped(shape, f, t, c) EXCEPT !.closed = now] = Stamped(shape, f, t, now)
      BY StampedIs
    <3>2. [job[p] EXCEPT !.closed = now] = row
      BY <2>2, <2>3, <3>1
    <3> QED
      BY <2>1, <3>2
  <2>5. row # None
    BY <2>3, StampedIs
  <2>6. UNCHANGED <<tech, marks, runs, now>>
    BY <1>4 DEF Close
  <2>7. job' = [q \in Posting |-> job'[q]] /\ \A q \in Posting : job'[q] = IF q = p THEN row ELSE job[q]
    BY <2>4 DEF JobsFit
  <2>8. RowFit(p)'
    BY <1>0, <2>2, <2>3, <2>6, <2>7 DEF RowFit
  <2>9. \A q \in Stored' : RowFit(q)'
    BY <2>6, <2>7, <2>8 DEF JobsFit, RowFit, Stored
  <2>10. JobsFit'
    BY <2>7, <2>9 DEF JobsFit
  <2>11. TechFit'
    BY <2>5, <2>6, <2>7 DEF TechFit
  <2> QED
    BY <2>6, <2>10, <2>11 DEF RunsFit, RunFit
<1>5. ASSUME NEW p \in Posting, NEW l \in Layers, Enrich(p, l) PROVE TypeInv'
  <2>1. UNCHANGED <<job, runs, now>> /\ p \in Stored
    BY <1>5 DEF Enrich
  <2>2. FoundBy[l] \X {l} \subseteq Slug \X Layers
    BY SiteAssumption
  <2>3. tech' \in [Posting -> SUBSET (Slug \X Layers)] /\ marks' \in [Posting -> SUBSET Layers]
    BY <1>5, <2>2 DEF Enrich, TechFit
  <2>4. \A q \in Posting \ {p} : tech'[q] = tech[q] /\ marks'[q] = marks[q]
    BY <1>5 DEF Enrich, TechFit
  <2>5. TechFit'
    BY <2>1, <2>3, <2>4 DEF TechFit, Stored
  <2> QED
    BY <2>1, <2>5 DEF JobsFit, RowFit, Stored, RunsFit, RunFit
<1>6. ASSUME NEW i \in Working(Kinds), NEW s \in Statuses \ {"running"}, Finish(i, s) PROVE TypeInv'
  <2>0. i \in DOMAIN runs /\ runs[i] \in RunRow /\ RunFit(runs[i]) /\ s \in Statuses
    BY <1>6 DEF Working, RunsFit
  <2>1. PICK n, e \in Nat :
          runs' = [runs EXCEPT ![i].end = now, ![i].status = s, ![i].seen = n, ![i].errors = e]
    <3>1. Cardinality(Stored) \in Nat
      BY StoredCount
    <3> DEFINE N == IF runs[i].kind \in IngestKinds /\ s # "failed" THEN Cardinality(Stored) ELSE 0
               E == IF s = "success" \/ (s = "partial" /\ runs[i].kind = "full_reconcile") THEN 0 ELSE 1
    <3>2. N \in Nat /\ E \in Nat
      BY <3>1
    <3>3. runs' = [runs EXCEPT ![i].end = now, ![i].status = s, ![i].seen = N, ![i].errors = E]
      BY <1>6 DEF Finish, FinishRun
    <3> QED
      BY <3>2, <3>3
  <2>2. PICK a : a = [runs[i] EXCEPT !.end = now]
    OBVIOUS
  <2>3. PICK b : b = [a EXCEPT !.status = s]
    OBVIOUS
  <2>4. PICK c : c = [b EXCEPT !.seen = n]
    OBVIOUS
  <2>5. PICK r : r = [c EXCEPT !.errors = e]
    OBVIOUS
  <2>6. a \in RunRow /\ a.start = runs[i].start /\ a.end = now
    BY <1>0, <2>0, <2>2, RunEnded
  <2>7. b \in RunRow /\ b.start = a.start /\ b.end = a.end /\ b.status = s
    BY <1>0, <2>0, <2>3, <2>6, RunEnded
  <2>8. c \in RunRow /\ c.start = b.start /\ c.end = b.end /\ c.status = b.status
    BY <1>0, <2>0, <2>4, <2>7, RunEnded
  <2>9. r \in RunRow /\ r.start = c.start /\ r.end = c.end /\ r.status = c.status
    BY <1>0, <2>0, <2>5, <2>8, RunEnded
  <2>10. RunFit(r)
    <3>1. r.start = runs[i].start /\ r.end = now /\ r.status = s
      BY <2>6, <2>7, <2>8, <2>9
    <3>2. runs[i].start \in Nat /\ runs[i].start <= now
      BY <2>0, InstantsFit DEF RunFit, RunRow
    <3> QED
      BY <1>0, <2>9, <3>1, <3>2 DEF RunFit
  <2>11. runs' = [runs EXCEPT ![i] = r]
    BY <2>0, <2>1, <2>2, <2>3, <2>4, <2>5 DEF RunsFit
  <2>12. UNCHANGED <<job, tech, marks, now>>
    BY <1>6 DEF Finish, tables
  <2>13. RunsFit'
    BY <2>0, <2>10, <2>11, <2>12, RunSet
  <2> QED
    BY <2>12, <2>13 DEF JobsFit, RowFit, Stored, TechFit
<1>7. ASSUME NEW i \in DOMAIN runs, Audit(i) PROVE TypeInv'
  <2>0. runs[i] \in RunRow /\ RunFit(runs[i])
    BY DEF RunsFit, RunFit
  <2>1. PICK n, m \in Nat, k \in BOOLEAN :
          runs' = [runs EXCEPT ![i].scanned = n, ![i].totalMax = m, ![i].skipped = k]
    <3>1. Cardinality(Stored) \in Nat /\ Cardinality(Posting) \in Nat
      BY StoredCount
    <3>2. (runs[i].status = "partial") \in BOOLEAN
      OBVIOUS
    <3>3. runs' = [runs EXCEPT ![i].scanned = Cardinality(Stored), ![i].totalMax = Cardinality(Posting),
                               ![i].skipped = (runs[i].status = "partial")]
      BY <1>7 DEF Audit, RecordScanAudit
    <3> QED
      BY <3>1, <3>2, <3>3
  <2>2. PICK a : a = [runs[i] EXCEPT !.scanned = n]
    OBVIOUS
  <2>3. PICK b : b = [a EXCEPT !.totalMax = m]
    OBVIOUS
  <2>4. PICK r : r = [b EXCEPT !.skipped = k]
    OBVIOUS
  <2>5. a \in RunRow /\ a.start = runs[i].start /\ a.end = runs[i].end /\ a.status = runs[i].status
    BY <2>0, <2>2, RunAudited
  <2>6. b \in RunRow /\ b.start = a.start /\ b.end = a.end /\ b.status = a.status
    BY <2>3, <2>5, RunAudited
  <2>7. r \in RunRow /\ r.start = b.start /\ r.end = b.end /\ r.status = b.status
    BY <2>4, <2>6, RunAudited
  <2>8. RunFit(r)
    BY <2>0, <2>5, <2>6, <2>7 DEF RunFit
  <2>9. runs' = [runs EXCEPT ![i] = r]
    BY <2>1, <2>2, <2>3, <2>4 DEF RunsFit
  <2>10. UNCHANGED <<job, tech, marks, now>>
    BY <1>7 DEF Audit, tables
  <2>11. RunsFit'
    BY <2>8, <2>9, <2>10, RunSet
  <2> QED
    BY <2>10, <2>11 DEF JobsFit, RowFit, Stored, TechFit
<1>8. CASE ReadDenominator \/ ReadCounts \/ UNCHANGED vars
  BY <1>8 DEF ReadDenominator, ReadCounts, vars, tables, JobsFit, RowFit, Stored, TechFit, RunsFit, RunFit
<1> QED
  BY <1>1, <1>2, <1>3, <1>4, <1>5, <1>6, <1>7, <1>8 DEF Next

\* TypeInv says more than TypeOK.
LEMMA TypeImplied == TypeInv => TypeOK
<1> SUFFICES ASSUME TypeInv PROVE TypeOK
  OBVIOUS
<1>1. ASSUME NEW p \in Stored
      PROVE  /\ \E shape \in Shape : \A f \in DOMAIN shape : job[p][f] = shape[f]
             /\ job[p].first \in Instant /\ job[p].seen \in job[p].first..now
             /\ job[p].closed # None => job[p].closed \in job[p].seen..now
  <2>1. PICK shape \in Shape, f, t \in Times, c \in Times \cup {None} :
          /\ job[p] = Stamped(shape, f, t, c)
          /\ f <= t /\ t <= now /\ (c # None => t <= c /\ c <= now)
    BY DEF TypeInv, JobsFit, RowFit
  <2>2. /\ \A x \in DOMAIN shape : job[p][x] = shape[x]
        /\ job[p].first = f /\ job[p].seen = t /\ job[p].closed = c
    BY <2>1, StampedIs
  <2>3. f \in Instant /\ f \in Nat /\ t \in Nat /\ now \in Nat /\ (c # None => c \in Nat)
    BY InstantsFit, SiteAssumption DEF TypeInv
  <2> QED
    BY <2>1, <2>2, <2>3
<1>2. \A i \in DOMAIN runs :
        /\ runs[i] \in RunRow
        /\ (runs[i].end = None) = (runs[i].status = "running")
        /\ runs[i].end # None => runs[i].end \in runs[i].start..now
  BY DEF TypeInv, RunsFit, RunFit
<1> QED
  BY <1>1, <1>2 DEF TypeOK, TypeInv, TechFit

\* The stamps of a posting and of a run are in their order, whatever runs
\* store, close and enrich, and a row of the audit has an end exactly if it
\* says how the run ended (TypeOK).
THEOREM TypeCorrect == Spec => []TypeOK
<1> QED
  BY TypeInit, TypeStep, TypeImplied, PTL DEF Spec

-----------------------------------------------------------------------------
(* Shares of technologies                                                  *)

\* A posting that is not enriched is counted neither below a share nor above it.
LEMMA SharesIgnore ==
  ASSUME JobsFit, NEW p \in Posting, Unenriched(p), UNCHANGED <<tech, marks, now>>,
         job' = [q \in Posting |-> job'[q]],
         \A q \in Posting \ {p} : job'[q] = job[q]
  PROVE  Shares' = Shares
<1> DEFINE week == LastCompletedWeek(now)
           Counted(q) == q \in swePosted(week, AnyLens)
<1>1. /\ ~enriched(p) /\ ~enriched(p)'
      /\ \A s \in Slug : ~Mentions(p, s) /\ ~Mentions(p, s)'
  BY DEF Unenriched, enriched, Mentions
<1>2. \A q \in Posting \ {p} : Counted(q) <=> Counted(q)'
  BY DEF swePosted, SWEJobs, Stored, InLens, AnyLens
<1>3. \A q : Counted(q) \/ Counted(q)' => q \in Posting
  BY DEF swePosted, SWEJobs, Stored
<1>4. {q \in swePosted(week, AnyLens) : enriched(q)}' = {q \in swePosted(week, AnyLens) : enriched(q)}
  BY <1>1, <1>2, <1>3 DEF enriched
<1>5. ASSUME NEW s \in Slug
      PROVE  {q \in swePosted(week, AnyLens) : Mentions(q, s)}' = {q \in swePosted(week, AnyLens) : Mentions(q, s)}
  BY <1>1, <1>2, <1>3 DEF Mentions
<1>6. enrichedCount(week, AnyLens)' = enrichedCount(week, AnyLens)
  BY <1>4 DEF enrichedCount
<1>7. techCounts(week, AnyLens)' = techCounts(week, AnyLens)
  BY <1>5 DEF techCounts
<1> QED
  BY <1>6, <1>7 DEF Shares

\* Whatever postings are waiting for enrichment, and however they are stored,
\* edited and closed meanwhile, no share moves (BacklogMovesNoShare).
THEOREM BacklogIsHarmless == Spec => BacklogMovesNoShare
<1>1. ASSUME TypeInv, Next, NEW p \in Posting, job'[p] # job[p], Unenriched(p), now' = now
      PROVE  Shares' = Shares
  <2>1. UNCHANGED <<tech, marks>> /\ \E q \in Posting : \E row : job' = [job EXCEPT ![q] = row]
    BY <1>1 DEF Next, Tick, Start, Sight, Close, Enrich, Finish, Audit, ReadDenominator, ReadCounts,
       tables, Stored, TypeInv, JobsFit
  <2>2. PICK q \in Posting : \E row : job' = [job EXCEPT ![q] = row]
    BY <2>1
  <2>3. q = p /\ job' = [x \in Posting |-> job'[x]] /\ \A x \in Posting \ {p} : job'[x] = job[x]
    BY <1>1, <2>2 DEF TypeInv, JobsFit
  <2> QED
    BY <1>1, <2>1, <2>3, SharesIgnore DEF TypeInv
<1>2. TypeInv /\ [Next]_vars =>
        [\A p \in Posting : (job'[p] # job[p] /\ Unenriched(p) /\ now' = now) => Shares' = Shares]_vars
  BY <1>1
<1> QED
  BY <1>2, TypeInit, TypeStep, PTL DEF Spec, BacklogMovesNoShare

-----------------------------------------------------------------------------
(* A page that is read in two steps                                        *)

ReadShape(x) ==
  x = [stage |-> x.stage, week |-> x.week, denom |-> x.denom, counts |-> x.counts, quiet |-> x.quiet]

\* As long as nothing is written, the denominator is that of the tables.
ReadFit ==
  /\ ReadShape(read)
  /\ read.stage # "none" => read.denom \in Nat
  /\ read.stage = "read" => \A s \in Slug : read.counts[s] \in Nat
  /\ \A w : (read.stage = "counts" /\ read.quiet /\ read.week = w) =>
       read.denom = enrichedCount(w, AnyLens)
  /\ read.stage = "read" /\ read.quiet => \A s \in Slug : read.counts[s] <= read.denom

\* The fields of a reading that a step replaces.
LEMMA ReadWith ==
  ASSUME NEW x, ReadShape(x), NEW v
  PROVE  /\ [x EXCEPT !.quiet = v]
              = [stage |-> x.stage, week |-> x.week, denom |-> x.denom, counts |-> x.counts, quiet |-> v]
         /\ [x EXCEPT !.stage = "read", !.counts = v]
              = [stage |-> "read", week |-> x.week, denom |-> x.denom, counts |-> v, quiet |-> x.quiet]
<1> DEFINE S == [stage : {x.stage}, week : {x.week}, denom : {x.denom},
                 counts : {x.counts}, quiet : {x.quiet}]
           y == [stage |-> "read", week |-> x.week, denom |-> x.denom, counts |-> x.counts, quiet |-> x.quiet]
           T == [stage : {"read"}, week : {x.week}, denom : {x.denom},
                 counts : {x.counts}, quiet : {x.quiet}]
<1>1. x \in S
  BY DEF ReadShape
<1>2. [x EXCEPT !.quiet = v]
        = [stage |-> x.stage, week |-> x.week, denom |-> x.denom, counts |-> x.counts, quiet |-> v]
  BY <1>1
<1>3. [x EXCEPT !.stage = "read"] = y
  BY <1>1
<1>4. y \in T
  OBVIOUS
<1>5. [y EXCEPT !.counts = v]
        = [stage |-> "read", week |-> x.week, denom |-> x.denom, counts |-> v, quiet |-> x.quiet]
  BY <1>4
<1> QED
  BY <1>2, <1>3, <1>5

\* The counts of a week are at most its denominator while both see one table.
LEMMA CountsFit ==
  ASSUME NEW w, NEW s \in Slug
  PROVE  /\ techCounts(w, AnyLens)[s] \in Nat /\ enrichedCount(w, AnyLens) \in Nat
         /\ techCounts(w, AnyLens)[s] <= enrichedCount(w, AnyLens)
<1> DEFINE A == {p \in swePosted(w, AnyLens) : Mentions(p, s)}
           B == {p \in swePosted(w, AnyLens) : enriched(p)}
<1>1. A \subseteq B
  BY DEF Mentions, enriched
<1>2. B \subseteq Posting
  BY DEF swePosted, SWEJobs, Stored
<1>3. IsFiniteSet(B)
  BY <1>2, SiteAssumption, FS_Subset
<1>4. Cardinality(A) <= Cardinality(B) /\ Cardinality(A) \in Nat /\ Cardinality(B) \in Nat
  BY <1>1, <1>3, Smaller
<1>5. techCounts(w, AnyLens)[s] = Cardinality(A) /\ enrichedCount(w, AnyLens) = Cardinality(B)
  BY DEF techCounts, enrichedCount
<1> QED
  BY <1>4, <1>5

\* A denominator is that of the tables, which alone it is computed from.
LEMMA CountStays ==
  ASSUME UNCHANGED tables, NEW w
  PROVE  enrichedCount(w, AnyLens)' = enrichedCount(w, AnyLens)
  BY DEF tables, enrichedCount, swePosted, SWEJobs, Stored, InLens, AnyLens, enriched

LEMMA ReadInit == Init => ReadFit
  BY DEF Init, ReadFit, ReadShape, NotRead

LEMMA ReadStep == ReadFit /\ [Next]_vars => ReadFit'
<1> SUFFICES ASSUME ReadFit, [Next]_vars PROVE ReadFit'
  OBVIOUS
<1>1. CASE ReadDenominator
  <2>1. PICK w : w = LastCompletedWeek(now)
    OBVIOUS
  <2>2. read' = [stage |-> "counts", week |-> w, denom |-> enrichedCount(w, AnyLens),
                 counts |-> None, quiet |-> TRUE]
    BY <1>1, <2>1 DEF ReadDenominator
  <2>3. enrichedCount(w, AnyLens)' = enrichedCount(w, AnyLens)
    BY <1>1, CountStays DEF ReadDenominator
  <2>4. enrichedCount(w, AnyLens) \in Nat
    BY CountsFit, SiteAssumption
  <2> QED
    BY <2>2, <2>3, <2>4 DEF ReadFit, ReadShape
<1>2. CASE ReadCounts
  <2>1. PICK w : w = read.week
    OBVIOUS
  <2>2. PICK counts : counts = techCounts(w, AnyLens)
    OBVIOUS
  <2>3. read.stage = "counts" /\ read' = [read EXCEPT !.stage = "read", !.counts = counts]
    BY <1>2, <2>1, <2>2 DEF ReadCounts
  <2>4. read' = [stage |-> "read", week |-> w, denom |-> read.denom, counts |-> counts, quiet |-> read.quiet]
    BY <2>1, <2>3, ReadWith DEF ReadFit
  <2>5. read.quiet => read.denom = enrichedCount(w, AnyLens)
    BY <2>1, <2>3 DEF ReadFit
  <2>6. \A s \in Slug : counts[s] \in Nat /\ counts[s] <= enrichedCount(w, AnyLens)
    BY <2>2, CountsFit
  <2>7. read.denom \in Nat
    BY <2>3 DEF ReadFit
  <2>8. /\ read'.stage = "read" /\ read'.denom = read.denom /\ read'.counts = counts
        /\ read'.quiet = read.quiet /\ ReadShape(read')
    BY <2>4 DEF ReadShape
  <2> QED
    BY <2>5, <2>6, <2>7, <2>8 DEF ReadFit
<1>3. ASSUME Disturb PROVE ReadFit'
  <2>1. CASE read.stage = "counts"
    <3>1. read' = [stage |-> read.stage, week |-> read.week, denom |-> read.denom,
                   counts |-> read.counts, quiet |-> FALSE]
      BY <1>3, <2>1, ReadWith DEF Disturb, ReadFit
    <3> QED
      BY <2>1, <3>1 DEF ReadFit, ReadShape
  <2>2. CASE read.stage # "counts"
    BY <1>3, <2>2 DEF Disturb, ReadFit
  <2> QED
    BY <2>1, <2>2
<1>4. CASE UNCHANGED <<job, tech, marks, read>>
  <2>1. \A w : enrichedCount(w, AnyLens)' = enrichedCount(w, AnyLens)
    BY <1>4, CountStays DEF tables
  <2> QED
    BY <1>4, <2>1 DEF ReadFit
<1> QED
  BY <1>1, <1>2, <1>3, <1>4 DEF Next, Tick, Start, Sight, Close, Enrich, Finish, Audit, vars, tables

\* The table of /tech, whatever was read when, says of no technology that it
\* rises and that it falls, and moves one only with a full history.
LEMMA TableFit ==
  ASSUME ReadFit, read.stage = "read"
  PROVE  LET table == TechTable(read.denom, read.counts, Baseline(read.week, AnyLens))
         IN  /\ table.rising \cap table.falling = {}
             /\ table.rising \cup table.falling \subseteq table.eligible
             /\ table.eligible # {} => table.history = MinWeeks
<1>1. MinWeeks \in Nat \ {0} /\ IsFiniteSet(Posting)
  BY SiteAssumption
<1>2. PICK base : base = Baseline(read.week, AnyLens)
  OBVIOUS
<1>3. IsFiniteSet(base) /\ Cardinality(base) \in 0..(MinWeeks - 1) /\ \A b \in base : WeekFit(b)
  BY <1>1, <1>2, BaselineIs
<1>4. read.denom \in Nat /\ \A s \in Slug : read.counts[s] \in Nat
  BY DEF ReadFit
<1> QED
  BY <1>1, <1>2, <1>3, <1>4, TableMoves

\* A reading during which no table is written shows no share above one: only
\* a writer between the two queries of /tech can tear it.  And no reading, torn
\* or not, puts a technology on both boards, or on one without a full history
\* of enriched weeks (TornOnlyByWriters).
THEOREM QuietReadings == Spec => []TornOnlyByWriters
<1>1. ReadFit => TornOnlyByWriters
  BY TableFit DEF ReadFit, TornOnlyByWriters
<1> QED
  BY <1>1, ReadInit, ReadStep, PTL DEF Spec
-----------------------------------------------------------------------------
(* What the columns hold, and what is selected from them                   *)

\* A row holds what its shape says.
LEMMA RowIs ==
  ASSUME TypeInv, NEW p \in Stored
  PROVE  /\ job[p].posted \in Int /\ job[p].swe \in BOOLEAN
         /\ job[p].years \in Int \cup {None} /\ job[p].pay \in Int \cup {None}
         /\ job[p].first \in Nat /\ job[p].seen \in Nat /\ job[p].closed \in Nat \cup {None}
         /\ job[p].first <= now /\ (job[p].closed # None => job[p].closed <= now)
<1>1. PICK shape \in Shape, f, t \in Times, c \in Times \cup {None} :
        /\ job[p] = Stamped(shape, f, t, c)
        /\ f <= t /\ t <= now /\ (c # None => t <= c /\ c <= now)
  BY DEF TypeInv, JobsFit, RowFit
<1>2. /\ \A x \in DOMAIN shape : job[p][x] = shape[x]
      /\ job[p].first = f /\ job[p].seen = t /\ job[p].closed = c
  BY <1>1, StampedIs
<1>3. Typed(shape)
  BY SiteAssumption
<1>4. /\ job[p].posted = shape.posted /\ job[p].swe = shape.swe
      /\ job[p].years = shape.years /\ job[p].pay = shape.pay
  BY <1>2, <1>3 DEF Typed
<1>5. f \in Nat /\ t \in Nat /\ now \in Nat /\ (c # None => c \in Nat)
  BY InstantsFit, SiteAssumption DEF TypeInv
<1> QED
  BY <1>1, <1>2, <1>3, <1>4, <1>5 DEF Typed

\* The selections of a page are postings that are stored.
LEMMA Selected ==
  /\ IsFiniteSet(Stored) /\ IsFiniteSet(Posting) /\ Stored \in SUBSET Posting
  /\ \A lens : SWEJobs(lens) \in SUBSET Stored
  /\ \A w, lens : /\ swePosted(w, lens) \in SUBSET Stored
                  /\ Comparable(w, lens) \in SUBSET swePosted(w, lens)
  /\ \A today, lens : active(today, lens) \in SUBSET Stored
<1>1. Stored \in SUBSET Posting
  BY DEF Stored
<1> QED
  BY <1>1, SiteAssumption, Smaller DEF swePosted, SWEJobs, Comparable, active

\* Salaries that are compared are numbers.
LEMMA SalariesAre ==
  ASSUME TypeInv, NEW w, NEW lens, NEW S \in SUBSET Comparable(w, lens)
  PROVE  IsFiniteSet(S) /\ S \in SUBSET Stored /\ \A p \in S : Midpoint(p) \in Int
<1>1. S \in SUBSET Stored /\ IsFiniteSet(S)
  <2>1. Comparable(w, lens) \in SUBSET swePosted(w, lens) /\ swePosted(w, lens) \in SUBSET Stored
    BY Selected
  <2>2. S \in SUBSET Stored
    BY <2>1
  <2> QED
    BY <2>2, Selected, Smaller
<1>2. \A p \in S : job[p].pay # None
  BY DEF Comparable, comparableSalary, statedSalary
<1>3. \A p \in Stored : job[p].pay \in Int \cup {None}
  BY RowIs
<1> QED
  BY <1>1, <1>2, <1>3 DEF Midpoint

\* A cell shows salaries of its sample, in order, or none.
LEMMA CellIs ==
  ASSUME NEW S, IsFiniteSet(S), \A p \in S : Midpoint(p) \in Int
  PROVE  IsCell(cellOf(S), S)
<1>1. Cardinality(S) \in Nat /\ MinCell \in Nat \ {0} /\ None \notin Int
  BY SiteAssumption, FS_CardinalityType
<1>2. CASE Suppressed(Cardinality(S), MinCell)
  BY <1>1, <1>2 DEF IsCell, cellOf, Suppressed
<1>3. CASE ~Suppressed(Cardinality(S), MinCell)
  <2>1. Cardinality(S) >= MinCell /\ S # {}
    BY <1>1, <1>3, FS_EmptySet DEF Suppressed
  <2>2. PICK f : f = Pay(S)
    OBVIOUS
  <2>3. DOMAIN f = S /\ \A p \in S : f[p] = Midpoint(p)
    BY <2>2 DEF Pay
  <2>4. /\ Percentile(f, 1, 4) <= Percentile(f, 1, 2)
        /\ Percentile(f, 1, 2) <= Percentile(f, 3, 4)
    BY <2>1, <2>3, QuartilesInOrder
  <2>5. /\ Percentile(f, 1, 4) \in {Midpoint(p) : p \in S}
        /\ Percentile(f, 1, 2) \in {Midpoint(p) : p \in S}
        /\ Percentile(f, 3, 4) \in {Midpoint(p) : p \in S}
    <3>1. /\ Percentile(f, 1, 4) \in {f[p] : p \in DOMAIN f}
          /\ Percentile(f, 1, 2) \in {f[p] : p \in DOMAIN f}
          /\ Percentile(f, 3, 4) \in {f[p] : p \in DOMAIN f}
      BY <2>1, <2>3, PercentileIs
    <3> QED
      BY <2>3, <3>1
  <2>6. Percentile(f, 1, 2) # None
    BY <1>1, <2>5
  <2>7. cellOf(S) = [n |-> Cardinality(S), p25 |-> Percentile(f, 1, 4),
                     p50 |-> Percentile(f, 1, 2), p75 |-> Percentile(f, 3, 4)]
    BY <1>3, <2>2 DEF cellOf
  <2> QED
    BY <2>1, <2>4, <2>5, <2>6, <2>7 DEF IsCell
<1> QED
  BY <1>2, <1>3

\* The cells of the grid at some levels and roles hold the salaries there.
CellsOf(w, lens, L, R) ==
  UNION {gridSamples(w, lens)[c] : c \in (L \X R) \cap DOMAIN gridSamples(w, lens)}

PaidAt(w, lens, L, R) ==
  {p \in Comparable(w, lens) : job[p].level \in L /\ job[p].role \in R}

LEMMA CellsAt ==
  ASSUME NEW w, NEW lens, NEW L, NEW R
  PROVE  CellsOf(w, lens, L, R) = PaidAt(w, lens, L, R)
<1> DEFINE cells == gridSamples(w, lens)
           S == Comparable(w, lens)
           Here == {p \in S : job[p].level \in L /\ job[p].role \in R}
           D == {job[p].level : p \in Stored} \X {job[p].role : p \in Stored}
           Cell(c) == {p \in S : job[p].level = c[1] /\ job[p].role = c[2]}
<1>1. DOMAIN cells = D /\ \A c \in D : cells[c] = Cell(c)
  BY DEF gridSamples
<1>2. S \in SUBSET Stored
  BY Selected
<1> HIDE DEF cells, S
<1>3. ASSUME NEW c \in (L \X R) \cap D, NEW p \in cells[c] PROVE p \in Here
  BY <1>1
<1>4. ASSUME NEW p \in Here PROVE \E c \in (L \X R) \cap D : p \in cells[c]
  <2>1. PICK c : c = <<job[p].level, job[p].role>>
    OBVIOUS
  <2>2. c \in (L \X R) \cap D /\ p \in Cell(c)
    BY <1>2, <2>1
  <2> QED
    BY <1>1, <2>2
<1>5. UNION {cells[c] : c \in (L \X R) \cap DOMAIN cells} = Here
  BY <1>1, <1>3, <1>4
<1> QED
  BY <1>5, Zenon DEF cells, S, CellsOf, PaidAt

-----------------------------------------------------------------------------
(* Salaries and floors                                                     *)

\* The lens of every posting is that of its role.
LEMMA EveryRole == RoleOnly(AnyLens) = AnyLens
  BY DEF RoleOnly, AnyLens

LEMMA PremiumIs ==
  ASSUME TypeInv, NEW w, NEW s \in Slug, Premium(w, AnyLens, s) # None
  PROVE  /\ Cardinality(salarySample(w, AnyLens, s)) >= MinPremium
         /\ \A i \in 1..2 : Premium(w, AnyLens, s)[i] \in {Midpoint(p) : p \in Comparable(w, AnyLens)}
<1>1. PICK S, E : S = salarySample(w, AnyLens, s) /\ E = Comparable(w, AnyLens)
  OBVIOUS
<1>2. S \in SUBSET E
  BY <1>1 DEF salarySample
<1>3. IsFiniteSet(S) /\ IsFiniteSet(E) /\ (\A p \in E : Midpoint(p) \in Int) /\ Cardinality(S) \in Nat
  BY <1>1, <1>2, SalariesAre, FS_CardinalityType
<1>4. /\ ~Suppressed(Cardinality(S), MinPremium)
      /\ Premium(w, AnyLens, s) = <<Percentile(Pay(S), 1, 2), Percentile(Pay(E), 1, 2)>>
  BY <1>1 DEF Premium
<1>5. Cardinality(S) >= MinPremium /\ S # {} /\ E # {}
  BY <1>2, <1>3, <1>4, SiteAssumption, FS_EmptySet DEF Suppressed
<1>6. ASSUME NEW T \in {S, E} PROVE Percentile(Pay(T), 1, 2) \in {Midpoint(p) : p \in E}
  <2>1. PICK f : f = Pay(T)
    OBVIOUS
  <2>2. DOMAIN f = T /\ \A p \in T : f[p] = Midpoint(p)
    BY <2>1 DEF Pay
  <2>3. IsFiniteSet(T) /\ T # {} /\ T \in SUBSET E
    BY <1>2, <1>3, <1>5
  <2>4. Percentile(f, 1, 2) \in {f[p] : p \in DOMAIN f}
    BY <1>3, <2>2, <2>3, PercentileIs
  <2> QED
    BY <2>1, <2>2, <2>3, <2>4
<1> QED
  BY <1>1, <1>4, <1>5, <1>6

\* A row of the competition table counts the postings of its role, and shows
\* no number when they are too few.
LEMMA OneRow ==
  ASSUME NEW w, NEW r \in DOMAIN CompetitionByRole(w, AnyLens)
  PROVE  LET row     == CompetitionByRole(w, AnyLens)[r]
             Counted == {p \in swePosted(w, AnyLens) :
                           job[p].role # None /\ job[p].apps # None /\ job[p].views # None}
             size    == Cardinality({p \in Counted : job[p].role = r})
         IN  /\ row.postings = size
             /\ Suppressed(size, MinCompany) => row.apps = None
BY DEF CompetitionByRole

\* What a page shows of employers and roles is shown from the floor on.
LEMMA FloorsHold ==
  ASSUME TypeInv
  PROVE  LET firm == CompanyReport(now, AnyLens)
         IN  /\ \A c \in DOMAIN firm.top : firm.top[c].apps # None => firm.top[c].postings >= MinCompany
             /\ \A r \in DOMAIN firm.competition :
                  firm.competition[r].apps # None => firm.competition[r].postings >= MinCompany
<1>1. PICK w, today : w = Rolling(now, RollingDays) /\ today = SGTDay(now)
  OBVIOUS
<1>2. PICK firm : firm = CompanyReport(now, AnyLens)
  OBVIOUS
<1>3. firm.top = topCompanies(w, today, AnyLens) /\ firm.competition = CompetitionByRole(w, AnyLens)
  BY <1>1, <1>2 DEF CompanyReport
<1>4. \A A \in SUBSET Stored : Cardinality(A) \in Nat
  BY Selected, Smaller
<1>5. MinCompany \in Nat
  BY SiteAssumption
<1>6. ASSUME NEW c \in DOMAIN firm.top, firm.top[c].apps # None PROVE firm.top[c].postings >= MinCompany
  <2>1. PICK A : A = swePosted(w, AnyLens) \cap Of(c)
    OBVIOUS
  <2>2. Cardinality(A) \in Nat
    BY <1>4, <2>1, Selected
  <2>3. firm.top[c].postings = Cardinality(A)
    BY <1>3, <2>1 DEF topCompanies, Top
  <2>4. Suppressed(Cardinality(A), MinCompany) => firm.top[c].apps = None
    BY <1>3, <2>1 DEF topCompanies, Top
  <2> QED
    BY <1>5, <1>6, <2>2, <2>3, <2>4 DEF Suppressed
<1>7. ASSUME NEW r \in DOMAIN firm.competition, firm.competition[r].apps # None
      PROVE  firm.competition[r].postings >= MinCompany
  <2> DEFINE A == {p \in {p \in swePosted(w, AnyLens) :
                            job[p].role # None /\ job[p].apps # None /\ job[p].views # None} : job[p].role = r}
  <2>2. Cardinality(A) \in Nat
    <3>1. A \in SUBSET Stored
      BY Selected
    <3> HIDE DEF A
    <3> QED
      BY <1>4, <3>1
  <2>3. firm.competition[r].postings = Cardinality(A)
    BY <1>3, OneRow
  <2>4. Suppressed(Cardinality(A), MinCompany) => firm.competition[r].apps = None
    BY <1>3, OneRow
  <2> QED
    BY <1>5, <1>7, <2>2, <2>3, <2>4 DEF Suppressed
<1> QED
  BY <1>2, <1>6, <1>7

\* Whatever the tables hold, a salary that a page shows was advertised by a
\* posting of the sample it stands for, the quartiles of a cell are in order,
\* and a sample below its floor shows no number (ShownIsAdvertised).
THEOREM OnlyAdvertised == Spec => []ShownIsAdvertised
<1>1. ASSUME TypeInv PROVE ShownIsAdvertised
  <2>1. PICK w : w = Rolling(now, RollingDays)
    OBVIOUS
  <2>2. PICK sample : sample = Comparable(w, AnyLens)
    OBVIOUS
  <2>3. PICK pay : pay = PayReport(now, AnyLens)
    OBVIOUS
  <2>4. \A S \in SUBSET sample : IsCell(cellOf(S), S)
    <3>1. ASSUME NEW S \in SUBSET Comparable(w, AnyLens) PROVE IsCell(cellOf(S), S)
      BY <1>1, SalariesAre, CellIs
    <3> QED
      BY <2>2, <3>1
  <2>5. IsCell(pay.overall, sample)
    <3>1. pay.overall = cellOf(sample)
      BY <2>1, <2>2, <2>3 DEF PayReport, overallPay
    <3> QED
      BY <2>4, <3>1
  <2>6. ASSUME NEW c \in Levels \X Roles
        PROVE  IsCell(pay.grid[c], {p \in sample : <<job[p].level, job[p].role>> = c})
    <3> DEFINE Here == {p \in sample : <<job[p].level, job[p].role>> = c}
    <3>1. pay.grid[c] = cellOf(CellsOf(w, AnyLens, {c[1]}, {c[2]}))
      BY <2>1, <2>3 DEF PayReport, CellsOf
    <3>2. CellsOf(w, AnyLens, {c[1]}, {c[2]}) = PaidAt(w, AnyLens, {c[1]}, {c[2]})
      BY CellsAt
    <3>3. PaidAt(w, AnyLens, {c[1]}, {c[2]}) = Here
      BY <2>2 DEF PaidAt
    <3>4. pay.grid[c] = cellOf(Here)
      BY <3>1, <3>2, <3>3, Zenon
    <3>5. Here \in SUBSET sample
      OBVIOUS
    <3> HIDE DEF Here
    <3>6. IsCell(cellOf(Here), Here)
      BY <2>4, <3>5
    <3>7. IsCell(pay.grid[c], Here)
      BY <3>4, <3>6, Zenon
    <3> QED
      BY <3>7 DEF Here
  <2>7. ASSUME NEW b \in ladderBands PROVE IsCell(pay.ladder[b].pay, OnRung(sample, b))
    <3>1. pay.ladder[b].pay = cellOf(OnRung(sample, b))
      BY <2>1, <2>2, <2>3, EveryRole DEF PayReport, ladder
    <3>2. OnRung(sample, b) \in SUBSET sample
      BY DEF OnRung
    <3> QED
      BY <2>4, <3>1, <3>2
  <2>8. ASSUME NEW s \in Slug, Premium(w, AnyLens, s) # None
        PROVE  /\ Cardinality(salarySample(w, AnyLens, s)) >= MinPremium
               /\ \A i \in 1..2 : Premium(w, AnyLens, s)[i] \in {Midpoint(p) : p \in sample}
    BY <1>1, <2>2, <2>8, PremiumIs
  <2> QED
    BY <1>1, <2>1, <2>2, <2>3, <2>5, <2>6, <2>7, <2>8, FloorsHold DEF ShownIsAdvertised
<1> QED
  BY <1>1, TypeInit, TypeStep, PTL DEF Spec

-----------------------------------------------------------------------------
(* Bands, cells and groups                                                 *)

LEMMA FewAreFinite ==
  ASSUME NEW a, NEW b, NEW c, NEW d, NEW e
  PROVE  IsFiniteSet({a, b, c, d, e})
<1>1. IsFiniteSet({} \cup {a})
  BY FS_EmptySet, FS_AddElement
<1>2. IsFiniteSet(({} \cup {a}) \cup {b})
  BY <1>1, FS_AddElement
<1>3. IsFiniteSet((({} \cup {a}) \cup {b}) \cup {c})
  BY <1>2, FS_AddElement
<1>4. IsFiniteSet(((({} \cup {a}) \cup {b}) \cup {c}) \cup {d})
  BY <1>3, FS_AddElement
<1>5. IsFiniteSet((((({} \cup {a}) \cup {b}) \cup {c}) \cup {d}) \cup {e})
  BY <1>4, FS_AddElement
<1>6. (((({} \cup {a}) \cup {b}) \cup {c}) \cup {d}) \cup {e} = {a, b, c, d, e}
  OBVIOUS
<1> QED
  BY <1>5, <1>6

\* The sizes of the parts of a set of stored postings add up if each posting
\* is in exactly one part.
LEMMA PartsAddUp ==
  ASSUME NEW U \in SUBSET Stored, NEW I, IsFiniteSet(I), NEW P,
         \A i \in I : P[i] \in SUBSET U, \A p \in U : \E i \in I : p \in P[i],
         \A i, j \in I : \A p \in U : p \in P[i] /\ p \in P[j] => i = j,
         NEW f, f = On(f, I), \A i \in I : f[i] = Cardinality(P[i])
  PROVE  SumOf(f) = Cardinality(U)
<1>1. IsFiniteSet(U)
  BY Selected, Smaller
<1>2. Apart(U, I, P, U)
  <2>1. \A i, j \in I : i # j => P[i] \cap P[j] = {}
    OBVIOUS
  <2>2. U = UNION {P[i] : i \in I}
    OBVIOUS
  <2> QED
    BY <2>1, <2>2 DEF Apart
<1> QED
  BY <1>1, <1>2, CountParts

\* Stated years or none are on one rung of the ladder and in one band of the
\* lens.
LEMMA OneRung ==
  ASSUME NEW years \in Int \cup {None}
  PROVE  /\ \E b \in ladderBands : Rung(b, years)
         /\ \A b, c \in ladderBands : Rung(b, years) /\ Rung(c, years) => b = c
         /\ \E b \in expBands : ExpBand(b, years)
         /\ \A b, c \in expBands : ExpBand(b, years) /\ ExpBand(c, years) => b = c
<1>1. None \notin Int
  BY SiteAssumption
<1>2. \A b : b \in ladderBands <=> b = "0" \/ b = "1-2" \/ b = "3-5" \/ b = "6+" \/ b = "unstated"
  BY DEF ladderBands
<1>3. /\ Rung("0", years) <=> years # None /\ years <= 0
      /\ Rung("1-2", years) <=> years # None /\ years \in 1..2
      /\ Rung("3-5", years) <=> years # None /\ years \in 3..5
      /\ Rung("6+", years) <=> years # None /\ years >= 6
      /\ Rung("unstated", years) <=> years = None
  BY DEF Rung
<1>4. \A b : b \in expBands <=> b = "0-2" \/ b = "3-5" \/ b = "6+" \/ b = "unstated"
  BY DEF expBands
<1>5. /\ ExpBand("0-2", years) <=> years # None /\ years <= 2
      /\ ExpBand("3-5", years) <=> years # None /\ years \in 3..5
      /\ ExpBand("6+", years) <=> years # None /\ years >= 6
      /\ ExpBand("unstated", years) <=> years = None
  BY DEF ExpBand
<1>6. /\ \E b \in ladderBands : Rung(b, years)
      /\ \A b, c \in ladderBands : Rung(b, years) /\ Rung(c, years) => b = c
  BY <1>1, <1>2, <1>3
<1>7. /\ \E b \in expBands : ExpBand(b, years)
      /\ \A b, c \in expBands : ExpBand(b, years) /\ ExpBand(c, years) => b = c
  BY <1>1, <1>4, <1>5
<1> QED
  BY <1>6, <1>7

LEMMA RungsAddUp ==
  ASSUME TypeInv, NEW S \in SUBSET Stored,
         NEW f, f = On(f, ladderBands), \A b \in ladderBands : f[b] = Cardinality(OnRung(S, b))
  PROVE  SumOf(f) = Cardinality(S)
<1>1. PICK P : P = [b \in ladderBands |-> OnRung(S, b)]
  OBVIOUS
<1>2. \A b \in ladderBands : P[b] = OnRung(S, b)
  BY <1>1
<1>3. \A p \in S : job[p].years \in Int \cup {None}
  BY RowIs
<1>4. \A b \in ladderBands, p \in S : p \in P[b] <=> Rung(b, job[p].years)
  BY <1>2 DEF OnRung
<1>5. \A b \in ladderBands : P[b] \in SUBSET S
  BY <1>2 DEF OnRung
<1>6. \A p \in S : \E b \in ladderBands : p \in P[b]
  BY <1>3, <1>4, OneRung
<1>7. \A b, c \in ladderBands : \A p \in S : p \in P[b] /\ p \in P[c] => b = c
  BY <1>3, <1>4, OneRung
<1>8. IsFiniteSet(ladderBands)
  BY FewAreFinite DEF ladderBands
<1>9. \A b \in ladderBands : f[b] = Cardinality(P[b])
  BY <1>2
<1> QED
  BY <1>5, <1>6, <1>7, <1>8, <1>9, PartsAddUp

\* The lens of a band.
BandLens(b) == [AnyLens EXCEPT !.exp = b]

LEMMA BandsAddUp ==
  ASSUME TypeInv, NEW w, NEW f, f = On(f, expBands),
         \A b \in expBands : f[b] = Cardinality(swePosted(w, BandLens(b)))
  PROVE  SumOf(f) = Cardinality(swePosted(w, AnyLens))
<1>1. PICK P : P = [b \in expBands |-> swePosted(w, BandLens(b))]
  OBVIOUS
<1>2. PICK S : S = swePosted(w, AnyLens)
  OBVIOUS
<1>3. S \in SUBSET Stored /\ \A b \in expBands : P[b] = swePosted(w, BandLens(b))
  BY <1>1, <1>2, Selected
<1>4. \A p \in S : job[p].years \in Int \cup {None}
  BY <1>3, RowIs
<1>5. ASSUME NEW b \in expBands
      PROVE  P[b] = {p \in S : ExpBand(b, job[p].years)}
  <2>1. BandLens(b).exp = b /\ BandLens(b).role = None /\ b # None
    BY SiteAssumption DEF BandLens, AnyLens
  <2>2. AnyLens.exp = None /\ AnyLens.role = None
    BY DEF AnyLens
  <2>3. \A p : /\ InLens(p, BandLens(b)) <=> ExpBand(b, job[p].years)
               /\ InLens(p, AnyLens)
    BY <2>1, <2>2 DEF InLens
  <2> QED
    BY <1>2, <1>3, <2>3 DEF swePosted, SWEJobs
<1>6. \A p \in S : \E b \in expBands : p \in P[b]
  BY <1>4, <1>5, OneRung
<1>7. \A b, c \in expBands : \A p \in S : p \in P[b] /\ p \in P[c] => b = c
  BY <1>4, <1>5, OneRung
<1>8. IsFiniteSet(expBands)
  <2>1. expBands = {"0-2", "3-5", "6+", "unstated", "unstated"}
    BY DEF expBands
  <2> QED
    BY <2>1, FewAreFinite
<1>9. \A b \in expBands : P[b] \in SUBSET S /\ f[b] = Cardinality(P[b])
  BY <1>3, <1>5
<1> QED
  BY <1>2, <1>3, <1>6, <1>7, <1>8, <1>9, PartsAddUp

\* The groups of a column leave out nothing but those without a value.
LEMMA GroupsAddUp ==
  ASSUME NEW S \in SUBSET Stored, NEW f, DOMAIN f = S
  PROVE  SumOf(Groups(f)) \in Nat /\ SumOf(Groups(f)) <= Cardinality(S)
<1> DEFINE V == {f[p] : p \in S} \ {None}
           U == {p \in S : f[p] # None}
           P == [v \in V |-> {p \in S : f[p] = v}]
<1>1. IsFiniteSet(S)
  BY Selected, Smaller
<1>2. IsFiniteSet(V)
  <2>1. IsFiniteSet({f[p] : p \in S})
    BY <1>1, Images
  <2>2. V \in SUBSET {f[p] : p \in S}
    OBVIOUS
  <2> HIDE DEF V
  <2> QED
    BY <2>1, <2>2, Smaller
<1>3. Groups(f) = On(Groups(f), V) /\ \A v \in V : Groups(f)[v] = Cardinality(P[v])
  BY DEF Groups, On
<1>4. /\ \A v \in V : P[v] \in SUBSET U
      /\ \A p \in U : \E v \in V : p \in P[v]
      /\ \A v, u \in V : \A p \in U : p \in P[v] /\ p \in P[u] => v = u
  OBVIOUS
<1>5. U \in SUBSET Stored /\ U \in SUBSET S
  OBVIOUS
<1> HIDE DEF U, V, P
<1>6. SumOf(Groups(f)) = Cardinality(U)
  BY <1>2, <1>3, <1>4, <1>5, PartsAddUp
<1> QED
  BY <1>1, <1>5, <1>6, Smaller

\* The salaries at listed levels and roles, counted by level and by role.
LEMMA LevelsAddUp ==
  ASSUME NEW w, NEW lens, NEW f, f = On(f, Levels),
         \A l \in Levels : f[l] = Cardinality(PaidAt(w, lens, {l}, Roles))
  PROVE  SumOf(f) = Cardinality(PaidAt(w, lens, Levels, Roles))
<1> DEFINE U == PaidAt(w, lens, Levels, Roles)
           P == [l \in Levels |-> PaidAt(w, lens, {l}, Roles)]
<1>1. U \in SUBSET Stored
  BY Selected DEF PaidAt
<1>2. /\ \A l \in Levels : P[l] \in SUBSET U
      /\ \A p \in U : \E l \in Levels : p \in P[l]
      /\ \A l, k \in Levels : \A p \in U : p \in P[l] /\ p \in P[k] => l = k
  BY DEF PaidAt
<1>3. \A l \in Levels : f[l] = Cardinality(P[l])
  OBVIOUS
<1> HIDE DEF P
<1> QED
  BY <1>1, <1>2, <1>3, SiteAssumption, PartsAddUp

LEMMA RolesAddUp ==
  ASSUME NEW w, NEW lens, NEW f, f = On(f, Roles),
         \A r \in Roles : f[r] = Cardinality(PaidAt(w, lens, Levels, {r}))
  PROVE  SumOf(f) = Cardinality(PaidAt(w, lens, Levels, Roles))
<1> DEFINE U == PaidAt(w, lens, Levels, Roles)
           P == [r \in Roles |-> PaidAt(w, lens, Levels, {r})]
<1>1. U \in SUBSET Stored
  BY Selected DEF PaidAt
<1>2. /\ \A r \in Roles : P[r] \in SUBSET U
      /\ \A p \in U : \E r \in Roles : p \in P[r]
      /\ \A r, k \in Roles : \A p \in U : p \in P[r] /\ p \in P[k] => r = k
  BY DEF PaidAt
<1>3. \A r \in Roles : f[r] = Cardinality(P[r])
  OBVIOUS
<1> HIDE DEF P
<1> QED
  BY <1>1, <1>2, <1>3, SiteAssumption, PartsAddUp

\* The employers' disclosures.
LEMMA TypesAddUp ==
  ASSUME NEW w, NEW lens, NEW byType, byType = transparencyByCompanyType(w, lens),
         NEW f, f = On(f, DOMAIN byType), \A t \in DOMAIN byType : f[t] = byType[t].disclosed
  PROVE  SumOf(f) = windowTransparency(w, lens).disclosed
<1> DEFINE S == swePosted(w, lens)
           I == {CompanyType(p) : p \in S}
           U == {p \in S : statedSalary(p)}
           P == [t \in I |-> {p \in {p \in S : CompanyType(p) = t} : statedSalary(p)}]
<1>1. S \in SUBSET Stored /\ IsFiniteSet(S) /\ U \in SUBSET Stored
  BY Selected, Smaller
<1>2. IsFiniteSet(I)
  <2>1. PICK g : g = [p \in S |-> CompanyType(p)]
    OBVIOUS
  <2>2. DOMAIN g = S /\ {g[p] : p \in S} = I
    BY <2>1
  <2> HIDE DEF I, S
  <2>3. IsFiniteSet({g[p] : p \in S})
    BY <1>1, <2>2, Images
  <2> QED
    BY <2>2, <2>3
<1>3. DOMAIN byType = I /\ \A t \in I : byType[t].disclosed = Cardinality(P[t])
  BY DEF transparencyByCompanyType
<1>4. /\ \A t \in I : P[t] \in SUBSET U
      /\ \A p \in U : \E t \in I : p \in P[t]
      /\ \A t, k \in I : \A p \in U : p \in P[t] /\ p \in P[k] => t = k
  OBVIOUS
<1>5. windowTransparency(w, lens).disclosed = Cardinality(U)
  BY DEF windowTransparency
<1> HIDE DEF U, P, I
<1>6. f = On(f, I) /\ \A t \in I : f[t] = Cardinality(P[t])
  BY <1>3
<1>7. SumOf(f) = Cardinality(U)
  BY <1>1, <1>2, <1>4, <1>6, PartsAddUp
<1> QED
  BY <1>5, <1>7

\* A posting was listed for days of one band.
LEMMA OneLifetime ==
  ASSUME NEW d \in Nat
  PROVE  /\ \E b \in Lifetimes : LifetimeBand(b, d)
         /\ \A b, c \in Lifetimes : LifetimeBand(b, d) /\ LifetimeBand(c, d) => b = c
<1>1. \A b : b \in Lifetimes <=> b = "<7" \/ b = "7-14" \/ b = "15-30" \/ b = "30-60" \/ b = "60+"
  BY DEF Lifetimes
<1>2. /\ LifetimeBand("<7", d) <=> d < 7
      /\ LifetimeBand("7-14", d) <=> d \in 7..14
      /\ LifetimeBand("15-30", d) <=> d \in 15..30
      /\ LifetimeBand("30-60", d) <=> d \in 31..60
      /\ LifetimeBand("60+", d) <=> d >= 61
  BY DEF LifetimeBand
<1> QED
  BY <1>1, <1>2

LEMMA LifetimesAddUp ==
  ASSUME TypeInv, NEW w, NEW lens, NEW lifetime, lifetime = Lifetime(w, lens), lifetime.median # None
  PROVE  SumOf(lifetime.bands) = lifetime.closed
<1> DEFINE U == {p \in SWEJobs(lens) : job[p].closed # None /\ StampIn(job[p].closed, w)}
           P == [b \in Lifetimes |-> {p \in U : LifetimeBand(b, DaysListed(p))}]
<1>1. U \in SUBSET Stored
  BY Selected
<1>2. lifetime.closed = Cardinality(U)
  BY DEF Lifetime
<1>3. ~Suppressed(Cardinality(U), MinClosed)
  BY DEF Lifetime
<1>4. lifetime.bands = [b \in Lifetimes |-> Cardinality({p \in U : LifetimeBand(b, DaysListed(p))})]
  BY <1>3 DEF Lifetime
<1>5. ASSUME NEW p \in U PROVE DaysListed(p) \in Nat
  <2>1. job[p].closed \in Nat /\ job[p].posted \in Int
    BY <1>1, RowIs
  <2>2. PICK d : d = UTCDay(job[p].closed) - job[p].posted
    OBVIOUS
  <2>3. d \in Int
    BY <2>1, <2>2 DEF UTCDay
  <2> QED
    BY <2>2, <2>3 DEF DaysListed
<1>6. \A b \in Lifetimes : P[b] \in SUBSET U
  OBVIOUS
<1>7. \A b \in Lifetimes, p \in U : p \in P[b] <=> LifetimeBand(b, DaysListed(p))
  OBVIOUS
<1>8. PICK f : f = lifetime.bands
  OBVIOUS
<1>9. f = On(f, Lifetimes) /\ \A b \in Lifetimes : f[b] = Cardinality(P[b])
  BY <1>4, <1>8 DEF On
<1> HIDE DEF U, P
<1>10. \A p \in U : \E b \in Lifetimes : p \in P[b]
  BY <1>5, <1>7, OneLifetime
<1>11. \A b, c \in Lifetimes : \A p \in U : p \in P[b] /\ p \in P[c] => b = c
  BY <1>5, <1>7, OneLifetime
<1>12. IsFiniteSet(Lifetimes)
  BY FewAreFinite DEF Lifetimes
<1> QED
  BY <1>1, <1>2, <1>6, <1>8, <1>9, <1>10, <1>11, <1>12, PartsAddUp

\* A week and those before it.
LEMMA WeeksBefore ==
  ASSUME TypeInv
  PROVE  LET week == LastCompletedWeek(now)
         IN  weekBefore(week, 0) = week /\ PrevWeeks(week, 1)[1] = weekBefore(week, 1)
<1>1. now \in Int
  BY InstantsFit, SiteAssumption DEF TypeInv
<1>2. PICK d : d = Monday(SGTDay(now)) - 7
  OBVIOUS
<1>3. d \in Int /\ SGTDay(Midnight(d)) = d /\ LastCompletedWeek(now) = WeekFrom(d)
  <2>1. d \in Int
    BY <1>1, <1>2, DayOfInstant, MondayBefore
  <2> QED
    BY <1>1, <1>2, <2>1, CompletedWeekIsOver, MidnightIsThere
<1>4. weekBefore(WeekFrom(d), 0) = WeekFrom(d)
  <2>1. SGTDay(WeekFrom(d).start) - 7 * 0 = d
    BY <1>3 DEF WeekFrom
  <2> QED
    BY <2>1 DEF weekBefore
<1>5. PICK week : week = LastCompletedWeek(now)
  OBVIOUS
<1>6. PrevWeeks(week, 1)[1] = weekBefore(week, 1)
  BY DEF PrevWeeks
<1> QED
  BY <1>3, <1>4, <1>5, <1>6

\* What the pages promise of bands, groups and totals, page by page.
LEMMA PayAddsUp ==
  ASSUME TypeInv, NEW w, w = Rolling(now, RollingDays), NEW pay, pay = PayReport(now, AnyLens)
  PROVE  /\ SumOf([b \in ladderBands |-> pay.ladder[b].postings]) = Cardinality(swePosted(w, AnyLens))
         /\ SumOf([b \in ladderBands |-> pay.ladder[b].pay.n]) = pay.overall.n
         /\ SumOf([level \in Levels |-> pay.rowTotals[level].n])
              = SumOf([role \in Roles |-> pay.roleTotals[role].n])
         /\ pay.salary.total = Cardinality(swePosted(w, AnyLens))
         /\ pay.overall.n <= pay.salary.disclosed
         /\ SumOf([t \in DOMAIN pay.byType |-> pay.byType[t].disclosed]) = pay.salary.disclosed
<1>1. PICK S, C : S = swePosted(w, AnyLens) /\ C = Comparable(w, AnyLens)
  OBVIOUS
<1>2. S \in SUBSET Stored /\ C \in SUBSET S
  BY <1>1, Selected
<1>3. \A T : cellOf(T).n = Cardinality(T)
  BY DEF cellOf
<1>4. pay.overall = cellOf(C)
  BY <1>1 DEF PayReport, overallPay
<1>5. \A b \in ladderBands : /\ pay.ladder[b].postings = Cardinality(OnRung(S, b))
                             /\ pay.ladder[b].pay = cellOf(OnRung(C, b))
  BY <1>1, EveryRole DEF PayReport, ladder
<1>6. pay.salary = windowTransparency(w, AnyLens) /\ pay.byType = transparencyByCompanyType(w, AnyLens)
  BY DEF PayReport, salaryTransparency
<1>7. SumOf([b \in ladderBands |-> pay.ladder[b].postings]) = Cardinality(S)
  <2>1. PICK f : f = [b \in ladderBands |-> pay.ladder[b].postings]
    OBVIOUS
  <2>2. f = On(f, ladderBands) /\ \A b \in ladderBands : f[b] = Cardinality(OnRung(S, b))
    BY <1>5, <2>1 DEF On
  <2>3. SumOf(f) = Cardinality(S)
    BY <1>2, <2>2, RungsAddUp
  <2> QED
    BY <2>1, <2>3, Zenon
<1>8. SumOf([b \in ladderBands |-> pay.ladder[b].pay.n]) = pay.overall.n
  <2>1. PICK f : f = [b \in ladderBands |-> pay.ladder[b].pay.n]
    OBVIOUS
  <2>2. f = On(f, ladderBands) /\ \A b \in ladderBands : f[b] = Cardinality(OnRung(C, b))
    BY <1>3, <1>5, <2>1 DEF On
  <2>3. C \in SUBSET Stored
    BY <1>2
  <2>4. SumOf(f) = Cardinality(C)
    BY <2>2, <2>3, RungsAddUp
  <2>5. Cardinality(C) = pay.overall.n
    BY <1>3, <1>4
  <2> QED
    BY <2>1, <2>4, <2>5, Zenon
<1>9. SumOf([level \in Levels |-> pay.rowTotals[level].n])
        = SumOf([role \in Roles |-> pay.roleTotals[role].n])
  <2>1. PICK f : f = [level \in Levels |-> pay.rowTotals[level].n]
    OBVIOUS
  <2>2. PICK g : g = [role \in Roles |-> pay.roleTotals[role].n]
    OBVIOUS
  <2>3. /\ \A l \in Levels : pay.rowTotals[l] = cellOf(CellsOf(w, AnyLens, {l}, Roles))
        /\ \A r \in Roles : pay.roleTotals[r] = cellOf(CellsOf(w, AnyLens, Levels, {r}))
    BY DEF PayReport, CellsOf
  <2>4. f = On(f, Levels) /\ \A l \in Levels : f[l] = Cardinality(PaidAt(w, AnyLens, {l}, Roles))
    BY <1>3, <2>1, <2>3, CellsAt DEF On
  <2>5. g = On(g, Roles) /\ \A r \in Roles : g[r] = Cardinality(PaidAt(w, AnyLens, Levels, {r}))
    BY <1>3, <2>2, <2>3, CellsAt DEF On
  <2>6. SumOf(f) = SumOf(g)
    <3>1. PICK lens : lens = AnyLens
      OBVIOUS
    <3>2. SumOf(f) = Cardinality(PaidAt(w, lens, Levels, Roles))
      BY <2>4, <3>1, LevelsAddUp
    <3>3. SumOf(g) = Cardinality(PaidAt(w, lens, Levels, Roles))
      BY <2>5, <3>1, RolesAddUp
    <3> QED
      BY <3>2, <3>3
  <2> QED
    BY <2>1, <2>2, <2>6, Zenon
<1>10. pay.salary.total = Cardinality(S)
  BY <1>1, <1>6 DEF windowTransparency
<1>11. pay.overall.n <= pay.salary.disclosed
  <2>1. C \in SUBSET {p \in S : statedSalary(p)}
    BY <1>1 DEF Comparable, comparableSalary
  <2>2. IsFiniteSet({p \in S : statedSalary(p)})
    <3>1. {p \in S : statedSalary(p)} \in SUBSET Stored
      BY <1>2
    <3> QED
      BY <3>1, Selected, Smaller
  <2>3. Cardinality(C) <= Cardinality({p \in S : statedSalary(p)})
    BY <2>1, <2>2, Smaller
  <2>4. pay.salary.disclosed = Cardinality({p \in S : statedSalary(p)}) /\ pay.overall.n = Cardinality(C)
    BY <1>1, <1>3, <1>4, <1>6 DEF windowTransparency
  <2> QED
    BY <2>3, <2>4
<1>12. SumOf([t \in DOMAIN pay.byType |-> pay.byType[t].disclosed]) = pay.salary.disclosed
  <2>1. PICK byType : byType = pay.byType
    OBVIOUS
  <2>2. PICK f : f = [t \in DOMAIN byType |-> byType[t].disclosed]
    OBVIOUS
  <2>3. f = On(f, DOMAIN byType) /\ \A t \in DOMAIN byType : f[t] = byType[t].disclosed
    BY <2>2 DEF On
  <2>4. SumOf(f) = windowTransparency(w, AnyLens).disclosed
    BY <1>6, <2>1, <2>3, TypesAddUp
  <2> QED
    BY <1>6, <2>1, <2>2, <2>4, Zenon
<1> QED
  BY <1>1, <1>7, <1>8, <1>9, <1>10, <1>11, <1>12, Zenon

LEMMA MarketAddsUp ==
  ASSUME TypeInv, NEW market, market = MarketReport(now, AnyLens)
  PROVE  /\ SumOf(market.roles) <= market.newJobs /\ market.trend[TrendWeeks] = market.newJobs
         /\ SumOf(market.entryByRole) <= market.entryJobs
         /\ market.trend[TrendWeeks - 1] = market.prevJobs
         /\ market.activeEntry <= market.active
         /\ market.active = Cardinality(active(SGTDay(now), AnyLens))
<1>1. PICK New : New = newPosted(now, AnyLens)
  OBVIOUS
<1>2. PICK Board : Board = active(SGTDay(now), AnyLens)
  OBVIOUS
<1>3. PICK week : week = LastCompletedWeek(now)
  OBVIOUS
<1>4. New \in SUBSET Stored /\ Board \in SUBSET Stored
  BY <1>1, <1>2, Selected DEF newPosted
<1> DEFINE Entry(S) == {p \in S : EntryPredicate(p)}
<1>5. /\ market.active = Cardinality(Board) /\ market.activeEntry = Cardinality(Entry(Board))
      /\ market.newJobs = Cardinality(New) /\ market.entryJobs = Cardinality(Entry(New))
      /\ market.prevJobs = Cardinality(prevPosted(now, AnyLens))
      /\ \A i \in 1..TrendWeeks :
           market.trend[i] = Cardinality(swePosted(weekBefore(week, TrendWeeks - i), AnyLens))
      /\ market.roles = Groups(RolesOf(New))
      /\ market.entryByRole = Groups(RolesOf(Entry(New)))
  BY <1>1, <1>2, <1>3 DEF MarketReport, activeNow
<1>6. \A S : DOMAIN RolesOf(S) = S
  BY DEF RolesOf
<1>7. TrendWeeks \in 1..TrendWeeks /\ TrendWeeks - 1 \in 1..TrendWeeks
      /\ TrendWeeks - TrendWeeks = 0 /\ TrendWeeks - (TrendWeeks - 1) = 1
  BY SiteAssumption
<1>8. market.trend[TrendWeeks] = market.newJobs
  BY <1>1, <1>3, <1>5, <1>7, WeeksBefore DEF newPosted
<1>9. market.trend[TrendWeeks - 1] = market.prevJobs
  BY <1>3, <1>5, <1>7, WeeksBefore DEF prevPosted
<1>10. market.activeEntry <= market.active
  <2>1. IsFiniteSet(Board) /\ Entry(Board) \in SUBSET Board
    BY <1>4, Selected, Smaller
  <2> HIDE DEF Entry
  <2> QED
    BY <1>5, <2>1, Smaller
<1>11. Entry(New) \in SUBSET Stored
  BY <1>4
<1> HIDE DEF Entry
<1>12. SumOf(market.roles) <= market.newJobs
  BY <1>4, <1>5, <1>6, GroupsAddUp
<1>13. SumOf(market.entryByRole) <= market.entryJobs
  BY <1>5, <1>6, <1>11, GroupsAddUp
<1> QED
  BY <1>2, <1>5, <1>8, <1>9, <1>10, <1>12, <1>13

\* No posting is lost between the bands, cells and groups of a page, and none
\* counts twice, for any tables the jobs leave behind (NothingFallsThrough).
THEOREM PagesAddUp == Spec => []NothingFallsThrough
<1>1. ASSUME TypeInv PROVE NothingFallsThrough
  <2>1. PICK w : w = Rolling(now, RollingDays)
    OBVIOUS
  <2>2. PICK window : window = swePosted(w, AnyLens)
    OBVIOUS
  <2>3. PICK pay : pay = PayReport(now, AnyLens)
    OBVIOUS
  <2>4. PICK market : market = MarketReport(now, AnyLens)
    OBVIOUS
  <2>5. PICK firm : firm = CompanyReport(now, AnyLens)
    OBVIOUS
  <2>6. window \in SUBSET Stored /\ IsFiniteSet(window)
    BY <2>2, Selected, Smaller
  <2>7. SumOf([b \in expBands |-> Cardinality(swePosted(w, [AnyLens EXCEPT !.exp = b]))]) = Cardinality(window)
    <3>1. PICK f : f = [b \in expBands |-> Cardinality(swePosted(w, [AnyLens EXCEPT !.exp = b]))]
      OBVIOUS
    <3>2. f = On(f, expBands) /\ \A b \in expBands : f[b] = Cardinality(swePosted(w, BandLens(b)))
      BY <3>1 DEF On, BandLens
    <3>3. SumOf(f) = Cardinality(window)
      BY <1>1, <2>2, <3>2, BandsAddUp
    <3> QED
      BY <3>1, <3>3, Zenon
  <2>8. firm.lifetime.median # None => SumOf(firm.lifetime.bands) = firm.lifetime.closed
    <3>1. firm.lifetime = Lifetime(w, AnyLens)
      BY <2>1, <2>5 DEF CompanyReport
    <3> QED
      BY <1>1, <3>1, LifetimesAddUp
  <2>9. firm.ghost.active = market.active /\ firm.ghost.stale <= firm.ghost.active
    <3>1. PICK S : S = active(SGTDay(now), AnyLens)
      OBVIOUS
    <3>2. S \in SUBSET Stored /\ IsFiniteSet(S)
      BY <3>1, Selected, Smaller
    <3>3. /\ firm.ghost.active = Cardinality(S)
          /\ firm.ghost.stale = Cardinality({p \in S : SGTDay(now) - job[p].posted > 60})
      BY <2>5, <3>1 DEF CompanyReport, GhostSignals
    <3>4. {p \in S : SGTDay(now) - job[p].posted > 60} \in SUBSET S
      OBVIOUS
    <3> QED
      BY <1>1, <2>4, <3>1, <3>2, <3>3, <3>4, MarketAddsUp, Smaller
  <2>10. ASSUME NEW s \in Slug PROVE entryShare(w, AnyLens, s)[2] <= Cardinality(window)
    <3>1. entryShare(w, AnyLens, s)[2] = Cardinality({p \in window : Mentions(p, s)})
      BY <2>2 DEF entryShare
    <3>2. {p \in window : Mentions(p, s)} \in SUBSET window
      OBVIOUS
    <3> QED
      BY <2>6, <3>1, <3>2, Smaller
  <2>11. PICK demand : demand = SkillDemand(w, AnyLens)
    OBVIOUS
  <2>12. ASSUME NEW k \in DOMAIN demand PROVE demand[k].key[1] <= demand[k].postings
    <3> DEFINE N == {p \in window : k \in job[p].skills}
               Must == {p \in window : k \in job[p].skills \cap job[p].keySkills}
    <3>1. demand[k].key[1] = Cardinality(Must) /\ demand[k].postings = Cardinality(N)
      BY <2>2, <2>11 DEF SkillDemand
    <3>2. Must \in SUBSET N /\ N \in SUBSET window
      OBVIOUS
    <3> HIDE DEF Must, N
    <3>3. IsFiniteSet(N)
      BY <2>6, <3>2, Smaller
    <3> QED
      BY <3>1, <3>2, <3>3, Smaller
  <2>13. /\ SumOf([b \in ladderBands |-> pay.ladder[b].postings]) = Cardinality(window)
         /\ SumOf([b \in ladderBands |-> pay.ladder[b].pay.n]) = pay.overall.n
         /\ SumOf([level \in Levels |-> pay.rowTotals[level].n])
              = SumOf([role \in Roles |-> pay.roleTotals[role].n])
         /\ pay.salary.total = Cardinality(window) /\ pay.overall.n <= pay.salary.disclosed
         /\ SumOf([t \in DOMAIN pay.byType |-> pay.byType[t].disclosed]) = pay.salary.disclosed
    BY <1>1, <2>1, <2>2, <2>3, PayAddsUp, Zenon
  <2>14. /\ SumOf(market.roles) <= market.newJobs /\ market.trend[TrendWeeks] = market.newJobs
         /\ SumOf(market.entryByRole) <= market.entryJobs
         /\ market.trend[TrendWeeks - 1] = market.prevJobs
         /\ market.activeEntry <= market.active
    BY <1>1, <2>4, MarketAddsUp
  <2> QED
    BY <2>1, <2>2, <2>3, <2>4, <2>5, <2>7, <2>8, <2>9, <2>10, <2>11, <2>12, <2>13, <2>14, Zenon
       DEF NothingFallsThrough
<1> QED
  BY <1>1, TypeInit, TypeStep, PTL DEF Spec

-----------------------------------------------------------------------------
(* Days                                                                    *)

\* An instant is in the days from one to another exactly if its Singapore day
\* is, and the day after has begun exactly if the day is over.
LEMMA InDays ==
  ASSUME NEW t \in Int, NEW from \in Int, NEW to \in Int
  PROVE  /\ StampIn(t, Days(from, to)) <=> SGTDay(t) \in from..to
         /\ StampIn(t, DayBounds(from)) <=> SGTDay(t) = from
         /\ Midnight(from + 1) <= t <=> from < SGTDay(t)
  BY DEF StampIn, Days, DayBounds, Midnight, SGTDay

\* Days follow instants.
LEMMA DaysGrow ==
  ASSUME NEW s \in Int, NEW t \in Int, s <= t
  PROVE  SGTDay(s) <= SGTDay(t)
  BY DEF SGTDay

\* The runs and the postings of a day, and the window they are looked up in.
RunsOn(d) == {i \in DOMAIN runs : SGTDay(runs[i].start) = d}

NewOn(d) == {p \in Stored : SGTDay(job[p].first) = d}

ClosedOn(d) == {p \in Stored : job[p].closed # None /\ SGTDay(job[p].closed) = d}

LEMMA RunIs ==
  ASSUME TypeInv
  PROVE  /\ IsFiniteSet(DOMAIN runs) /\ DOMAIN runs \subseteq Nat
         /\ \A i \in DOMAIN runs : /\ runs[i].start \in Nat /\ runs[i].seen \in Nat
                                   /\ runs[i].status \in Statuses
<1>1. runs \in Seq(RunRow)
  BY DEF TypeInv, RunsFit
<1>2. DOMAIN runs = 1..Len(runs) /\ Len(runs) \in Nat
  BY <1>1
<1>3. IsFiniteSet(1..Len(runs))
  BY <1>2, FS_Interval
<1>4. \A r \in RunRow : r.start \in Instant /\ r.seen \in Nat /\ r.status \in Statuses
  BY DEF RunRow
<1>5. \A i \in DOMAIN runs : runs[i] \in RunRow
  BY <1>1
<1>6. \A i \in DOMAIN runs : runs[i].start \in Nat /\ runs[i].seen \in Nat /\ runs[i].status \in Statuses
  BY <1>4, <1>5, InstantsFit
<1> QED
  BY <1>2, <1>3, <1>6

LEMMA DayRowIs ==
  ASSUME TypeInv, NEW from \in Int, NEW to \in Int, NEW d \in from..to,
         NEW w, w = Days(from, to)
  PROVE  /\ DayRow(w, d) = [runs   |-> applyRuns(RunsOn(d)),
                            stored |-> [new |-> Cardinality(NewOn(d)),
                                        swe |-> Cardinality({p \in NewOn(d) : job[p].swe})],
                            closed |-> Cardinality(ClosedOn(d))]
<1>1. \A t \in Int : StampIn(t, w) <=> SGTDay(t) \in from..to
  BY InDays
<1>2. {i \in listRuns(w) : dayKey(runs[i].start) = d} = RunsOn(d)
  BY <1>1, RunIs DEF listRuns, dayKey, RunsOn
<1>3. {p \in FirstSeenIn(w) : dayKey(job[p].first) = d} = NewOn(d)
  BY <1>1, RowIs DEF FirstSeenIn, dayKey, NewOn
<1>4. {p \in Stored : job[p].closed # None /\ StampIn(job[p].closed, w) /\ dayKey(job[p].closed) = d}
        = ClosedOn(d)
  BY <1>1, RowIs DEF dayKey, ClosedOn
<1>5. storedPerDay(w, d) = [new |-> Cardinality(NewOn(d)),
                            swe |-> Cardinality({p \in NewOn(d) : job[p].swe})]
  BY <1>3, Zenon DEF storedPerDay
<1>6. closedPerDay(w, d) = Cardinality(ClosedOn(d))
  BY <1>4, Zenon DEF closedPerDay
<1> QED
  BY <1>2, <1>5, <1>6, Zenon DEF DayRow

\* What the page of a day lists is of that day.
LEMMA DayListIs ==
  ASSUME TypeInv, NEW d \in Int, NEW w, w = DayBounds(d)
  PROVE  listRuns(w) = RunsOn(d) /\ FirstSeenIn(w) = NewOn(d)
<1>1. \A t \in Int : StampIn(t, w) <=> SGTDay(t) = d
  BY InDays
<1> QED
  BY <1>1, RunIs, RowIs DEF listRuns, FirstSeenIn, RunsOn, NewOn

\* A day on which something happened is not before the first one.
LEMMA ActiveDays ==
  ASSUME TypeInv, NEW d \in Int, RunsOn(d) # {} \/ NewOn(d) # {}
  PROVE  firstActivityDay # None /\ firstActivityDay <= d
<1> DEFINE stamps == {runs[i].start : i \in DOMAIN runs} \cup {job[p].first : p \in Stored}
<1>1. stamps \subseteq Nat
  <2>1. \A i \in DOMAIN runs : runs[i].start \in Nat
    BY RunIs
  <2> QED
    BY <2>1, RowIs
<1>2. PICK t : t \in stamps /\ SGTDay(t) = d
  BY DEF RunsOn, NewOn
<1>3. firstActivityDay = SGTDay(Min(stamps))
  BY <1>2 DEF firstActivityDay
<1>4. PICK m : m = Min(stamps)
  OBVIOUS
<1>5. m \in Nat /\ t \in Nat /\ m <= t
  <2> HIDE DEF stamps
  <2>1. Min(stamps) \in stamps /\ Min(stamps) <= t
    BY <1>1, <1>2, Least
  <2> QED
    BY <1>1, <1>2, <1>4, <2>1, Zenon
<1>6. SGTDay(m) <= d /\ SGTDay(m) \in Int
  BY <1>2, <1>5, DaysGrow, DayOfInstant
<1> QED
  BY <1>3, <1>4, <1>6, SiteAssumption

\* A day is green exactly if it had runs and each of them was green.
LEMMA Green ==
  ASSUME NEW S \in SUBSET Statuses, worseStatus(S) = "success"
  PROVE  \A s \in S : s = "success"
<1>1. None \notin Statuses
  BY SiteAssumption
<1>2. /\ rank[None] = 0
      /\ rank["success"] = 1 /\ rank["running"] = 2 /\ rank["partial"] = 3 /\ rank["failed"] = 4
  <2>1. \A s \in Statuses : s # None
    BY <1>1
  <2>2. {"success", "running", "partial", "failed"} \subseteq Statuses
    BY DEF Statuses
  <2> QED
    BY <2>1, <2>2 DEF rank
<1>3. \A s \in S : s = "success" \/ s = "running" \/ s = "partial" \/ s = "failed"
  BY DEF Statuses
<1>4. \E s \in S \cup {None} : \A t \in S : rank[t] <= rank[s]
  <2>1. CASE "failed" \in S
    BY <1>2, <1>3, <2>1
  <2>2. CASE "failed" \notin S /\ "partial" \in S
    BY <1>2, <1>3, <2>2
  <2>3. CASE "failed" \notin S /\ "partial" \notin S /\ "running" \in S
    BY <1>2, <1>3, <2>3
  <2>4. CASE "failed" \notin S /\ "partial" \notin S /\ "running" \notin S
    BY <1>2, <1>3, <2>4
  <2> QED
    BY <2>1, <2>2, <2>3, <2>4
<1>5. \A t \in S : rank[t] <= rank[worseStatus(S)]
  BY <1>4, Zenon DEF worseStatus
<1> QED
  BY <1>2, <1>3, <1>5

\* A list that is cut is full.
LEMMA CutIsFull ==
  ASSUME TypeInv, NEW d, NEW page, page = DayDetail(d, now), page.truncated
  PROVE  Cardinality(page.jobs) = JobLimit
<1> DEFINE F == FirstSeenIn(DayBounds(d))
           Before(p, q) ==
             \/ job[p].swe /\ ~job[q].swe
             \/ job[p].swe = job[q].swe /\ job[p].first < job[q].first
             \/ job[p].swe = job[q].swe /\ job[p].first = job[q].first /\ p < q
           R == {x \in F \X F : Before(x[1], x[2])}
           T == {x \in F : Cardinality({y \in F : Before(y, x)}) < JobLimit}
<1>1. F \in SUBSET Stored /\ IsFiniteSet(F)
  <2>1. F \in SUBSET Stored
    BY DEF FirstSeenIn
  <2> QED
    BY <2>1, Selected, Smaller
<1>2. page.jobs = T /\ Cardinality(F) > Cardinality(T)
  BY DEF DayDetail, Top
<1>3. \A p \in F : job[p].swe \in BOOLEAN /\ job[p].first \in Nat /\ p \in Nat
  BY <1>1, RowIs, SiteAssumption DEF Stored
<1>4. \A p, q \in F : <<p, q>> \in R <=> Before(p, q)
  OBVIOUS
<1>5. StrictOrder(R, F)
  <2>1. \A p \in F : ~Before(p, p)
    BY <1>3
  <2>2. \A p, q, r \in F : Before(p, q) /\ Before(q, r) => Before(p, r)
    BY <1>3
  <2>3. \A p, q \in F : p = q \/ Before(p, q) \/ Before(q, p)
    BY <1>3
  <2> HIDE DEF Before, R
  <2> QED
    BY <1>4, <2>1, <2>2, <2>3 DEF StrictOrder
<1>6. \A x \in F : {y \in F : Before(y, x)} = Below(R, F, x)
  <2> HIDE DEF Before, R
  <2> QED
    BY <1>4 DEF Below
<1>7. T = {x \in F : Cardinality(Below(R, F, x)) < JobLimit}
  BY <1>6
<1>8. T # F
  <2> HIDE DEF F, T
  <2>1. Cardinality(F) \in Nat
    BY <1>1, FS_CardinalityType
  <2> QED
    BY <1>2, <2>1
<1> HIDE DEF F, T, R
<1>9. Cardinality(T) = JobLimit
  BY <1>1, <1>5, <1>7, <1>8, FirstOnes, SiteAssumption
<1> QED
  BY <1>2, <1>9

\* The days of the overview, and what happened in them.
LEMMA WeekIs ==
  ASSUME TypeInv, NEW today, today = SGTDay(now), NEW from, from = today - WeekDays + 1,
         NEW week, week = Days(from, today), NEW I, I = Shown(today, WeekDays)
  PROVE  /\ today \in Int /\ from \in Int /\ I \subseteq from..today /\ IsFiniteSet(I)
         /\ \A d \in from..today : d \notin I => d # today /\ RunsOn(d) = {} /\ NewOn(d) = {}
         /\ \A i \in DOMAIN runs : i \in listRuns(week) <=> \E d \in I : i \in RunsOn(d)
         /\ \A p \in Stored : p \in FirstSeenIn(week) <=> \E d \in I : p \in NewOn(d)
<1>1. now \in Int /\ WeekDays \in Nat
  BY InstantsFit, SiteAssumption DEF TypeInv
<1>2. today \in Int /\ from \in Int
  BY <1>1, DayOfInstant
<1>3. I = {d \in from..today : d = today \/ (firstActivityDay # None /\ d >= firstActivityDay)}
  BY DEF Shown
<1>4. IsFiniteSet(I)
  <2>1. IsFiniteSet(from..today)
    BY <1>2, FS_Interval
  <2>2. I \in SUBSET (from..today)
    BY <1>3
  <2> QED
    BY <2>1, <2>2, Smaller
<1>5. ASSUME NEW d \in from..today, d \notin I PROVE d # today /\ RunsOn(d) = {} /\ NewOn(d) = {}
  <2>1. d \in Int /\ d # today /\ ~(firstActivityDay # None /\ d >= firstActivityDay)
    BY <1>2, <1>3, <1>5
  <2>2. ASSUME RunsOn(d) # {} \/ NewOn(d) # {} PROVE FALSE
    <3>1. firstActivityDay # None /\ firstActivityDay <= d
      BY <2>1, <2>2, ActiveDays
    <3> QED
      BY <2>1, <3>1
  <2> QED
    BY <2>1, <2>2
<1>6. \A t \in Int : StampIn(t, week) <=> SGTDay(t) \in from..today
  <2>1. ASSUME NEW t \in Int PROVE StampIn(t, Days(from, today)) <=> SGTDay(t) \in from..today
    BY ONLY <1>2, <2>1, InDays
  <2> QED
    BY ONLY <2>1, week = Days(from, today)
<1>7. ASSUME NEW i \in DOMAIN runs PROVE i \in listRuns(week) <=> \E d \in I : i \in RunsOn(d)
  <2>1. PICK d : d = SGTDay(runs[i].start)
    OBVIOUS
  <2>2. i \in listRuns(week) <=> d \in from..today
    BY <1>6, <2>1, RunIs DEF listRuns
  <2>3. \A e : i \in RunsOn(e) <=> e = d
    BY <2>1 DEF RunsOn
  <2>4. d \in from..today => d \in I
    BY <1>5, <2>3
  <2>5. d \in I => d \in from..today
    BY <1>3
  <2> QED
    BY <2>2, <2>3, <2>4, <2>5
<1>8. ASSUME NEW p \in Stored PROVE p \in FirstSeenIn(week) <=> \E d \in I : p \in NewOn(d)
  <2>1. PICK d : d = SGTDay(job[p].first)
    OBVIOUS
  <2>2. p \in FirstSeenIn(week) <=> d \in from..today
    BY <1>6, <2>1, RowIs DEF FirstSeenIn
  <2>3. \A e : p \in NewOn(e) <=> e = d
    BY <2>1 DEF NewOn
  <2>4. d \in from..today => d \in I
    BY <1>5, <2>3
  <2>5. d \in I => d \in from..today
    BY <1>3
  <2> QED
    BY <2>2, <2>3, <2>4, <2>5
<1>9. I \subseteq from..today
  BY <1>3
<1> QED
  BY <1>2, <1>4, <1>5, <1>7, <1>8, <1>9

\* The rows of the overview add up to its headline cards.
LEMMA CardsAddUp ==
  ASSUME TypeInv, NEW ops, ops = DailyOverview(now, WeekDays)
  PROVE  /\ SumOf([d \in DOMAIN ops.days |-> ops.days[d].stored.swe]) = ops.newSWE
         /\ SumOf([d \in DOMAIN ops.days |-> ops.days[d].runs.archived]) = ops.archived
<1>1. PICK today : today = SGTDay(now)
  OBVIOUS
<1>2. PICK from : from = today - WeekDays + 1
  OBVIOUS
<1>3. PICK week : week = Days(from, today)
  OBVIOUS
<1>4. PICK I : I = Shown(today, WeekDays)
  OBVIOUS
<1>5. /\ today \in Int /\ from \in Int /\ I \subseteq from..today /\ IsFiniteSet(I)
      /\ \A i \in DOMAIN runs : i \in listRuns(week) <=> \E d \in I : i \in RunsOn(d)
      /\ \A p \in Stored : p \in FirstSeenIn(week) <=> \E d \in I : p \in NewOn(d)
  BY <1>1, <1>2, <1>3, <1>4, WeekIs
<1>6. /\ ops.days = [d \in I |-> DayRow(week, d)]
      /\ ops.newSWE = Cardinality({p \in FirstSeenIn(week) : job[p].swe})
      /\ ops.archived = Sum(RunsOf(listRuns(week), IngestKinds), Seen)
  BY <1>1, <1>2, <1>3, <1>4, Zenon DEF DailyOverview
<1>7. ASSUME NEW d \in I
      PROVE  /\ ops.days[d].stored.swe = Cardinality({p \in NewOn(d) : job[p].swe})
             /\ ops.days[d].runs = applyRuns(RunsOn(d))
  <2>1. DayRow(week, d) = [runs   |-> applyRuns(RunsOn(d)),
                           stored |-> [new |-> Cardinality(NewOn(d)),
                                       swe |-> Cardinality({p \in NewOn(d) : job[p].swe})],
                           closed |-> Cardinality(ClosedOn(d))]
    BY <1>3, <1>5, DayRowIs
  <2>2. PICK row : row = DayRow(week, d)
    OBVIOUS
  <2>3. ops.days[d] = row
    BY <1>6, <2>2
  <2> QED
    BY <2>1, <2>2, <2>3
<1>8. DOMAIN ops.days = I
  BY <1>6
<1>9. SumOf([d \in DOMAIN ops.days |-> ops.days[d].stored.swe]) = ops.newSWE
  <2> DEFINE U == {p \in FirstSeenIn(week) : job[p].swe}
             P == [d \in I |-> {p \in NewOn(d) : job[p].swe}]
  <2>1. PICK f : f = [d \in DOMAIN ops.days |-> ops.days[d].stored.swe]
    OBVIOUS
  <2>2. f = On(f, I) /\ \A d \in I : f[d] = Cardinality(P[d])
    BY <1>7, <1>8, <2>1 DEF On
  <2>3. U \in SUBSET Stored /\ \A d : NewOn(d) \in SUBSET Stored
    BY DEF FirstSeenIn, NewOn
  <2>4. \A d \in I : P[d] \in SUBSET U
    BY <1>5, <2>3
  <2>5. \A p \in U : \E d \in I : p \in P[d]
    BY <1>5, <2>3
  <2>6. \A d, e \in I : \A p \in U : p \in P[d] /\ p \in P[e] => d = e
    BY DEF NewOn
  <2>7. ops.newSWE = Cardinality(U)
    BY <1>6
  <2> HIDE DEF U, P
  <2>8. IsFiniteSet(I)
    BY <1>5
  <2>9. SumOf(f) = Cardinality(U)
    BY <2>8, <2>2, <2>3, <2>4, <2>5, <2>6, PartsAddUp
  <2> QED
    BY <2>1, <2>7, <2>9, Zenon
<1>10. SumOf([d \in DOMAIN ops.days |-> ops.days[d].runs.archived]) = ops.archived
  <2> DEFINE U == RunsOf(listRuns(week), IngestKinds)
             P == [d \in I |-> RunsOf(RunsOn(d), IngestKinds)]
  <2>1. PICK f : f = [d \in DOMAIN ops.days |-> ops.days[d].runs.archived]
    OBVIOUS
  <2>2. PICK v : v = [i \in DOMAIN runs |-> runs[i].seen]
    OBVIOUS
  <2>3. \A i \in DOMAIN runs : v[i] \in Int /\ v[i] = Seen(i)
    BY <2>2, RunIs DEF Seen
  <2>4. \A J \in SUBSET DOMAIN runs : Sum(J, Seen) = SumOf(On(v, J))
    <3>1. SUFFICES ASSUME NEW J \in SUBSET DOMAIN runs PROVE Sum(J, Seen) = SumOf(On(v, J))
      OBVIOUS
    <3>2. [i \in J |-> Seen(i)] = On(v, J)
      BY <2>3 DEF On
    <3> QED
      BY <3>2, Zenon DEF Sum
  <2>5. U \in SUBSET DOMAIN runs /\ \A d \in I : P[d] \in SUBSET DOMAIN runs
    BY DEF listRuns, RunsOn, RunsOf
  <2>6. \A d \in I : ops.days[d].runs.archived = Sum(P[d], Seen)
    <3>1. \A J : applyRuns(J).archived = Sum(RunsOf(J, IngestKinds), Seen)
      BY DEF applyRuns, Sum
    <3> QED
      BY <1>7, <3>1
  <2>7. f = On(f, I) /\ \A d \in I : f[d] = SumOf(On(v, P[d]))
    <3>1. f = On(f, I) /\ \A d \in I : f[d] = Sum(P[d], Seen)
      BY <1>8, <2>1, <2>6 DEF On
    <3> HIDE DEF P
    <3> QED
      BY <2>4, <2>5, <3>1
  <2>8. Apart(DOMAIN runs, I, P, U)
    <3>1. \A d, e \in I : d # e => P[d] \cap P[e] = {}
      BY DEF RunsOf, RunsOn
    <3>2. \A i \in DOMAIN runs : i \in U <=> \E d \in I : i \in P[d]
      BY <1>5 DEF RunsOf
    <3> HIDE DEF U, P
    <3>3. U = UNION {P[d] : d \in I}
      BY <2>5, <3>2
    <3> QED
      BY <2>5, <3>1, <3>3 DEF Apart
  <2>9. ops.archived = SumOf(On(v, U))
    <3>1. ops.archived = Sum(U, Seen)
      BY <1>6
    <3> HIDE DEF U
    <3> QED
      BY <2>4, <2>5, <3>1
  <2> HIDE DEF U, P
  <2>10. IsFiniteSet(DOMAIN runs)
    BY RunIs
  <2>11. SumOf(f) = SumOf(On(v, U))
    <3>1. PICK S : S = DOMAIN runs
      OBVIOUS
    <3>2. IsFiniteSet(S) /\ IsFiniteSet(I) /\ (\A i \in S : v[i] \in Int) /\ Apart(S, I, P, U)
      BY <1>5, <2>3, <2>8, <2>10, <3>1
    <3> QED
      BY <2>7, <3>2, SumParts
  <2> QED
    BY <2>1, <2>9, <2>11, Zenon
<1> QED
  BY <1>9, <1>10

\* What DaysAddUp says of the pages that it names.
PagesAgree(today, ops, page, metrics) ==
  /\ \A d \in DOMAIN ops.days :
       /\ ops.days[d] = page[d].summary
       /\ ops.days[d].runs.status = "success" =>
            \A i \in page[d].runs : runs[i].status = "success"
  /\ \A d \in DOMAIN page :
       /\ page[d].next = (d < today)
       /\ page[d].truncated => Cardinality(page[d].jobs) = JobLimit
       /\ d \notin DOMAIN ops.days => page[d].runs = {} /\ page[d].jobs = {}
  /\ SumOf([d \in DOMAIN ops.days |-> ops.days[d].stored.swe]) = ops.newSWE
  /\ SumOf([d \in DOMAIN ops.days |-> ops.days[d].runs.archived]) = ops.archived
  /\ ops.backlog = metrics.backlog /\ ops.active = metrics.active
  /\ metrics.active + metrics.closed = Cardinality(Stored)
  /\ \A i \in ops.lastRun : \A j \in DOMAIN runs : runs[j].start <= runs[i].start

\* The daily pages tell one story: a row of the overview is the summary of its
\* day's page, the rows add up to the headline cards, no day that is left out
\* has anything to show, a green day had only green runs, and a listing that
\* is cut is full (DaysAddUp), for any tables and any runs.
THEOREM DailyPagesAgree == Spec => []DaysAddUp
<1>1. ASSUME TypeInv PROVE DaysAddUp
  <2>1. PICK today : today = SGTDay(now)
    OBVIOUS
  <2>2. PICK ops : ops = DailyOverview(now, WeekDays)
    OBVIOUS
  <2>3. PICK from : from = today - WeekDays + 1
    OBVIOUS
  <2>4. PICK page : page = [d \in from..today |-> DayDetail(d, now)]
    OBVIOUS
  <2>5. PICK week : week = Days(from, today)
    OBVIOUS
  <2>6. PICK I : I = Shown(today, WeekDays)
    OBVIOUS
  <2>7. /\ today \in Int /\ from \in Int /\ I \subseteq from..today
        /\ \A d \in from..today : d \notin I => d # today /\ RunsOn(d) = {} /\ NewOn(d) = {}
    BY <1>1, <2>1, <2>3, <2>5, <2>6, WeekIs
  <2>8. now \in Int
    BY <1>1, InstantsFit, SiteAssumption DEF TypeInv
  <2>9. /\ ops.days = [d \in I |-> DayRow(week, d)] /\ ops.lastRun = lastRun
        /\ ops.active = Cardinality({p \in Stored : job[p].closed = None})
        /\ ops.backlog = Cardinality(backlog)
    BY <2>1, <2>2, <2>3, <2>5, <2>6, Zenon DEF DailyOverview
  <2>10. ASSUME NEW d \in from..today
         PROVE  /\ d \in Int /\ page[d] = DayDetail(d, now)
                /\ page[d].runs = RunsOn(d) /\ page[d].jobs \in SUBSET NewOn(d)
                /\ page[d].summary = DayRow(DayBounds(d), d)
                /\ page[d].next = (d < today)
                /\ page[d].truncated => Cardinality(page[d].jobs) = JobLimit
    <3>1. d \in Int
      BY <2>7
    <3>2. page[d] = DayDetail(d, now)
      BY <2>4
    <3>3. PICK detail : detail = DayDetail(d, now)
      OBVIOUS
    <3>4. detail.runs = listRuns(DayBounds(d)) /\ detail.jobs \in SUBSET FirstSeenIn(DayBounds(d))
          /\ detail.summary = DayRow(DayBounds(d), d) /\ detail.next = (Midnight(d + 1) <= now)
      BY <3>3 DEF DayDetail, Top
    <3>5. (Midnight(d + 1) <= now) = (d < today)
      BY <2>1, <2>8, <3>1, InDays
    <3>6. detail.truncated => Cardinality(detail.jobs) = JobLimit
      BY <1>1, <3>3, CutIsFull
    <3>7. listRuns(DayBounds(d)) = RunsOn(d) /\ FirstSeenIn(DayBounds(d)) = NewOn(d)
      BY <1>1, <3>1, DayListIs
    <3> QED
      BY <3>1, <3>2, <3>3, <3>4, <3>5, <3>6, <3>7
  <2>11. ASSUME NEW d \in I
         PROVE  /\ ops.days[d] = page[d].summary
                /\ ops.days[d].runs.status = "success" =>
                     \A i \in page[d].runs : runs[i].status = "success"
    <3>1. d \in from..today
      BY <2>7
    <3>2. PICK row : row = [runs   |-> applyRuns(RunsOn(d)),
                            stored |-> [new |-> Cardinality(NewOn(d)),
                                        swe |-> Cardinality({p \in NewOn(d) : job[p].swe})],
                            closed |-> Cardinality(ClosedOn(d))]
      OBVIOUS
    <3>3. ops.days[d] = row
      BY <1>1, <2>5, <2>7, <2>9, <3>1, <3>2, DayRowIs
    <3>4. page[d].summary = row
      <4>1. d \in Int /\ d \in d..d /\ DayBounds(d) = Days(d, d)
        BY <2>10, <3>1 DEF DayBounds, Days
      <4> QED
        BY <1>1, <2>10, <3>1, <3>2, <4>1, DayRowIs
    <3>5. row.runs.status = worseStatus({runs[i].status : i \in RunsOn(d)})
      BY <3>2 DEF applyRuns
    <3>6. row.runs.status = "success" => \A i \in RunsOn(d) : runs[i].status = "success"
      <4>1. {runs[i].status : i \in RunsOn(d)} \in SUBSET Statuses
        BY <1>1, RunIs DEF RunsOn
      <4> QED
        BY <3>5, <4>1, Green
    <3> QED
      BY <2>10, <3>1, <3>3, <3>4, <3>6
  <2>12. DOMAIN ops.days = I /\ DOMAIN page = from..today
    BY <2>4, <2>9
  <2>13. ASSUME NEW d \in from..today
         PROVE  /\ page[d].next = (d < today)
                /\ page[d].truncated => Cardinality(page[d].jobs) = JobLimit
                /\ d \notin I => page[d].runs = {} /\ page[d].jobs = {}
    BY <2>7, <2>10
  <2>14. PICK metrics : metrics = renderMetrics
    OBVIOUS
  <2>15. /\ ops.backlog = metrics.backlog /\ ops.active = metrics.active
         /\ metrics.active + metrics.closed = Cardinality(Stored)
    <3> DEFINE Open == {p \in Stored : job[p].closed = None}
               Shut == {p \in Stored : job[p].closed # None}
    <3>1. /\ metrics.backlog = Cardinality(backlog) /\ metrics.active = Cardinality(Open)
          /\ metrics.closed = Cardinality(Shut)
      BY <2>14 DEF renderMetrics
    <3>2. IsFiniteSet(Open) /\ IsFiniteSet(Shut) /\ Open \cap Shut = {} /\ Open \cup Shut = Stored
      <4>1. Open \in SUBSET Stored /\ Shut \in SUBSET Stored
        OBVIOUS
      <4> QED
        BY <4>1, Selected, Smaller
    <3> HIDE DEF Open, Shut
    <3>3. Cardinality(Stored) = Cardinality(Open) + Cardinality(Shut) - Cardinality({})
      BY <3>2, FS_Union
    <3>4. Cardinality({}) = 0 /\ Cardinality(Open) \in Nat /\ Cardinality(Shut) \in Nat
      BY <3>2, FS_EmptySet, FS_CardinalityType
    <3>5. ops.active = Cardinality(Open)
      BY <2>9 DEF Open
    <3> QED
      BY <2>9, <3>1, <3>3, <3>4, <3>5
  <2>16. ASSUME NEW i \in ops.lastRun, NEW j \in DOMAIN runs PROVE runs[j].start <= runs[i].start
    <3>1. i \in DOMAIN runs /\ (runs[j].start < runs[i].start \/ runs[j].start = runs[i].start)
      BY <2>9, <2>16 DEF lastRun
    <3>2. runs[i].start \in Nat /\ runs[j].start \in Nat
      BY <1>1, <3>1, RunIs
    <3> QED
      BY <3>1, <3>2
  <2>17. /\ SumOf([d \in DOMAIN ops.days |-> ops.days[d].stored.swe]) = ops.newSWE
         /\ SumOf([d \in DOMAIN ops.days |-> ops.days[d].runs.archived]) = ops.archived
    BY <1>1, <2>2, CardsAddUp, Zenon
  <2>18. /\ \A d \in DOMAIN ops.days :
              /\ ops.days[d] = page[d].summary
              /\ ops.days[d].runs.status = "success" =>
                   \A i \in page[d].runs : runs[i].status = "success"
         /\ \A d \in DOMAIN page :
              /\ page[d].next = (d < today)
              /\ page[d].truncated => Cardinality(page[d].jobs) = JobLimit
              /\ d \notin DOMAIN ops.days => page[d].runs = {} /\ page[d].jobs = {}
    BY <2>11, <2>12, <2>13, Zenon
  <2>19. page = [d \in today - WeekDays + 1 .. today |-> DayDetail(d, now)]
    BY <2>3, <2>4
  <2>20. PagesAgree(today, ops, page, metrics)
    BY <2>15, <2>16, <2>17, <2>18, Zenon DEF PagesAgree
  <2>21. PagesAgree(SGTDay(now), DailyOverview(now, WeekDays),
                    [d \in SGTDay(now) - WeekDays + 1 .. SGTDay(now) |-> DayDetail(d, now)], renderMetrics)
    BY <2>1, <2>2, <2>14, <2>19, <2>20, Zenon
  <2> QED
    BY <2>21, Zenon DEF PagesAgree, DaysAddUp
<1> QED
  BY <1>1, TypeInit, TypeStep, PTL DEF Spec
=============================================================================
