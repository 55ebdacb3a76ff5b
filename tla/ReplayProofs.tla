---------------------------- MODULE ReplayProofs ----------------------------
(***************************************************************************)
(* Proofs about Replay, for all postings, records, rules and builds, any   *)
(* size of batches and any number of ingest runs and kills.                *)
(***************************************************************************)
EXTENDS Replay, FiniteSetTheorems, WellFoundedInduction, TLAPS

-----------------------------------------------------------------------------
(* The greatest of some numbers                                            *)

\* A set of naturals that holds zero and the successor of each of its elements
\* holds all of them.
LEMMA Inductive ==
  ASSUME NEW T, 0 \in T, \A n \in T \cap Nat : n + 1 \in T
  PROVE  Nat \subseteq T
<1> SUFFICES ASSUME Nat \ T # {} PROVE FALSE
  OBVIOUS
<1>1. \A R, S, X : IsWellFoundedOn(R, S) /\ X \subseteq S /\ X # {}
                     => \E x \in X : \A y \in X : <<y, x>> \notin R
  BY WFMin
<1>2. PICK x \in Nat \ T : \A y \in Nat \ T : <<y, x>> \notin OpToRel(<, Nat)
  <2>1. IsWellFoundedOn(OpToRel(<, Nat), Nat) /\ Nat \ T \subseteq Nat
    BY NatLessThanWellFounded
  <2> HIDE DEF IsWellFoundedOn, OpToRel
  <2> QED
    BY <1>1, <2>1
<1>3. \A y \in Nat \ T : ~(y < x)
  BY <1>2 DEF OpToRel
<1>4. x \in Nat /\ x # 0
  OBVIOUS
<1>5. x - 1 \in Nat /\ x - 1 < x /\ x = (x - 1) + 1
  BY <1>4
<1> QED
  BY <1>3, <1>5

\* A finite set of naturals that is not empty has a greatest element.
LEMMA Greatest ==
  ASSUME NEW S, IsFiniteSet(S), S \subseteq Nat, S # {}
  PROVE  /\ Max(S) \in S
         /\ \A x \in S : x <= Max(S)
<1> DEFINE Bounded(X) == \E x \in X : \A y \in X : y <= x
           T == {n \in Nat : \A X \in SUBSET S : X # {} /\ Cardinality(X) = n => Bounded(X)}
<1>1. \A X \in SUBSET S : IsFiniteSet(X) /\ Cardinality(X) \in Nat
  BY FS_Subset, FS_CardinalityType
<1>2. 0 \in T
  BY <1>1, FS_EmptySet
<1>3. ASSUME NEW n \in T, n \in Nat PROVE n + 1 \in T
  <2> SUFFICES ASSUME NEW X \in SUBSET S, X # {}, Cardinality(X) = n + 1 PROVE Bounded(X)
    BY <1>3
  <2>1. PICK a \in X : TRUE
    OBVIOUS
  <2> HIDE DEF T
  <2>2. Cardinality(X \ {a}) = n
    <3>1. Cardinality(X \ {a}) = Cardinality(X) - 1
      BY <1>1, <2>1, FS_RemoveElement
    <3>2. n \in Nat
      BY <1>3
    <3> QED
      BY <3>1, <3>2
  <2>3. CASE X = {a}
    BY <2>1, <2>3
  <2>4. CASE X \ {a} # {}
    <3> USE DEF T
    <3>1. PICK b \in X \ {a} : \A y \in X \ {a} : y <= b
      BY <1>3, <2>2, <2>4
    <3>2. a \in Nat /\ b \in Nat /\ X \subseteq Nat
      OBVIOUS
    <3> QED
      BY <3>1, <3>2
  <2> QED
    BY <2>1, <2>3, <2>4
<1>4. Cardinality(S) \in T
  BY <1>1, <1>2, <1>3, Inductive
<1>5. Bounded(S)
  BY <1>4
<1> QED
  BY <1>5 DEF Max
-----------------------------------------------------------------------------
(* The archive                                                             *)

\* A file is a file.
LEMMA FileType ==
  ASSUME TypeOK
  PROVE  /\ Len(files) \in Nat /\ DOMAIN files = 1..Len(files)
         /\ \A k \in DOMAIN files :
              /\ files[k] \in [lines : Seq(Record), whole : BOOLEAN]
              /\ files[k].lines \in Seq(Record) /\ files[k].whole \in BOOLEAN
              /\ Len(files[k].lines) \in Nat
              /\ DOMAIN files[k].lines = 1..Len(files[k].lines)
              /\ \A i \in DOMAIN files[k].lines : files[k].lines[i] \in Record
<1> DEFINE F == [lines : Seq(Record), whole : BOOLEAN]
<1>1. files \in Seq(F)
  BY DEF TypeOK
<1>2. \A f \in F : /\ f \in [lines : Seq(Record), whole : BOOLEAN]
                   /\ f.lines \in Seq(Record) /\ f.whole \in BOOLEAN
  OBVIOUS
<1> HIDE DEF F
<1>3. Len(files) \in Nat /\ DOMAIN files = 1..Len(files)
  BY <1>1
<1>4. \A k \in DOMAIN files : files[k] \in F
  BY <1>1
<1> QED
  BY <1>2, <1>3, <1>4

\* A copy is a record of the posting in one of the first n files.
LEMMA CopyPlace ==
  ASSUME NEW n \in Nat, NEW u, NEW p
  PROVE  p \in Copies(n, u) <=> /\ p = <<p[1], p[2]>>
                               /\ p[1] \in 1..n /\ p[2] \in DOMAIN files[p[1]].lines
                               /\ files[p[1]].lines[p[2]][1] = u
  BY DEF Copies, Positions

\* If there is a copy there is a newest one, the copy after all others.
LEMMA NewestCopy ==
  ASSUME TypeOK, NEW n \in 0..Len(files), NEW u, Copies(n, u) # {}
  PROVE  \E p \in Copies(n, u) : \A q \in Copies(n, u) : Later(p, q)
<1> DEFINE Holds(k, i) == i \in DOMAIN files[k].lines /\ files[k].lines[i][1] = u
           F == {k \in 1..n : \E i \in DOMAIN files[k].lines : Holds(k, i)}
           k == Max(F)
           L == {i \in DOMAIN files[k].lines : Holds(k, i)}
           l == Max(L)
<1>1. \A p \in Copies(n, u) : p[1] \in F /\ Holds(p[1], p[2])
  BY CopyPlace
<1>2. k \in F /\ \A x \in F : x <= k
  <2>1. IsFiniteSet(F) /\ F \subseteq Nat /\ F # {}
    <3>1. IsFiniteSet(1..n)
      BY FS_Interval
    <3> QED
      BY <1>1, <3>1, FS_Subset
  <2> QED
    BY <2>1, Greatest
<1>3. l \in L /\ \A x \in L : x <= l
  <2>0. k \in DOMAIN files /\ \E i \in DOMAIN files[k].lines : Holds(k, i)
    <3>1. k \in 1..n /\ \E i \in DOMAIN files[k].lines : Holds(k, i)
      BY <1>2
    <3> HIDE DEF k
    <3> QED
      BY <3>1, FileType
  <2> HIDE DEF k
  <2>2. DOMAIN files[k].lines = 1..Len(files[k].lines) /\ Len(files[k].lines) \in Nat
    BY <2>0, FileType
  <2>3. IsFiniteSet(L) /\ L \subseteq Nat /\ L # {}
    <3>1. IsFiniteSet(1..Len(files[k].lines))
      BY <2>2, FS_Interval
    <3> QED
      BY <2>0, <2>2, <3>1, FS_Subset
  <2> QED
    BY <2>3, Greatest
<1> HIDE DEF F, L, k, l
<1>4. <<k, l>> \in Copies(n, u)
  <2>1. k \in 1..n /\ Holds(k, l)
    BY <1>2, <1>3 DEF F, L
  <2> QED
    BY <2>1, CopyPlace
<1>5. ASSUME NEW q \in Copies(n, u) PROVE Later(<<k, l>>, q)
  <2>1. q[1] \in F /\ Holds(q[1], q[2])
    BY <1>1
  <2>2. q[1] \in Nat /\ k \in Nat /\ q[1] <= k
    BY <1>2, <2>1 DEF F
  <2>3. q[1] = k => q[2] \in L
    BY <2>1 DEF L
  <2> QED
    BY <1>3, <2>2, <2>3 DEF Later
<1> QED
  BY <1>4, <1>5

\* The newest record of a posting is a record, and there is one if there is any.
LEMMA NewestTextType ==
  ASSUME TypeOK, NEW n \in 0..Len(files), NEW u \in Uuid
  PROVE  /\ NewestText(n, u) \in Text \cup {None}
         /\ NewestText(n, u) # None <=> Copies(n, u) # {}
<1>1. CASE Copies(n, u) = {}
  BY <1>1 DEF NewestText
<1>2. CASE Copies(n, u) # {}
  <2> DEFINE p == CHOOSE p \in Copies(n, u) : \A q \in Copies(n, u) : Later(p, q)
  <2>1. p \in Copies(n, u)
    BY <1>2, NewestCopy
  <2>2. NewestText(n, u) = TextAt(p)
    BY <1>2 DEF NewestText
  <2> HIDE DEF p
  <2>3. TextAt(p) \in Text
    <3>1. p[1] \in DOMAIN files /\ p[2] \in DOMAIN files[p[1]].lines
      BY <2>1, CopyPlace, FileType
    <3> QED
      BY <3>1, FileType DEF TextAt, Record
  <2> QED
    BY <1>2, <2>2, <2>3, ReplayAssumption
<1> QED
  BY <1>1, <1>2

\* What is recomputed of a record is of the kind that is stored.
LEMMA RecomputedType ==
  ASSUME TypeOK, NEW t \in Text
  PROVE  /\ tool = "reclassify" => Recomputed(t) \in Verdicts
         /\ tool # "reclassify" => Recomputed(t) \in SUBSET Slug
  BY RulesAssumption DEF TypeOK, Recomputed
-----------------------------------------------------------------------------
(* Types                                                                   *)

RowType == [verdict : Verdicts, raw : Nat \X Nat]

\* What EXCEPT makes of a file, of a row and of an enrichment run.
LEMMA WithLines ==
  ASSUME NEW A, NEW B, NEW f \in [lines : A, whole : B], NEW x \in A
  PROVE  [f EXCEPT !.lines = x] \in [lines : A, whole : B]
  OBVIOUS

\* A row, and an employer, of which one field is replaced.
LEMMA WithVerdict ==
  ASSUME NEW r \in RowType, NEW v \in Verdicts
  PROVE  [r EXCEPT !.verdict = v] \in RowType /\ [r EXCEPT !.verdict = v].raw = r.raw
  BY DEF RowType

LEMMA WithBatch ==
  ASSUME NEW A, NEW B, NEW C, NEW e \in [build : A, aliases : B, batch : C], NEW x
  PROVE  /\ [e EXCEPT !.batch = x].batch = x
         /\ x \in C => [e EXCEPT !.batch = x] \in [build : A, aliases : B, batch : C]
  OBVIOUS

\* A raw_path names a file that was begun, and a place in it.
RawPaths == \A u \in Stored : row[u].raw[1] \in DOMAIN files /\ row[u].raw[2] \in Nat \ {0}

\* What reclassify replays and what an enrichment has in its backlog stays
\* stored: rows are never deleted.
SnapIsStored ==
  /\ tool = "reclassify" => \A u \in Uuid : snap[u] # None => u \in Stored
  /\ enricher # None => enricher.batch \subseteq Stored

TypeInv == TypeOK /\ RawPaths /\ SnapIsStored

\* The job's batch is part of its work, which it has records for.
LEMMA BatchType ==
  ASSUME TypeInv
  PROVE  /\ NextBatch \subseteq todo /\ todo \subseteq Uuid
         /\ \A u \in todo : latest[u] \in Text /\ snap[u] # None
  BY DEF TypeInv, TypeOK, NextBatch

\* The last of a batch's postings of an employer is one of them.
LEMMA StaffType ==
  ASSUME TypeInv, NEW c, StaffOf(c) # {}
  PROVE  /\ Max(StaffOf(c)) \in StaffOf(c)
         /\ \A u \in StaffOf(c) : u <= Max(StaffOf(c))
<1>1. StaffOf(c) \subseteq Uuid
  BY BatchType DEF StaffOf
<1>2. IsFiniteSet(StaffOf(c)) /\ StaffOf(c) \subseteq Nat
  BY <1>1, ReplayAssumption, FS_Subset
<1> QED
  BY <1>2, Greatest

\* The alias table holds the aliases of some build.
LEMMA AliasesType ==
  ASSUME TypeOK, seeded # {}
  PROVE  Aliases \in Build
<1>1. IsFiniteSet(Build) /\ Build \subseteq Nat
  BY ReplayAssumption, FS_Interval DEF Build
<1>2. IsFiniteSet(seeded) /\ seeded \subseteq Nat /\ seeded \subseteq Build
  BY <1>1, FS_Subset DEF TypeOK
<1> QED
  BY <1>2, Greatest DEF Aliases

\* What a raw_path that can be read leads to is a record.
LEMMA RawIsText ==
  ASSUME TypeInv, NEW u \in Stored, ReadableAt(row[u].raw)
  PROVE  TextAt(row[u].raw) \in Text
<1> DEFINE p == row[u].raw
<1>1. p[1] \in DOMAIN files /\ p[2] \in Nat \ {0} /\ p[2] <= Len(files[p[1]].lines)
  BY DEF TypeInv, RawPaths, ReadableAt
<1> HIDE DEF p
<1>2. p[2] \in DOMAIN files[p[1]].lines
  BY <1>1, FileType DEF TypeInv
<1>3. files[p[1]].lines[p[2]] \in Record
  BY <1>1, <1>2, FileType DEF TypeInv
<1> QED
  BY <1>3 DEF TextAt, Record, p

\* The jobs start with values of the right types.
LEMMA InitType == Init => TypeInv
<1>1. Init => TypeOK
  BY ReplayAssumption
  DEF Init, TypeOK, Nowhere, Build, Phases, Tools, Results, Stored
<1>2. Init => RawPaths /\ SnapIsStored
  BY DEF Init, RawPaths, SnapIsStored, Nowhere, Stored
<1> QED
  BY <1>1, <1>2 DEF TypeInv

\* A row that is written is a row, and a posting that is stored stays so.
LEMMA RowsStay ==
  ASSUME TypeInv, row' \in [Uuid -> RowType \cup {None}],
         \A u \in Stored : row'[u] \in RowType
  PROVE  Stored \subseteq Stored'
<1>1. None \notin RowType
  BY ReplayAssumption DEF RowType
<1> QED
  BY <1>1 DEF Stored

\* Every step keeps the types.  What a step leaves alone is in its UNCHANGED
\* and needs no mention.
LEMMA TypeStep ==
  ASSUME TypeInv, [Next]_vars
  PROVE  TypeInv'
<1> USE DEF TypeInv, TypeOK, RawPaths, SnapIsStored, ingestVars, techVars, replayVars
<1>1. ASSUME Deploy PROVE TypeInv'
  BY <1>1, ReplayAssumption DEF Deploy, Build, Stored
<1>2. ASSUME IngestBegins PROVE TypeInv'
  <2> DEFINE f == [lines |-> <<>>, whole |-> TRUE]
  <2>1. f \in [lines : Seq(Record), whole : BOOLEAN] /\ files' = Append(files, f)
    BY <1>2 DEF IngestBegins
  <2> HIDE DEF f
  <2>2. files' \in Seq([lines : Seq(Record), whole : BOOLEAN]) /\ files' # <<>>
    BY <2>1
  <2>3. DOMAIN files \subseteq DOMAIN files'
    BY <2>1, FileType
  <2>4. seeded' \subseteq Build /\ scan' \in [build : Build, known : SUBSET Uuid]
    BY <1>2 DEF IngestBegins, Stored
  <2>5. scan'.build \in seeded' /\ scan'.known \subseteq Stored'
    BY <1>2 DEF IngestBegins, Stored
  <2> QED
    BY <1>2, <2>2, <2>3, <2>4, <2>5 DEF IngestBegins, Stored
<1>3. ASSUME NEW u \in Uuid, NEW t \in Text, Sight(u, t) PROVE TypeInv'
  <2> DEFINE n    == Len(files)
             here == <<n, Len(files[n].lines) + 1>>
             raw  == IF u \in scan.known THEN row[u].raw ELSE here
             f    == [files[n] EXCEPT !.lines = Append(@, <<u, t>>)]
  <2>1. n \in DOMAIN files /\ n \in Nat /\ scan # None /\ here \in Nat \X (Nat \ {0})
    <3>1. scan # None /\ files # <<>>
      BY <1>3 DEF Sight
    <3>2. n \in DOMAIN files /\ n \in Nat
      BY <3>1, FileType
    <3> QED
      BY <3>1, <3>2, FileType
  <2>2. raw \in Nat \X Nat /\ raw[1] \in DOMAIN files /\ raw[2] \in Nat \ {0}
    <3>1. CASE u \in scan.known
      <4>1. u \in Stored
        BY <2>1, <3>1
      <4> QED
        BY <3>1, <4>1 DEF Stored
    <3>2. CASE u \notin scan.known
      BY <2>1, <3>2
    <3> QED
      BY <3>1, <3>2
  <2> HIDE DEF raw
  <2>3. /\ files' \in Seq([lines : Seq(Record), whole : BOOLEAN])
        /\ Len(files') = Len(files) /\ files' # <<>>
    <3>1. CASE files' = files
      BY <2>1, <3>1
    <3>2. CASE files' = [files EXCEPT ![n].lines = Append(@, <<u, t>>)]
      <4>1. files' = [files EXCEPT ![n] = f]
        BY <3>2
      <4>2. f \in [lines : Seq(Record), whole : BOOLEAN]
        <5>1. files[n].lines \in Seq(Record) /\ <<u, t>> \in Record
          BY <2>1, FileType DEF Record
        <5>2. Append(files[n].lines, <<u, t>>) \in Seq(Record)
          BY <5>1
        <5>3. files[n] \in [lines : Seq(Record), whole : BOOLEAN]
          BY <2>1, FileType
        <5> QED
          BY <5>2, <5>3, WithLines
      <4> HIDE DEF f
      <4> QED
        BY <2>1, <4>1, <4>2
    <3> QED
      BY <1>3, <3>1, <3>2 DEF Sight
  <2>4. /\ row' \in [Uuid -> RowType \cup {None}]
        /\ \A x \in Uuid : row'[x] = row[x] \/ (row'[x].raw = raw /\ row'[x] \in RowType)
        /\ ctype' \in [Company -> CompanyTypes \cup {None}]
    <3> DEFINE v == Verdict(scan.build, seeded, t)
    <3>1. v \in Verdicts /\ TypeOf(scan.build, t) \in CompanyTypes
      BY <2>1, RulesAssumption
    <3>2. CASE UNCHANGED <<row, ctype>>
      BY <3>2 DEF RowType
    <3>3. CASE /\ row' = [row EXCEPT ![u] = [verdict |-> v, raw |-> raw]]
               /\ ctype' = [ctype EXCEPT ![Employer[u]] = TypeOf(scan.build, t)]
      BY <2>2, <3>1, <3>3 DEF RowType
    <3> QED
      BY <1>3, <3>2, <3>3 DEF Sight, raw
  <2>5. Stored \subseteq Stored'
    BY <2>4, RowsStay DEF Stored, RowType
  <2>6. RawPaths'
    <3>1. DOMAIN files' = DOMAIN files
      BY <2>3, FileType
    <3> QED
      BY <2>2, <2>4, <3>1 DEF Stored
  <2>7. touched' \subseteq Uuid
    BY <1>3 DEF Sight, Touch
  <2> QED
    BY <1>3, <2>3, <2>4, <2>5, <2>6, <2>7 DEF Sight, RowType
<1>4. ASSUME IngestEnds PROVE TypeInv'
  BY <1>4 DEF IngestEnds, Stored
<1>5. ASSUME IngestKilled PROVE TypeInv'
  <2> DEFINE n == Len(files)
  <2>1. PICK kept \in 0..Len(files[n].lines) :
          files' = [files EXCEPT ![n] = [lines |-> SubSeq(@.lines, 1, kept), whole |-> FALSE]]
    BY <1>5 DEF IngestKilled
  <2>2. n \in DOMAIN files
    <3>1. files # <<>>
      BY <1>5 DEF IngestKilled
    <3> QED
      BY <3>1, FileType
  <2> DEFINE f == [lines |-> SubSeq(files[n].lines, 1, kept), whole |-> FALSE]
  <2>3. f \in [lines : Seq(Record), whole : BOOLEAN] /\ files' = [files EXCEPT ![n] = f]
    BY <2>1, <2>2, FileType
  <2> HIDE DEF f
  <2>4. files' \in Seq([lines : Seq(Record), whole : BOOLEAN]) /\ DOMAIN files' = DOMAIN files
    BY <2>2, <2>3, FileType
  <2> QED
    BY <1>5, <2>4 DEF IngestKilled, Stored
<1>6. ASSUME EnrichBegins PROVE TypeInv'
  <2>1. enricher' \in [build : Build, aliases : Build, batch : SUBSET Uuid]
    BY <1>6, AliasesType DEF EnrichBegins, Backlog, Stored
  <2>2. enricher'.batch \subseteq Stored'
    BY <1>6 DEF EnrichBegins, Backlog, Stored
  <2> QED
    BY <1>6, <2>1, <2>2 DEF EnrichBegins, Stored
<1>7. ASSUME NEW u \in Uuid, Enrich(u) PROVE TypeInv'
  <2>1. TextAt(row[u].raw) \in Text
    <3>1. u \in Stored /\ ReadableAt(row[u].raw)
      BY <1>7 DEF Enrich
    <3> QED
      BY <3>1, RawIsText
  <2>2. Found(enricher.build, enricher.aliases, TextAt(row[u].raw)) \in SUBSET Slug
    BY <1>7, <2>1, RulesAssumption DEF Enrich
  <2>3. tech' \in [Uuid -> SUBSET Slug]
    BY <1>7, <2>2 DEF Enrich
  <2>4. done' \subseteq Uuid /\ touched' \subseteq Uuid
    BY <1>7 DEF Enrich, Touch
  <2>5. /\ enricher' \in [build : Build, aliases : Build, batch : SUBSET Uuid]
        /\ enricher'.batch = enricher.batch \ {u}
    <3>1. enricher \in [build : Build, aliases : Build, batch : SUBSET Uuid]
      BY <1>7 DEF Enrich
    <3>2. enricher' = [enricher EXCEPT !.batch = enricher.batch \ {u}]
      BY <1>7 DEF Enrich
    <3>3. enricher.batch \ {u} \in SUBSET Uuid
      BY <3>1
    <3> QED
      BY <3>1, <3>2, <3>3, WithBatch
  <2>6. enricher'.batch \subseteq Stored'
    BY <1>7, <2>5 DEF Enrich, Stored
  <2>7. Stored' = Stored /\ UNCHANGED <<build, seeded, ingestVars, replayVars>>
    BY <1>7 DEF Enrich, Stored
  <2> QED
    BY <2>3, <2>4, <2>5, <2>6, <2>7
<1>8. ASSUME EnrichEnds PROVE TypeInv'
  BY <1>8 DEF EnrichEnds, Stored
<1>9. ASSUME NEW x \in Tools, Begin(x) PROVE TypeInv'
  <2>1. /\ x = "reclassify" => Population(x) \in [Uuid -> Verdicts \cup {None}]
        /\ x # "reclassify" => Population(x) \in [Uuid -> (SUBSET Slug) \cup {None}]
        /\ x = "reclassify" => \A u \in Uuid : Population(x)[u] # None => u \in Stored
    BY DEF Population, Stored
  <2>2. Len(files) \in Nat
    BY FileType
  <2> QED
    BY <1>9, <2>1, <2>2 DEF Begin, Phases, Results, Nowhere, Stored
<1>10. ASSUME NEW n \in 0..MaxRuns, Walk(n) PROVE TypeInv'
  <2>1. n \in 0..Len(files)
    BY <1>10, FileType DEF Walk
  <2>2. \A u \in Uuid : NewestText(n, u) \in Text \cup {None}
    BY <2>1, NewestTextType
  <2>3. /\ latest' \in [Uuid -> Text \cup {None}]
        /\ \A u \in Uuid : latest'[u] # None => snap[u] # None
    BY <1>10, <2>2 DEF Walk, Replayed
  <2>4. missing' \subseteq Uuid
    BY <1>10 DEF Walk, MissingOf
  <2>5. todo' \subseteq {u \in Uuid : latest'[u] # None}
    BY <1>10 DEF Walk
  <2>6. phase' = "report" /\ phase' \in Phases
    BY <1>10 DEF Walk, Phases
  <2> QED
    BY <1>10, <2>3, <2>4, <2>5, <2>6 DEF Walk, Stored
<1>11. ASSUME NEW k \in 1..MaxRuns, WalkFails(k) PROVE TypeInv'
  BY <1>11 DEF WalkFails, Flaw, Stop, Results, Phases, Nowhere, Stored
<1>12. ASSUME DryRun PROVE TypeInv'
  BY <1>12 DEF DryRun, Stop, Results, Phases, Nowhere, Stored
<1>13. ASSUME Proceed PROVE TypeInv'
  BY <1>13 DEF Proceed, Phases, Stored
<1>14. ASSUME ApplyBatch PROVE TypeInv'
  <2>1. todo' \subseteq todo /\ wrote' \subseteq Uuid /\ NextBatch \subseteq Uuid
    BY <1>14, BatchType DEF ApplyBatch, AfterBatch
  <2>2. CASE tool = "reclassify"
    <3>1. ApplyClassifications
      BY <1>14, <2>2 DEF ApplyBatch
    <3>2. \A u \in NextBatch : u \in Stored /\ Recomputed(latest[u]) \in Verdicts
      <4> SUFFICES ASSUME NEW u \in NextBatch
                   PROVE  u \in Stored /\ Recomputed(latest[u]) \in Verdicts
        OBVIOUS
      <4>1. latest[u] \in Text /\ snap[u] # None /\ u \in Uuid
        BY BatchType
      <4> QED
        BY <2>2, <4>1, RecomputedType
    <3>3. \A u \in NextBatch : row[u] \in RowType
      BY <3>2 DEF Stored, RowType
    <3>4. \A u \in NextBatch : row'[u] \in RowType /\ row'[u].raw = row[u].raw
      <4> SUFFICES ASSUME NEW u \in NextBatch
                   PROVE  row'[u] \in RowType /\ row'[u].raw = row[u].raw
        OBVIOUS
      <4>1. row'[u] = [row[u] EXCEPT !.verdict = Recomputed(latest[u])]
        BY <2>1, <3>1, Zenon DEF ApplyClassifications
      <4> QED
        BY <3>2, <3>3, <4>1, WithVerdict
    <3>5. \A u \in Uuid \ NextBatch : row'[u] = row[u]
      BY <3>1 DEF ApplyClassifications
    <3>6. row' \in [Uuid -> RowType \cup {None}]
      BY <3>1, <3>4, <3>5 DEF ApplyClassifications, RowType
    <3>7. Stored \subseteq Stored' /\ \A u \in Stored' : row'[u].raw = row[u].raw /\ u \in Stored
      <4>1. \A u \in Stored : row'[u] \in RowType
        BY <3>4, <3>5 DEF Stored, RowType
      <4> QED
        BY <3>2, <3>4, <3>5, <3>6, <4>1, RowsStay DEF Stored
    <3>8. ctype' \in [Company -> CompanyTypes \cup {None}]
      <4>1. ASSUME NEW c \in Company, StaffOf(c) # {}
            PROVE  TypeOf(asked, latest[Max(StaffOf(c))]) \in CompanyTypes
        BY <4>1, StaffType, BatchType, RulesAssumption DEF StaffOf
      <4> QED
        BY <3>1, <4>1 DEF ApplyClassifications
    <3> QED
      BY <1>14, <2>1, <3>1, <3>6, <3>7, <3>8 DEF ApplyBatch, ApplyClassifications, RowType
  <2>3. CASE tool # "reclassify"
    <3>1. ApplyRuleTech
      BY <1>14, <2>3 DEF ApplyBatch
    <3>2. \A u \in NextBatch : Recomputed(latest[u]) \in SUBSET Slug
      BY <2>3, BatchType, RecomputedType
    <3>3. tech' \in [Uuid -> SUBSET Slug] /\ done' \subseteq Uuid
      BY <2>1, <3>1, <3>2 DEF ApplyRuleTech, WithMarkers
    <3> QED
      BY <1>14, <2>1, <2>3, <3>1, <3>3 DEF ApplyBatch, ApplyRuleTech, Stored
  <2> QED
    BY <2>2, <2>3
<1>15. ASSUME Finish PROVE TypeInv'
  BY <1>15 DEF Finish, Stop, Results, Phases, Nowhere, Stored
<1>16. ASSUME Abort PROVE TypeInv'
  BY <1>16 DEF Abort, Stop, Results, Phases, Nowhere, Stored
<1>17. CASE UNCHANGED vars
  BY <1>17 DEF vars, Stored
<1> QED
  BY <1>1, <1>2, <1>3, <1>4, <1>5, <1>6, <1>7, <1>8, <1>9, <1>10, <1>11, <1>12, <1>13,
     <1>14, <1>15, <1>16, <1>17 DEF Next

\* Every variable holds a value of its type in every state of every instance.
THEOREM TypeCorrect == Spec => []TypeOK
<1>1. TypeInv => TypeOK
  BY DEF TypeInv
<1> QED
  BY <1>1, InitType, TypeStep, PTL DEF Spec
-----------------------------------------------------------------------------
(* What is processed stays processed                                       *)

\* Whatever the rules of whatever build find in a record, no step takes the
\* last proof that a posting went through the rule layer: rows are only
\* taken by a replay, which leaves a marker (store/retech.go:49-59).
LEMMA ProcessedStep == TypeInv /\ [Next]_vars => Processed \subseteq Processed'
<1> SUFFICES ASSUME TypeInv, [Next]_vars PROVE Processed \subseteq Processed'
  OBVIOUS
<1> USE DEF Processed, ingestVars, techVars, replayVars
<1>1. CASE UNCHANGED techVars
  BY <1>1
<1>2. ASSUME NEW u \in Uuid, Enrich(u) PROVE Processed \subseteq Processed'
  <2>1. \A x \in Uuid : tech[x] \subseteq tech'[x]
    BY <1>2 DEF Enrich, TypeInv, TypeOK
  <2>2. done \subseteq done'
    BY <1>2 DEF Enrich
  <2> QED
    BY <2>1, <2>2
<1>3. ASSUME ApplyBatch, ApplyRuleTech PROVE Processed \subseteq Processed'
  <2>1. \A x \in Uuid \ NextBatch : tech'[x] = tech[x]
    BY <1>3 DEF ApplyRuleTech
  <2>2. done' = done \cup NextBatch
    BY <1>3 DEF ApplyRuleTech, WithMarkers
  <2> QED
    BY <2>1, <2>2
<1>4. ASSUME ApplyBatch, ApplyClassifications PROVE UNCHANGED techVars
  BY <1>4 DEF ApplyClassifications
<1>5. ASSUME NEW u \in Uuid, NEW t \in Text, Sight(u, t) PROVE UNCHANGED techVars
  BY <1>5 DEF Sight
<1>6. ASSUME NEW n \in 0..MaxRuns, Walk(n) PROVE UNCHANGED techVars
  BY <1>6 DEF Walk
<1>7. CASE UNCHANGED vars
  BY <1>7 DEF vars
<1> QED
  BY <1>1, <1>2, <1>3, <1>4, <1>5, <1>6, <1>7
  DEF Next, Deploy, IngestBegins, IngestEnds, IngestKilled, EnrichBegins, EnrichEnds,
      Begin, WalkFails, DryRun, Proceed, ApplyBatch, Finish, Abort

\* A posting the rule layer has processed is never given to it again.
THEOREM NeverTwice == Spec => ProcessedOnce
<1>1. TypeInv /\ [Next]_vars => [Processed \subseteq Processed']_vars
  BY ProcessedStep
<1> QED
  BY <1>1, InitType, TypeStep, PTL DEF Spec, ProcessedOnce
-----------------------------------------------------------------------------
(* What a replay reaches                                                   *)

\* A replay is under way, or got to its end.
Followed == phase # "idle" \/ result \in {"ok", "dry"}

\* Its walk is over.
Learnt == phase \in {"report", "apply"} \/ result \in {"ok", "dry"}

\* It has an outcome only when it is over.
Outcome == phase # "idle" => result = "none"

\* Files that were begun after the replay hold touched postings only.
NewFilesTouched ==
  Followed => /\ start <= Len(files)
              /\ \A k \in DOMAIN files : k > start =>
                   \A i \in DOMAIN files[k].lines : files[k].lines[i][1] \in touched

\* What it has learnt is in the first n files, which were there when it began
\* and do not change any more.
LearntFrom(n) ==
  /\ n \in start..Len(files) /\ \A k \in 1..n : Ends(k)
  /\ latest = [u \in Uuid |-> IF Replayed(u) THEN NewestText(n, u) ELSE None]
  /\ missing = MissingOf(n)

Walked == Learnt => \E n \in Nat : LearntFrom(n)

\* Until a replay writes it, an untouched posting is as the replay loaded it.
AsLoaded ==
  /\ phase = "walk" => \A u \in Uuid \ touched : snap[u] = Population(tool)[u]
  /\ Followed /\ tool = "reclassify" =>
       \A u \in Uuid \ touched : snap[u] = None <=> row[u] = None

Current(u) == IF tool = "reclassify" THEN row[u].verdict ELSE tech[u]

\* What is not left to be written is as recomputed.
Written ==
  phase \in {"report", "apply"} \/ result = "ok" =>
    \A u \in Uuid \ (touched \cup todo) :
      snap[u] # None /\ latest[u] # None => Current(u) = Recomputed(latest[u])

ReachInv == TypeInv /\ Outcome /\ NewFilesTouched /\ Walked /\ AsLoaded /\ Written

JobStep ==
  \/ Deploy \/ IngestBegins \/ IngestEnds \/ IngestKilled
  \/ \E u \in Uuid, t \in Text : Sight(u, t)
  \/ EnrichBegins \/ EnrichEnds
  \/ \E u \in Uuid : Enrich(u)
  \/ UNCHANGED vars

ReplayStep ==
  \/ \E x \in Tools : Begin(x)
  \/ \E n \in 0..MaxRuns : Walk(n)
  \/ \E k \in 1..MaxRuns : WalkFails(k)
  \/ DryRun \/ Proceed \/ ApplyBatch \/ Finish \/ Abort

\* A step is one of a replay or of another job.
LEMMA TwoKindsOfSteps == [Next]_vars => JobStep \/ ReplayStep
  BY DEF Next, JobStep, ReplayStep

\* The other jobs change nothing of a replay, and while it is followed only
\* what they touch.
LEMMA JobStepEffect ==
  ASSUME TypeInv, JobStep
  PROVE  /\ UNCHANGED replayVars /\ touched \subseteq touched'
         /\ Followed => \A u \in Uuid \ touched' : row'[u] = row[u] /\ tech'[u] = tech[u]
         /\ Followed => \A c \in Company :
              (\A u \in touched' : Employer[u] # c) => ctype'[c] = ctype[c]
<1> USE DEF ingestVars, techVars, replayVars
<1>1. ASSUME NEW u \in Uuid, NEW t \in Text, Sight(u, t)
      PROVE  /\ Followed => u \in touched'
             /\ touched \subseteq touched' /\ UNCHANGED <<tech, replayVars>>
             /\ \A x \in Uuid \ {u} : row'[x] = row[x]
             /\ \A c \in Company \ {Employer[u]} : ctype'[c] = ctype[c]
  <2>1. touched' = IF Followed THEN touched \cup {u} ELSE touched
    BY <1>1 DEF Sight, Touch, Followed
  <2>2. \/ UNCHANGED <<row, ctype>>
        \/ \E r, e : row' = [row EXCEPT ![u] = r] /\ ctype' = [ctype EXCEPT ![Employer[u]] = e]
    BY <1>1 DEF Sight
  <2>3. UNCHANGED <<tech, replayVars>>
    BY <1>1 DEF Sight
  <2> QED
    BY <2>1, <2>2, <2>3 DEF TypeInv, TypeOK
<1>2. ASSUME NEW u \in Uuid, Enrich(u)
      PROVE  /\ Followed => u \in touched'
             /\ touched \subseteq touched' /\ UNCHANGED <<row, ctype, replayVars>>
             /\ \A x \in Uuid \ {u} : tech'[x] = tech[x]
  <2>1. touched' = IF Followed THEN touched \cup {u} ELSE touched
    BY <1>2 DEF Enrich, Touch, Followed
  <2>2. UNCHANGED <<row, ctype, replayVars>>
    BY <1>2 DEF Enrich
  <2> QED
    BY <1>2, <2>1, <2>2 DEF Enrich, TypeInv, TypeOK
<1>3. CASE UNCHANGED <<row, ctype, tech, replayVars, touched>>
  BY <1>3
<1> QED
  BY <1>1, <1>2, <1>3
  DEF JobStep, Deploy, IngestBegins, IngestEnds, IngestKilled, EnrichBegins, EnrichEnds, vars

\* Files that end do not change, and end for ever.
LEMMA FilesThatEnd ==
  ASSUME TypeInv, JobStep
  PROVE  /\ Len(files) \in Nat /\ Len(files') \in Nat /\ Len(files) <= Len(files')
         /\ \A k \in 1..Len(files) : Ends(k) => Ends(k)' /\ files'[k] = files[k]
<1> USE DEF ingestVars
<1>1. Len(files) \in Nat /\ DOMAIN files = 1..Len(files)
  BY FileType DEF TypeInv
<1>0. Len(files) \in Nat
  BY <1>1
<1> DEFINE Same(k) == files'[k] = files[k] /\ ~(scan' # None /\ k = Len(files'))
           Result == /\ Len(files') \in Nat /\ Len(files) <= Len(files')
                     /\ \A k \in 1..Len(files) :
                          k # Len(files) \/ scan = None => Same(k)
<1>2. ASSUME UNCHANGED <<files, scan>> PROVE Result
  BY <1>0, <1>2
<1>3. ASSUME IngestBegins PROVE Result
  <2> DEFINE f == [lines |-> <<>>, whole |-> TRUE]
  <2>1. files' = Append(files, f) /\ scan = None
    BY <1>3 DEF IngestBegins
  <2> HIDE DEF f
  <2> DEFINE F == [lines : Seq(Record), whole : BOOLEAN]
  <2>2. files \in Seq(F)
    BY DEF TypeInv, TypeOK
  <2> HIDE DEF F
  <2>3. Len(files') = Len(files) + 1 /\ \A k \in 1..Len(files) : files'[k] = files[k]
    BY <1>1, <2>1, <2>2
  <2> QED
    BY <1>0, <2>1, <2>3
<1>4. ASSUME NEW f, files' = [files EXCEPT ![Len(files)] = f], scan # None
      PROVE  Result
  <2> DEFINE F == [lines : Seq(Record), whole : BOOLEAN]
  <2>1. files \in Seq(F)
    BY DEF TypeInv, TypeOK
  <2> HIDE DEF F
  <2>2. DOMAIN files' = DOMAIN files /\ \A k \in DOMAIN files \ {Len(files)} : files'[k] = files[k]
    BY <1>4
  <2>3. Len(files') = Len(files)
    BY <1>0, <1>1, <1>4
  <2>4. \A k \in 1..Len(files) : k # Len(files) => files'[k] = files[k]
    BY <1>1, <2>2
  <2>5. scan # None
    BY <1>4
  <2> QED
    BY <1>0, <2>3, <2>4, <2>5
<1>5. ASSUME IngestKilled PROVE Result
  <2>1. PICK f : files' = [files EXCEPT ![Len(files)] = f]
    BY <1>5 DEF IngestKilled
  <2> QED
    BY <1>4, <1>5, <2>1 DEF IngestKilled
<1>6. ASSUME \E u \in Uuid, t \in Text : Sight(u, t) PROVE Result
  <2>1. PICK u \in Uuid, t \in Text : Sight(u, t)
    BY <1>6
  <2>2. scan' = scan /\ scan # None
    BY <2>1 DEF Sight
  <2>3. ASSUME UNCHANGED files PROVE Result
    BY <1>2, <2>2, <2>3
  <2>4. ASSUME NEW f, files' = [files EXCEPT ![Len(files)].lines = f] PROVE Result
    BY <1>4, <2>2, <2>4
  <2>5. UNCHANGED files \/ \E f : files' = [files EXCEPT ![Len(files)].lines = f]
    BY <2>1 DEF Sight
  <2> QED
    BY <2>3, <2>4, <2>5
<1>7. ASSUME IngestEnds PROVE Result
  BY <1>1, <1>7 DEF IngestEnds
<1>8. Result
  BY <1>2, <1>3, <1>5, <1>6, <1>7
  DEF JobStep, Deploy, EnrichBegins, EnrichEnds, Enrich, vars
<1> HIDE DEF Result
<1>9. ASSUME NEW k \in 1..Len(files), Ends(k) PROVE Ends(k)' /\ files'[k] = files[k]
  <2>1. files[k].whole /\ ~(scan # None /\ k = Len(files))
    BY <1>9 DEF Ends
  <2>2. Same(k)
    BY <1>8, <2>1 DEF Result
  <2>3. files'[k].whole /\ ~(scan' # None /\ k = Len(files'))
    BY <1>1, <1>8, <2>1, <2>2 DEF Result
  <2> QED
    BY <2>2, <2>3 DEF Ends
<1> QED
  BY <1>1, <1>8, <1>9 DEF Result

\* So what was read of the first n files can be read again.
LEMMA ReadAgain ==
  ASSUME TypeInv, JobStep, NEW n \in 0..Len(files), \A k \in 1..n : Ends(k), NEW u
  PROVE  /\ n \in 0..Len(files') /\ \A k \in 1..n : Ends(k)'
         /\ Copies(n, u)' = Copies(n, u)
         /\ \A p \in Copies(n, u) : TextAt(p)' = TextAt(p)
         /\ NewestText(n, u)' = NewestText(n, u)
<1>1. n \in Nat /\ n \in 0..Len(files') /\ \A k \in 1..n : Ends(k)' /\ files'[k] = files[k]
  BY FilesThatEnd
<1>2. Positions(n)' = Positions(n) /\ \A p \in Positions(n) : p[1] \in 1..n
  BY <1>1 DEF Positions
<1>3. Copies(n, u)' = Copies(n, u)
  BY <1>1, <1>2 DEF Copies
<1>4. \A p \in Copies(n, u) : TextAt(p)' = TextAt(p)
  BY <1>1, <1>2 DEF Copies, TextAt
<1>5. NewestText(n, u)' = NewestText(n, u)
  <2> DEFINE newest == CHOOSE p \in Copies(n, u) : \A q \in Copies(n, u) : Later(p, q)
  <2>1. /\ NewestText(n, u) = IF Copies(n, u) = {} THEN None ELSE TextAt(newest)
        /\ NewestText(n, u)' = IF Copies(n, u)' = {} THEN None ELSE TextAt(newest)'
    BY DEF NewestText
  <2>2. newest' = newest
    BY <1>3
  <2>3. Copies(n, u) # {} => newest \in Copies(n, u)
    BY NewestCopy DEF TypeInv
  <2>4. TextAt(newest)' = files'[newest'[1]].lines[newest'[2]][2]
    BY DEF TextAt
  <2>5. ASSUME NEW p \in Copies(n, u) PROVE files'[p[1]].lines[p[2]][2] = TextAt(p)
    BY <1>1, <1>2 DEF Copies, TextAt
  <2> HIDE DEF newest
  <2> QED
    BY <1>3, <2>1, <2>2, <2>3, <2>4, <2>5
<1> QED
  BY <1>1, <1>3, <1>4, <1>5

-----------------------------------------------------------------------------
(* The parts of ReachInv, kept by each step                                *)

\* How a replay stops.
LEMMA StopEffect ==
  ASSUME NEW outcome, Stop(outcome)
  PROVE  /\ phase' = "idle" /\ result' = outcome /\ todo' = {}
         /\ UNCHANGED <<files, scan, row, ctype, tool, asked, rules, start>>
         /\ outcome \in {"ok", "dry"} => UNCHANGED <<snap, latest, missing, wrote, touched>>
  BY DEF Stop, ingestVars

\* The steps of a replay, by what they do to its outcome.
LEMMA StepKinds ==
  ASSUME TypeInv, Outcome, ReplayStep
  PROVE  \/ \E x \in Tools : Begin(x)
         \/ \E n \in 0..MaxRuns : Walk(n)
         \/ Proceed
         \/ ApplyBatch
         \/ phase = "report" /\ Stop("dry") /\ UNCHANGED techVars
         \/ phase = "apply" /\ todo = {} /\ Stop("ok") /\ UNCHANGED techVars
         \/ \E o \in Results \ {"none", "ok", "dry"} : Stop(o)
  BY DEF ReplayStep, WalkFails, Flaw, DryRun, Finish, Abort, Results

\* A replay gets its outcome when it stops.
LEMMA OutcomeStep ==
  ASSUME ReachInv, [Next]_vars
  PROVE  Outcome'
<1> USE DEF ReachInv, Outcome
<1>1. CASE JobStep
  BY <1>1, JobStepEffect DEF replayVars
<1>2. CASE ReplayStep
  BY <1>2, StepKinds, StopEffect DEF Begin, Walk, Proceed, ApplyBatch
<1> QED
  BY <1>1, <1>2, TwoKindsOfSteps

\* While it is followed, a file that was begun later holds touched postings.
LEMMA NewFilesStep ==
  ASSUME ReachInv, [Next]_vars
  PROVE  NewFilesTouched'
<1> USE DEF ReachInv
<1>0. Len(files) \in Nat /\ DOMAIN files = 1..Len(files) /\ Len(files') \in Nat /\ DOMAIN files' = 1..Len(files')
  <2>1. TypeInv'
    BY TypeStep
  <2> QED
    BY <2>1, FileType DEF TypeInv
<1>1. CASE JobStep
  <2> SUFFICES ASSUME Followed'
               PROVE  /\ start' <= Len(files')
                      /\ \A k \in DOMAIN files' : k > start =>
                           \A i \in DOMAIN files'[k].lines : files'[k].lines[i][1] \in touched'
    BY <1>1, JobStepEffect DEF NewFilesTouched, replayVars
  <2>1. Followed /\ start' = start
    BY <1>1, JobStepEffect DEF Followed, replayVars
  <2>2. start' <= Len(files')
    BY <1>0, <1>1, <2>1, FilesThatEnd DEF NewFilesTouched, TypeInv, TypeOK
  <2>3. CASE UNCHANGED files
    BY <1>1, <2>1, <2>3, JobStepEffect DEF NewFilesTouched
  <2>4. CASE IngestBegins
    <3> DEFINE f == [lines |-> <<>>, whole |-> TRUE]
               F == [lines : Seq(Record), whole : BOOLEAN]
    <3>1. files' = Append(files, f) /\ files \in Seq(F) /\ DOMAIN f.lines = {}
      BY <2>4 DEF IngestBegins, TypeInv, TypeOK
    <3> HIDE DEF f, F
    <3>2. \A k \in DOMAIN files' : (k \in DOMAIN files /\ files'[k] = files[k]) \/ files'[k] = f
      BY <1>0, <3>1
    <3> QED
      BY <1>1, <2>1, <2>2, <3>1, <3>2, JobStepEffect DEF NewFilesTouched
  <2>5. CASE IngestKilled
    <3> DEFINE n == Len(files)
    <3>1. PICK kept \in 0..Len(files[n].lines) :
            files' = [files EXCEPT ![n] = [lines |-> SubSeq(@.lines, 1, kept), whole |-> FALSE]]
      BY <2>5 DEF IngestKilled
    <3>2. n \in DOMAIN files /\ files[n].lines \in Seq(Record)
      <4>1. files # <<>>
        BY <2>5 DEF IngestKilled, TypeInv, TypeOK
      <4> QED
        BY <4>1, FileType DEF TypeInv
    <3> DEFINE s == SubSeq(files[n].lines, 1, kept)
    <3>3. DOMAIN s \subseteq DOMAIN files[n].lines /\ \A i \in DOMAIN s : s[i] = files[n].lines[i]
      BY <3>2
    <3>4. /\ DOMAIN files' = DOMAIN files /\ files'[n].lines = s
          /\ \A k \in DOMAIN files \ {n} : files'[k] = files[k]
      BY <3>1, <3>2
    <3> HIDE DEF s, n
    <3> QED
      BY <1>1, <2>1, <2>2, <3>3, <3>4, JobStepEffect DEF NewFilesTouched
  <2>6. ASSUME NEW u \in Uuid, NEW t \in Text, Sight(u, t),
               files' = [files EXCEPT ![Len(files)].lines = Append(@, <<u, t>>)]
        PROVE  \A k \in DOMAIN files' : k > start =>
                 \A i \in DOMAIN files'[k].lines : files'[k].lines[i][1] \in touched'
    <3> DEFINE n == Len(files)
               s == Append(files[n].lines, <<u, t>>)
    <3>1. u \in touched' /\ touched \subseteq touched'
      BY <2>1, <2>6 DEF Sight, Touch, Followed
    <3>2. n \in DOMAIN files /\ files[n] \in [lines : Seq(Record), whole : BOOLEAN]
      <4>1. files # <<>>
        BY <2>6 DEF Sight, TypeInv, TypeOK
      <4> QED
        BY <4>1, FileType DEF TypeInv
    <3>3. \A i \in DOMAIN s : (i \in DOMAIN files[n].lines /\ s[i] = files[n].lines[i]) \/ s[i][1] = u
      BY <3>2
    <3>4. /\ DOMAIN files' = DOMAIN files /\ files'[n].lines = s
          /\ \A k \in DOMAIN files \ {n} : files'[k] = files[k]
      BY <2>6, <3>2
    <3> HIDE DEF s, n
    <3> QED
      BY <2>1, <3>1, <3>3, <3>4 DEF NewFilesTouched
  <2> QED
    BY <1>1, <2>2, <2>3, <2>4, <2>5, <2>6
    DEF JobStep, Deploy, IngestEnds, Sight, EnrichBegins, EnrichEnds, Enrich, vars, ingestVars
<1>2. CASE ReplayStep
  <2>1. ASSUME NEW x \in Tools, Begin(x) PROVE NewFilesTouched'
    BY <1>0, <2>1 DEF Begin, NewFilesTouched, ingestVars
  <2>2. ASSUME phase # "idle", UNCHANGED <<files, start, touched>> PROVE NewFilesTouched'
    BY <2>2 DEF NewFilesTouched, Followed
  <2>3. ASSUME NEW o \in Results \ {"none", "ok", "dry"}, Stop(o) PROVE NewFilesTouched'
    BY <2>3, StopEffect DEF NewFilesTouched, Followed
  <2> QED
    BY <1>2, <2>1, <2>2, <2>3, StepKinds, StopEffect DEF Walk, Proceed, ApplyBatch, ingestVars
<1> QED
  BY <1>1, <1>2, TwoKindsOfSteps

\* Only what ended is learnt, and it does not change.
LEMMA WalkedStep ==
  ASSUME ReachInv, [Next]_vars
  PROVE  Walked'
<1> USE DEF ReachInv
<1>1. CASE JobStep
  <2> SUFFICES ASSUME Learnt' PROVE \E n \in Nat : LearntFrom(n)'
    BY DEF Walked
  <2>1. UNCHANGED replayVars
    BY <1>1, JobStepEffect
  <2>2. Learnt
    BY <2>1 DEF Learnt, replayVars
  <2>3. PICK n \in Nat : LearntFrom(n)
    BY <2>2 DEF Walked
  <2>4. n \in 0..Len(files) /\ n >= start /\ \A k \in 1..n : Ends(k)
    BY <2>3 DEF LearntFrom, TypeInv, TypeOK
  <2>5. /\ n \in start..Len(files') /\ \A k \in 1..n : Ends(k)'
    BY <1>1, <2>3, <2>4, ReadAgain DEF LearntFrom
  <2>6. ASSUME NEW u
        PROVE  /\ Copies(n, u)' = Copies(n, u)
               /\ \A p \in Copies(n, u) : TextAt(p)' = TextAt(p)
               /\ NewestText(n, u)' = NewestText(n, u)
    BY <1>1, <2>3, <2>4, ReadAgain
  <2>7. latest' = [u \in Uuid |-> IF Replayed(u)' THEN NewestText(n, u)' ELSE None]
    <3>1. latest' = latest /\ latest = [u \in Uuid |-> IF Replayed(u) THEN NewestText(n, u) ELSE None]
      BY <2>1, <2>3 DEF LearntFrom, replayVars
    <3>2. ASSUME NEW u PROVE Replayed(u)' <=> Replayed(u)
      BY <2>1 DEF Replayed, replayVars
    <3> QED
      BY <2>6, <3>1, <3>2
  <2>8. missing' = MissingOf(n)'
    <3>1. ASSUME NEW u, NEW p \in Copies(n, u)
          PROVE  Recomputed(TextAt(p))' = Recomputed(TextAt(p))
      <4>1. TextAt(p)' = TextAt(p)
        BY <2>6
      <4> QED
        BY <2>1, <4>1 DEF Recomputed, replayVars
    <3>2. ASSUME NEW u \in Uuid
          PROVE  (\E p \in Copies(n, u) : Recomputed(TextAt(p)) \in Candidates)'
                   <=> \E p \in Copies(n, u) : Recomputed(TextAt(p)) \in Candidates
      BY <2>6, <3>1
    <3>3. MissingOf(n)' =
            {u \in Uuid : /\ tool = "reclassify" /\ snap[u] = None
                          /\ (\E p \in Copies(n, u) : Recomputed(TextAt(p)) \in Candidates)'}
      BY <2>1 DEF MissingOf, replayVars
    <3> QED
      BY <2>1, <2>3, <3>2, <3>3 DEF LearntFrom, MissingOf, replayVars
  <2> QED
    BY <2>1, <2>5, <2>7, <2>8 DEF LearntFrom, replayVars
<1>2. CASE ReplayStep
  <2>1. ASSUME NEW n \in 0..MaxRuns, Walk(n) PROVE Walked'
    <3>1. n \in Nat
      BY ReplayAssumption
    <3>2. UNCHANGED <<files, scan, snap, tool, asked, rules, start>>
      BY <2>1 DEF Walk, ingestVars
    <3>3. /\ \A k : Ends(k)' = Ends(k)
          /\ \A u : NewestText(n, u)' = NewestText(n, u)
          /\ MissingOf(n)' = MissingOf(n)
      BY <3>2 DEF Ends, NewestText, Copies, Positions, TextAt, MissingOf, Recomputed
    <3>4. LearntFrom(n)'
      BY <2>1, <3>2, <3>3 DEF LearntFrom, Walk, Replayed
    <3> QED
      BY <3>1, <3>4 DEF Walked
  <2>2. ASSUME Learnt, UNCHANGED <<files, scan, snap, latest, missing, tool, asked, rules, start>>
        PROVE  Walked'
    <3>1. PICK n \in Nat : LearntFrom(n)
      BY <2>2 DEF Walked
    <3>2. /\ \A k : Ends(k)' = Ends(k)
          /\ \A u : NewestText(n, u)' = NewestText(n, u)
          /\ MissingOf(n)' = MissingOf(n)
      BY <2>2 DEF Ends, NewestText, Copies, Positions, TextAt, MissingOf, Recomputed
    <3>3. LearntFrom(n)'
      BY <2>2, <3>1, <3>2 DEF LearntFrom, Replayed
    <3> QED
      BY <3>1, <3>3 DEF Walked
  <2>3. ASSUME ~Learnt' PROVE Walked'
    BY <2>3 DEF Walked
  <2>4. ASSUME NEW x \in Tools, Begin(x) PROVE ~Learnt'
    BY <2>4 DEF Begin, Learnt
  <2>5. ASSUME NEW o \in Results \ {"none", "ok", "dry"}, Stop(o) PROVE ~Learnt'
    BY <2>5, StopEffect DEF Learnt
  <2>6. ASSUME phase \in {"report", "apply"},
               \/ Proceed \/ ApplyBatch
               \/ \E o \in {"ok", "dry"} : Stop(o)
        PROVE  Walked'
    BY <2>2, <2>6, StopEffect DEF Learnt, Proceed, ApplyBatch, ingestVars
  <2> QED
    BY <1>2, <2>1, <2>3, <2>4, <2>5, <2>6, StepKinds DEF Proceed, ApplyBatch
<1> QED
  BY <1>1, <1>2, TwoKindsOfSteps

\* What no one touches is as the replay loaded it until the replay writes it.
LEMMA AsLoadedStep ==
  ASSUME ReachInv, [Next]_vars
  PROVE  AsLoaded'
<1> USE DEF ReachInv
<1>1. CASE JobStep
  <2>1. /\ UNCHANGED replayVars /\ touched \subseteq touched'
        /\ Followed => \A u \in Uuid \ touched' : row'[u] = row[u] /\ tech'[u] = tech[u]
    BY <1>1, JobStepEffect
  <2>2. ASSUME NEW u \in Uuid, row'[u] = row[u], tech'[u] = tech[u]
        PROVE  Population(tool)'[u] = Population(tool)[u]
    BY <2>1, <2>2 DEF Population, Stored, replayVars
  <2> QED
    BY <2>1, <2>2 DEF AsLoaded, Followed, replayVars
<1>2. CASE ReplayStep
  <2>1. ASSUME NEW x \in Tools, Begin(x) PROVE AsLoaded'
    <3>1. /\ snap' = Population(x) /\ tool' = x /\ UNCHANGED <<row, tech>> /\ phase' = "walk"
      BY <2>1 DEF Begin, ingestVars, techVars
    <3>2. Population(tool)' = Population(x)
      BY <3>1 DEF Population, Stored
    <3>3. x = "reclassify" => \A u \in Uuid : Population(x)[u] = None <=> row[u] = None
      BY ReplayAssumption DEF Population, Stored, TypeInv, TypeOK
    <3> QED
      BY <3>1, <3>2, <3>3 DEF AsLoaded
  <2>2. ASSUME Followed, phase' # "walk", UNCHANGED <<row, snap, tool, touched>> PROVE AsLoaded'
    BY <2>2 DEF AsLoaded
  <2>3. ASSUME NEW o \in Results \ {"none", "ok", "dry"}, Stop(o) PROVE AsLoaded'
    BY <2>3, StopEffect DEF AsLoaded, Followed
  <2>4. ASSUME ApplyBatch, tool = "reclassify" PROVE AsLoaded'
    <3>1. /\ Followed /\ phase' = "apply" /\ UNCHANGED <<snap, tool, touched>>
          /\ ApplyClassifications
      BY <2>4 DEF ApplyBatch, Followed
    <3>2. TypeInv'
      BY TypeStep
    <3>3. \A u \in Uuid \ NextBatch : row'[u] = row[u]
      BY <3>1 DEF ApplyClassifications
    <3>4. \A u \in NextBatch : snap[u] # None /\ row'[u] # None
      BY <2>4, <3>1, <3>2, BatchType DEF TypeInv, SnapIsStored, Stored
    <3> QED
      BY <3>1, <3>3, <3>4 DEF AsLoaded
  <2>5. ASSUME ApplyBatch, tool # "reclassify" PROVE AsLoaded'
    BY <2>5 DEF ApplyBatch, AsLoaded
  <2> QED
    BY <1>2, <2>1, <2>2, <2>3, <2>4, <2>5, StepKinds, StopEffect
    DEF Walk, Proceed, Followed, ingestVars
<1> QED
  BY <1>1, <1>2, TwoKindsOfSteps

\* What a replay has no more work with is as recomputed.
LEMMA WrittenStep ==
  ASSUME ReachInv, [Next]_vars
  PROVE  Written'
<1> USE DEF ReachInv
<1> DEFINE Live == phase \in {"report", "apply"} \/ result = "ok"
<1>1. CASE JobStep
  <2>1. /\ UNCHANGED replayVars /\ touched \subseteq touched'
        /\ Followed => \A u \in Uuid \ touched' : row'[u] = row[u] /\ tech'[u] = tech[u]
    BY <1>1, JobStepEffect
  <2>2. \A t : Recomputed(t)' = Recomputed(t)
    BY <2>1 DEF Recomputed, replayVars
  <2> QED
    BY <2>1, <2>2 DEF Written, Followed, Current, replayVars
<1>2. CASE ReplayStep
  <2>1. ASSUME NEW n \in 0..MaxRuns, Walk(n) PROVE Written'
    <3>1. /\ phase = "walk" /\ UNCHANGED <<row, tech, snap, tool, asked, rules, touched>>
          /\ todo' = {u \in Uuid : latest'[u] # None /\ Recomputed(latest'[u]) # snap[u]}
      BY <2>1 DEF Walk, ingestVars, techVars
    <3>2. ASSUME NEW u \in Uuid \ (touched' \cup todo'), snap'[u] # None, latest'[u] # None
          PROVE  Current(u)' = Recomputed(latest[u])'
      <4>1. snap[u] = Population(tool)[u] /\ snap[u] # None /\ Recomputed(latest'[u]) = snap[u]
        BY <3>1, <3>2 DEF AsLoaded
      <4>2. Population(tool)[u] = Current(u)
        BY <4>1 DEF Population, Current, Stored
      <4> QED
        BY <3>1, <4>1, <4>2 DEF Current, Recomputed
    <3> QED
      BY <3>2 DEF Written
  <2>2. ASSUME Live, UNCHANGED <<row, tech, snap, latest, tool, asked, rules, touched, todo>>
        PROVE  Written'
    BY <2>2 DEF Written, Current, Recomputed
  <2>3. ASSUME ~Live' PROVE Written'
    BY <2>3 DEF Written
  <2>4. ASSUME NEW x \in Tools, Begin(x) PROVE ~Live'
    BY <2>4 DEF Begin
  <2>5. ASSUME NEW o \in Results \ {"none", "ok"}, Stop(o) PROVE ~Live'
    BY <2>5, StopEffect
  <2>6. ASSUME ApplyBatch PROVE Written'
    <3>1. /\ phase = "apply" /\ UNCHANGED <<snap, latest, tool, asked, rules, touched>>
          /\ todo' = todo \ NextBatch
          /\ IF tool = "reclassify" THEN ApplyClassifications ELSE ApplyRuleTech
      BY <2>6 DEF ApplyBatch, AfterBatch
    <3>2. \A t : Recomputed(t)' = Recomputed(t)
      BY <3>1 DEF Recomputed
    <3>3. ASSUME NEW u \in NextBatch PROVE Current(u)' = Recomputed(latest[u])
      <4>1. u \in Uuid /\ snap[u] # None
        BY BatchType
      <4>2. CASE tool = "reclassify"
        <5>1. row[u] \in RowType
          BY <4>1, <4>2 DEF TypeInv, TypeOK, SnapIsStored, Stored, RowType
        <5>2. row'[u] = [row[u] EXCEPT !.verdict = Recomputed(latest[u])]
          BY <3>1, <4>1, <4>2, Zenon DEF ApplyClassifications
        <5>3. row'[u].verdict = Recomputed(latest[u])
          BY <5>1, <5>2 DEF RowType
        <5> QED
          BY <3>1, <4>2, <5>3 DEF Current
      <4>3. CASE tool # "reclassify"
        BY <3>1, <4>1, <4>3 DEF ApplyRuleTech, Current
      <4> QED
        BY <4>2, <4>3
    <3>4. ASSUME NEW u \in Uuid \ NextBatch PROVE Current(u)' = Current(u)
      BY <3>1 DEF ApplyClassifications, ApplyRuleTech, Current, techVars
    <3> QED
      BY <3>1, <3>2, <3>3, <3>4 DEF Written
  <2>7. ASSUME phase = "apply", todo = {}, Stop("ok"), UNCHANGED techVars PROVE Written'
    BY <2>2, <2>7, StopEffect DEF techVars
  <2> QED
    BY <1>2, <2>1, <2>2, <2>3, <2>4, <2>5, <2>6, <2>7, StepKinds
    DEF Proceed, Results, ingestVars, techVars
<1> QED
  BY <1>1, <1>2, TwoKindsOfSteps

\* At first no replay has run.
LEMMA ReachInit == Init => ReachInv
<1> SUFFICES ASSUME Init PROVE ReachInv
  OBVIOUS
<1>1. TypeInv
  BY InitType
<1>2. phase = "idle" /\ result = "none"
  BY DEF Init
<1> QED
  BY <1>1, <1>2 DEF ReachInv, Outcome, NewFilesTouched, Walked, AsLoaded, Written, Followed, Learnt

\* ReachInv is inductive.
LEMMA ReachStep == ReachInv /\ [Next]_vars => ReachInv'
<1> SUFFICES ASSUME ReachInv, [Next]_vars PROVE ReachInv'
  OBVIOUS
<1>1. TypeInv'
  BY TypeStep DEF ReachInv
<1> QED
  BY <1>1, OutcomeStep, NewFilesStep, WalkedStep, AsLoadedStep, WrittenStep DEF ReachInv

\* No untouched posting has a record in a file the walk did not read.
LEMMA AllOfItsCopies ==
  ASSUME TypeInv, Followed, NewFilesTouched, NEW n, LearntFrom(n), NEW u \in Uuid \ touched
  PROVE  Copies(Len(files), u) = Copies(n, u)
<1>1. Len(files) \in Nat /\ DOMAIN files = 1..Len(files)
  BY FileType DEF TypeInv
<1>2. n \in start..Len(files) /\ start \in Nat
  BY DEF LearntFrom, TypeInv, TypeOK
<1>3. Copies(n, u) \subseteq Copies(Len(files), u)
  BY <1>1, <1>2, CopyPlace DEF Copies, Positions
<1>4. ASSUME NEW p \in Copies(Len(files), u) PROVE p \in Copies(n, u)
  <2>1. /\ p \in Positions(Len(files)) /\ files[p[1]].lines[p[2]][1] = u
        /\ p[1] \in 1..Len(files) /\ p[2] \in DOMAIN files[p[1]].lines /\ p = <<p[1], p[2]>>
    BY <1>4 DEF Copies, Positions
  <2>2. ~(p[1] > start)
    BY <1>1, <2>1 DEF NewFilesTouched
  <2>3. p[1] \in 1..n
    BY <1>1, <1>2, <2>1, <2>2
  <2> QED
    BY <2>1, <2>3 DEF Copies, Positions
<1> QED
  BY <1>3, <1>4

\* A replay that ended well has written what the newest records say.
LEMMA ReachesFromInv == ReachInv => ReplayReaches
<1> SUFFICES ASSUME ReachInv, result = "ok", NEW u \in Uuid \ touched,
                    snap[u] # None, NewestText(Len(files), u) # None
             PROVE  Current(u) = Recomputed(NewestText(Len(files), u))
  BY DEF ReplayReaches, Current
<1> USE DEF ReachInv
<1>1. phase = "idle" /\ Followed /\ Learnt /\ todo = {}
  BY DEF Outcome, Followed, Learnt, TypeInv, TypeOK
<1>2. PICK n \in Nat : LearntFrom(n)
  BY <1>1 DEF Walked
<1>3. Copies(Len(files), u) = Copies(n, u)
  BY <1>1, <1>2, AllOfItsCopies
<1>4. NewestText(Len(files), u) = NewestText(n, u)
  BY <1>3 DEF NewestText
<1>5. latest[u] = NewestText(n, u)
  BY <1>2 DEF LearntFrom, Replayed
<1> QED
  BY <1>1, <1>4, <1>5 DEF Written

\* A replay that ends well has brought every posting it loaded, that no other
\* job touched and that is in the archive, to what its newest record says:
\* whatever batches, kills of the ingest run, deployments and new files there
\* were meanwhile.
THEOREM Reaches == Spec => []ReplayReaches
<1> QED
  BY ReachInit, ReachStep, ReachesFromInv, PTL DEF Spec

\* What it reports as missing is archived and not stored.
LEMMA GapsFromInv == ReachInv => GapsAreReal
<1> SUFFICES ASSUME ReachInv, result \in {"ok", "dry"}, tool = "reclassify",
                    NEW u \in Uuid \ touched
             PROVE  u \in missing <=>
                      /\ row[u] = None
                      /\ \E p \in Copies(Len(files), u) : Recomputed(TextAt(p)) \in Candidates
  BY DEF GapsAreReal
<1> USE DEF ReachInv
<1>1. Followed /\ Learnt
  BY DEF Followed, Learnt
<1>2. PICK n \in Nat : LearntFrom(n)
  BY <1>1 DEF Walked
<1>3. Copies(Len(files), u) = Copies(n, u)
  BY <1>1, <1>2, AllOfItsCopies
<1>4. u \in missing <=>
        snap[u] = None /\ \E p \in Copies(n, u) : Recomputed(TextAt(p)) \in Candidates
  BY <1>2 DEF LearntFrom, MissingOf
<1>5. snap[u] = None <=> row[u] = None
  BY <1>1 DEF AsLoaded
<1> QED
  BY <1>3, <1>4, <1>5

\* What a reclassify that got to its end reports as missing is archived, is a
\* candidate and is not stored, and nothing it should report is left out, as
\* far as no other job touched the posting.
THEOREM RealGaps == Spec => []GapsAreReal
<1> QED
  BY ReachInit, ReachStep, GapsFromInv, PTL DEF Spec
-----------------------------------------------------------------------------
(* The type a replay leaves an employer with                               *)

Staff(c) == {u \in wrote : Employer[u] = c}

\* It writes in the order of the postings.
Ordered ==
  /\ phase \in {"walk", "report"} => wrote = {}
  /\ phase = "apply" => \A a \in wrote, b \in todo : a < b

Named ==
  (phase = "apply" \/ result = "ok") /\ tool = "reclassify" =>
    \A c \in Company :
      Staff(c) # {} /\ (\A u \in touched : Employer[u] # c) =>
        ctype[c] = TypeOf(asked, latest[Max(Staff(c))])

NameInv == TypeInv /\ Outcome /\ Ordered /\ Named

\* Max is what is at least as great as the others.
LEMMA GreatestIs ==
  ASSUME NEW S, S \subseteq Nat, NEW m \in S, \A x \in S : x <= m
  PROVE  Max(S) = m
<1>1. \E x \in S : \A y \in S : x >= y
  OBVIOUS
<1>2. Max(S) \in S /\ \A y \in S : Max(S) >= y
  BY <1>1 DEF Max
<1>3. Max(S) \in Nat /\ m \in Nat /\ Max(S) >= m /\ Max(S) <= m
  BY <1>2
<1> QED
  BY <1>3

\* A batch comes before the rest of the work.
LEMMA BatchBeforeRest ==
  ASSUME TypeInv, NEW u \in NextBatch, NEW v \in todo \ NextBatch
  PROVE  u < v
<1> DEFINE Below(x) == {w \in todo : w < x}
<1>1. todo \subseteq Nat /\ IsFiniteSet(todo) /\ u \in todo
  BY BatchType, ReplayAssumption, FS_Subset
<1>2. SUFFICES ASSUME v <= u PROVE FALSE
  BY <1>1
<1>3. ASSUME NEW w \in todo, w < v PROVE w < u
  BY <1>1, <1>2, <1>3
<1>4. IsFiniteSet(Below(u)) /\ IsFiniteSet(Below(v))
  BY <1>1, FS_Subset
<1>5. /\ Cardinality(Below(v)) \in Nat /\ Cardinality(Below(u)) \in Nat
      /\ Cardinality(Below(v)) <= Cardinality(Below(u))
  <2>1. Below(v) \subseteq Below(u)
    BY <1>3
  <2> QED
    BY <2>1, <1>4, FS_Subset, FS_CardinalityType
<1>6. Cardinality(Below(u)) < Batch /\ ~(Cardinality(Below(v)) < Batch)
  BY DEF NextBatch
<1> QED
  BY <1>5, <1>6, ReplayAssumption

\* Batches are applied in the order of the postings.
LEMMA OrderedStep ==
  ASSUME NameInv, [Next]_vars
  PROVE  Ordered'
<1> USE DEF NameInv
<1>1. CASE JobStep
  BY <1>1, JobStepEffect DEF Ordered, replayVars
<1>2. CASE ReplayStep
  <2>1. ASSUME NEW x \in Tools, Begin(x) PROVE Ordered'
    BY <2>1 DEF Begin, Ordered
  <2>2. ASSUME NEW n \in 0..MaxRuns, Walk(n) PROVE Ordered'
    BY <2>2 DEF Walk, Ordered
  <2>3. ASSUME Proceed PROVE Ordered'
    BY <2>3 DEF Proceed, Ordered
  <2>4. ASSUME ApplyBatch PROVE Ordered'
    <3>1. /\ phase = "apply" /\ phase' = "apply" /\ todo' = todo \ NextBatch
          /\ wrote' = wrote \cup NextBatch
      BY <2>4 DEF ApplyBatch, AfterBatch
    <3>2. \A a \in NextBatch, b \in todo \ NextBatch : a < b
      BY BatchBeforeRest
    <3> QED
      BY <3>1, <3>2 DEF Ordered
  <2>5. ASSUME NEW o, Stop(o) PROVE Ordered'
    BY <2>5, StopEffect DEF Ordered
  <2> QED
    BY <1>2, <2>1, <2>2, <2>3, <2>4, <2>5, StepKinds
<1> QED
  BY <1>1, <1>2, TwoKindsOfSteps

\* An employer is named by the last of its postings that was applied.
LEMMA NamedStep ==
  ASSUME NameInv, [Next]_vars
  PROVE  Named'
<1> USE DEF NameInv
<1>1. CASE JobStep
  <2>1. /\ UNCHANGED replayVars /\ touched \subseteq touched'
        /\ Followed => \A c \in Company :
             (\A u \in touched' : Employer[u] # c) => ctype'[c] = ctype[c]
    BY <1>1, JobStepEffect
  <2>2. \A c : Staff(c)' = Staff(c)
    BY <2>1 DEF Staff, replayVars
  <2> QED
    BY <2>1, <2>2 DEF Named, Followed, replayVars
<1>2. CASE ReplayStep
  <2>1. ASSUME ~(phase' = "apply" \/ result' = "ok") PROVE Named'
    BY <2>1 DEF Named
  <2>2. ASSUME Proceed PROVE Named'
    <3>1. wrote' = {}
      BY <2>2 DEF Proceed, Ordered
    <3>2. \A c : Staff(c)' = {}
      BY <3>1 DEF Staff
    <3> QED
      BY <3>2 DEF Named
  <2>3. ASSUME phase = "apply", Stop("ok") PROVE Named'
    <3>1. UNCHANGED <<ctype, tool, asked, latest, wrote, touched>>
      BY <2>3, StopEffect
    <3> QED
      BY <2>3, <3>1 DEF Named, Staff
  <2>4. ASSUME ApplyBatch PROVE Named'
    <3> SUFFICES ASSUME tool = "reclassify", NEW c \in Company, Staff(c)' # {},
                        \A u \in touched : Employer[u] # c
                 PROVE  ctype'[c] = TypeOf(asked, latest[Max(Staff(c)')])
      BY <2>4 DEF Named, ApplyBatch
    <3>1. /\ phase = "apply" /\ wrote' = wrote \cup NextBatch
          /\ ctype' = [d \in Company |-> IF StaffOf(d) = {} THEN ctype[d]
                                         ELSE TypeOf(asked, latest[Max(StaffOf(d))])]
      BY <2>4 DEF ApplyBatch, ApplyClassifications
    <3>2. Staff(c)' = Staff(c) \cup StaffOf(c)
      BY <3>1 DEF Staff, StaffOf
    <3>3. CASE StaffOf(c) = {}
      BY <3>1, <3>2, <3>3 DEF Named
    <3>4. CASE StaffOf(c) # {}
      <4> DEFINE m == Max(StaffOf(c))
      <4>1. m \in StaffOf(c) /\ \A u \in StaffOf(c) : u <= m
        BY <3>4, StaffType
      <4>2. Staff(c)' \subseteq Nat /\ StaffOf(c) \subseteq todo /\ Staff(c) \subseteq wrote
        BY <3>2, BatchType, ReplayAssumption DEF Staff, StaffOf, TypeInv, TypeOK
      <4> HIDE DEF m
      <4>3. \A u \in Staff(c) : u <= m
        BY <3>1, <3>2, <4>1, <4>2 DEF Ordered
      <4>4. Max(Staff(c)') = m
        BY <3>2, <4>1, <4>2, <4>3, GreatestIs
      <4> QED
        BY <3>1, <3>4, <4>4 DEF m
    <3> QED
      BY <3>3, <3>4
  <2>5. ASSUME NEW x \in Tools, Begin(x) PROVE Named'
    BY <2>5, <2>1 DEF Begin
  <2>6. ASSUME NEW n \in 0..MaxRuns, Walk(n) PROVE Named'
    BY <2>6, <2>1 DEF Walk, Outcome
  <2>7. ASSUME NEW o, o # "ok", Stop(o) PROVE Named'
    BY <2>7, <2>1, StopEffect
  <2> QED
    BY <1>2, <2>2, <2>3, <2>4, <2>5, <2>6, <2>7, StepKinds
<1> QED
  BY <1>1, <1>2, TwoKindsOfSteps

\* At first no replay has run and nothing was written.
LEMMA NameInit == Init => NameInv
<1> SUFFICES ASSUME Init PROVE NameInv
  OBVIOUS
<1>1. TypeInv
  BY InitType
<1> QED
  BY <1>1 DEF Init, NameInv, Outcome, Ordered, Named

\* NameInv is inductive.
LEMMA NameStep == NameInv /\ ReachInv /\ [Next]_vars => NameInv'
<1> SUFFICES ASSUME NameInv, ReachInv, [Next]_vars PROVE NameInv'
  OBVIOUS
<1>1. TypeInv'
  BY TypeStep DEF NameInv
<1> QED
  BY <1>1, OutcomeStep, OrderedStep, NamedStep DEF NameInv

\* After a reclassify an employer has the type found in the last of its
\* postings that were written, across all batches, unless an ingest run stored
\* one of its postings meanwhile.
THEOREM LastPostingNames == Spec => []LastPostingNamesType
<1>1. NameInv => LastPostingNamesType
  BY DEF NameInv, Named, LastPostingNamesType, Staff
<1> QED
  BY <1>1, ReachInit, ReachStep, NameInit, NameStep, PTL DEF Spec
=============================================================================
