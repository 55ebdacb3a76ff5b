---------------------------- MODULE EnrichProofs ----------------------------
(***************************************************************************)
(* Proofs about enrichment, for any set of postings and descriptions, any  *)
(* number of workers and any faults.                                       *)
(*                                                                         *)
(* The inductive invariant follows a posting through a run: which batch it *)
(* is in, whether its loop has reached it (Phases), and what its worker    *)
(* has done so far and still has to do (Marks, Ledger).  Which texts stay  *)
(* together, most of them as long as every edit is archived (intact), is   *)
(* kept apart (Texts), and so is what the workers have in hand of answers  *)
(* that are not cached yet (Saving).                                       *)
(***************************************************************************)
EXTENDS Enrich, FiniteSetTheorems, TLAPS

\* A loop goes over its own batch, and a worker runs for a posting of the LLM
\* batch that its loop has passed.
Phases ==
  /\ pc = "rule" => todo \subseteq InBatch("rule")
  /\ pc = "llm" => todo \subseteq InBatch("llm")
  /\ \A u \in Uuid : at[u] # "none" => pc = "llm" /\ u \in InBatch("llm") \ todo
  /\ pc = "idle" => \A s \in Layers, u \in Uuid : batch[s][u] = None

\* Terms are counted after the done marker, by the one worker that set it.
Marks ==
  /\ \A u \in Uuid : counted[u] <= 1
  /\ \A u \in Uuid : tech["llm"][u] = None => counted[u] = 0
  /\ \A u \in Uuid : at[u] = "terms" => counted[u] = 0 /\ tech["llm"][u] # None
  /\ \A u \in InBatch("llm") : at[u] \in {"none", "lookup", "call", "put", "write"} =>
       tech["llm"][u] = None

\* Whatever a loop has passed is done, or counted as an error, or a hit.
Ledger ==
  /\ pc = "llm" \/ pc = "rule" =>
       \A u \in InBatch("rule") \ (IF pc = "rule" THEN todo ELSE {}) :
         tech["rule"][u] # None \/ failed
  /\ pc = "llm" =>
       \A u \in InBatch("llm") \ todo :
         /\ at[u] = "none" => failed
         /\ at[u] = "done" => failed \/ hit[u] \/ (tech["llm"][u] # None /\ counted[u] > 0)

IInv == TypeOK /\ BoundedConcurrency /\ Phases /\ Marks /\ Ledger

\* A row of the table or of a batch names a record of its own posting, and, as
\* long as edits are archived, its hash and its record are of one description;
\* the answer a worker has in hand is then about that description.
Texts ==
  /\ \A u \in Uuid : job[u] # None =>
       job[u].raw \in had[u] /\ (intact => job[u].hash = job[u].raw)
  /\ \A s \in Layers : \A u \in InBatch(s) :
       batch[s][u].raw \in had[u] /\ (intact => batch[s][u].hash = batch[s][u].raw)
  /\ intact => \A u \in Uuid : at[u] \in {"put", "write", "terms"} =>
       got[u] = batch["llm"][u].raw

-----------------------------------------------------------------------------
\* Steps of ingest and of the loop up to the first worker.
LEMMA QuietTypeOK ==
  ASSUME TypeOK,
         \/ \E u \in Uuid, t \in Text : Store(u, t) \/ Edit(u, t)
         \/ CloseArchive \/ Begin \/ BeginLLM \/ QueryFails \/ ReadDescriptions
         \/ EndRuleLayer \/ Finish \/ FinishFails \/ Crash
  PROVE  TypeOK'
<1>1. ASSUME NEW u \in Uuid, NEW t \in Text, Store(u, t) PROVE TypeOK'
  BY <1>1 DEF Store, TypeOK, Row, tableVars, runVars, workVars
<1>2. ASSUME NEW u \in Uuid, NEW t \in Text, Edit(u, t) PROVE TypeOK'
  <2>1. job[u] \in Row
    BY <1>2 DEF Edit, Stored, TypeOK
  <2>2. [job[u] EXCEPT !.hash = t] \in Row /\ [hash |-> t, raw |-> t] \in Row
    BY <2>1 DEF Row
  <2>3. \/ job' = [job EXCEPT ![u] = [hash |-> t, raw |-> t]]
        \/ job' = [job EXCEPT ![u] = [job[u] EXCEPT !.hash = t]]
    BY <1>2 DEF Edit
  <2>4. job' \in [Uuid -> Row \cup {None}]
    BY <2>2, <2>3 DEF TypeOK
  <2>5. intact' \in BOOLEAN /\ buffer' \subseteq Uuid \X Text
    <3>1. (buffer' = buffer \cup {<<u, t>>} /\ intact' = intact)
          \/ (buffer' = buffer /\ intact' = FALSE)
      BY <1>2 DEF Edit
    <3>2. buffer \cup {<<u, t>>} \subseteq Uuid \X Text /\ intact \in BOOLEAN
      BY DEF TypeOK
    <3>3. CASE buffer' = buffer \cup {<<u, t>>} /\ intact' = intact
      BY <3>2, <3>3, Zenon
    <3>4. CASE buffer' = buffer /\ intact' = FALSE
      BY <3>2, <3>4
    <3> QED
      BY <3>1, <3>3, <3>4
  <2>6. changes' \in Nat /\ had' \in [Uuid -> SUBSET Text]
    BY <1>2 DEF Edit, TypeOK
  <2> QED
    BY <1>2, <2>4, <2>5, <2>6 DEF Edit, TypeOK, tableVars, runVars, workVars
<1>3. CASE CloseArchive
  BY <1>3 DEF CloseArchive, TypeOK, Strikes, tableVars, runVars, workVars
<1>4. \A s \in Layers : Backlog(s) \in [Uuid -> Row \cup {None}]
  BY DEF Backlog, TypeOK
<1>5. CASE Begin \/ BeginLLM
  BY <1>4, <1>5 DEF Begin, BeginLLM, TypeOK, ingestVars, tableVars, runVars, workVars, Layers
<1>6. ASSUME Forget, UNCHANGED <<ingestVars, tableVars, inferred>>, faults' \in Nat,
             status' \in {"none", "running", "success", "partial"}
      PROVE  TypeOK'
  BY <1>6 DEF Forget, Nowhere, TypeOK, ingestVars, tableVars
<1>7. CASE QueryFails \/ Finish \/ FinishFails \/ Crash
  BY <1>6, <1>7 DEF QueryFails, Finish, FinishFails, Crash, Strikes, TypeOK
<1>8. CASE ReadDescriptions
  BY <1>8 DEF ReadDescriptions, TypeOK, Strikes, InBatch, ingestVars, tableVars, workVars
<1>9. CASE EndRuleLayer
  BY <1>9 DEF EndRuleLayer, TypeOK, InBatch, ingestVars, tableVars, workVars
<1> QED
  BY <1>1, <1>2, <1>3, <1>5, <1>7, <1>8, <1>9

\* Steps of the loops and of the workers.
LEMMA WorkTypeOK ==
  ASSUME TypeOK, Phases, NEW u \in Uuid,
         \/ WriteRuleTech(u) \/ SkipRule(u) \/ Start(u) \/ SkipLLM(u)
         \/ Lookup(u) \/ Answer(u) \/ Put(u) \/ Write(u) \/ CountTerms(u) \/ GiveUp(u)
  PROVE  TypeOK'
<1> USE DEF ingestVars, tableVars, runVars, workVars
<1>0. at[u] # "none" => batch["llm"][u] # None /\ u \notin todo
  BY DEF Phases, InBatch
<1>1. CASE WriteRuleTech(u)
  <2>1. batch["rule"][u].raw \in Text
    BY <1>1 DEF WriteRuleTech, Phases, InBatch, TypeOK, Row, Layers
  <2>2. tech' \in [Layers -> [Uuid -> Text \cup {None}]]
    BY <1>1, <2>1 DEF WriteRuleTech, TypeOK
  <2> QED
    BY <1>1, <2>2 DEF WriteRuleTech, TypeOK
<1>2. CASE SkipRule(u)
  BY <1>2 DEF SkipRule, TypeOK, Strikes
<1>3. CASE Start(u)
  BY <1>0, <1>3 DEF Start, TypeOK
<1>4. CASE SkipLLM(u)
  BY <1>4 DEF SkipLLM, TypeOK
<1>5. CASE Lookup(u)
  <2>1. KeyOf(u) \in Text
    BY <1>0, <1>5 DEF Lookup, KeyOf, TypeOK, Row, Layers
  <2>2. Known(KeyOf(u)) \in BOOLEAN
    BY DEF Known
  <2>3. CASE Known(KeyOf(u))
    <3>1. cache[KeyOf(u)] \in Text
      BY <2>1, <2>3 DEF Known, TypeOK
    <3>2. /\ at' = [at EXCEPT ![u] = "write"] /\ got' = [got EXCEPT ![u] = cache[KeyOf(u)]]
          /\ UNCHANGED <<ingestVars, faults, tableVars, status, runVars, failed, inferred>>
      BY <1>5, <2>3 DEF Lookup
    <3>3. hit' \in [Uuid -> BOOLEAN]
      BY <1>5, <2>2 DEF Lookup, TypeOK
    <3> QED
      BY <3>1, <3>2, <3>3, EnrichAssumption DEF TypeOK
  <2>4. CASE ~Known(KeyOf(u))
    <3>1. /\ at' = [at EXCEPT ![u] = "call"] /\ got' = [got EXCEPT ![u] = None]
          /\ UNCHANGED <<ingestVars, faults, tableVars, status, runVars, failed, inferred>>
      BY <1>5, <2>4 DEF Lookup
    <3>2. hit' \in [Uuid -> BOOLEAN]
      BY <1>5, <2>2 DEF Lookup, TypeOK
    <3> QED
      BY <3>1, <3>2 DEF TypeOK
  <2> QED
    BY <2>3, <2>4
<1>6. CASE Answer(u)
  <2>1. batch["llm"][u].raw \in Text /\ KeyOf(u) \in Text
    BY <1>0, <1>6 DEF Answer, KeyOf, TypeOK, Row, Layers
  <2> QED
    BY <1>6, <2>1, EnrichAssumption DEF Answer, TypeOK
<1>7. CASE Put(u)
  <2>1. KeyOf(u) \in Text
    BY <1>0, <1>7 DEF Put, KeyOf, TypeOK, Row, Layers
  <2>2. cache' \in [Text -> Text \cup {None}]
    BY <1>7, <2>1 DEF Put, CacheKept, TypeOK
  <2> QED
    BY <1>7, <2>2 DEF Put, TypeOK
<1>8. CASE Write(u)
  <2>1. tech' \in [Layers -> [Uuid -> Text \cup {None}]]
    BY <1>8 DEF Write, Marked, TypeOK
  <2> QED
    BY <1>8, <2>1 DEF Write, TypeOK
<1>9. CASE CountTerms(u)
  BY <1>9 DEF CountTerms, TypeOK
<1>10. CASE GiveUp(u)
  <2>1. failed' \in BOOLEAN
    BY <1>10 DEF GiveUp, CountsAsError, TypeOK
  <2>2. at' = [at EXCEPT ![u] = "done"] /\ got' = [got EXCEPT ![u] = None] /\ faults' \in Nat
    BY <1>10 DEF GiveUp, Strikes, TypeOK
  <2> QED
    BY <1>10, <2>1, <2>2 DEF GiveUp, TypeOK
<1> QED
  BY <1>1, <1>2, <1>3, <1>4, <1>5, <1>6, <1>7, <1>8, <1>9, <1>10

-----------------------------------------------------------------------------
\* The initial state satisfies the invariant.
LEMMA InitIInv == Init => IInv
<1> SUFFICES ASSUME Init PROVE IInv
  OBVIOUS
<1>1. TypeOK
  BY DEF Init, Nowhere, TypeOK
<1>2. Working = {}
  BY DEF Init, Working
<1>3. BoundedConcurrency
  BY <1>2, FS_EmptySet, EnrichAssumption DEF BoundedConcurrency
<1>4. InBatch("rule") = {} /\ InBatch("llm") = {}
  BY DEF Init, InBatch, Nowhere, Layers
<1>5. Phases /\ Ledger
  BY DEF Init, Phases, Ledger, Nowhere
<1>6. Marks
  BY <1>4 DEF Init, Marks, Nowhere, Layers
<1> QED
  BY <1>1, <1>3, <1>5, <1>6 DEF IInv

\* The semaphore: a worker starts when fewer than Concurrency work, and no
\* other step puts one to work.
LEMMA SlotsStep ==
  ASSUME TypeOK, Phases, BoundedConcurrency, [Next]_vars PROVE BoundedConcurrency'
<1>1. IsFiniteSet(Working) /\ Cardinality(Working) \in Nat
  BY EnrichAssumption, FS_Subset, FS_CardinalityType DEF Working
<1>2. ASSUME Working' \subseteq Working PROVE BoundedConcurrency'
  <2>1. Cardinality(Working') <= Cardinality(Working) /\ Cardinality(Working') \in Nat
    BY <1>1, <1>2, FS_Subset, FS_CardinalityType
  <2> QED
    BY <1>1, <2>1, EnrichAssumption DEF BoundedConcurrency
<1>3. ASSUME NEW u \in Uuid, Start(u) PROVE BoundedConcurrency'
  <2>1. Cardinality(Working) < Concurrency
    BY <1>3 DEF Start, FreeSlot
  <2>2. Working' = Working \cup {u} /\ u \notin Working
    BY <1>3 DEF Start, Working, TypeOK, Phases
  <2>3. Cardinality(Working \cup {u}) = Cardinality(Working) + 1
    BY <1>1, <2>2, FS_AddElement
  <2>4. Cardinality(Working') = Cardinality(Working) + 1
    BY <2>2, <2>3, Zenon
  <2> QED
    BY <1>1, <2>1, <2>4, EnrichAssumption DEF BoundedConcurrency
<1>4. ASSUME NEW u \in Uuid, Lookup(u) \/ Answer(u) \/ Put(u) \/ Write(u) \/ CountTerms(u) \/ GiveUp(u)
      PROVE  Working' \subseteq Working
  <2>1. at[u] \notin {"none", "done"} /\ \A v \in Uuid \ {u} : at'[v] = at[v]
    BY <1>4 DEF Lookup, Answer, Put, Write, CountTerms, GiveUp, TypeOK
  <2> QED
    BY <2>1 DEF Working
<1>5. CASE QueryFails \/ Finish \/ FinishFails \/ Crash
  BY <1>2, <1>5 DEF QueryFails, Finish, FinishFails, Crash, Forget, Working
<1>6. CASE UNCHANGED at
  BY <1>2, <1>6 DEF Working
<1> QED
  BY <1>2, <1>3, <1>4, <1>5, <1>6 DEF Next, vars, workVars, Store, Edit, CloseArchive,
     Begin, BeginLLM, ReadDescriptions, WriteRuleTech, SkipRule, EndRuleLayer, SkipLLM

\* Phases is kept by every step.
LEMMA PhasesStep ==
  ASSUME TypeOK, Phases, [Next]_vars PROVE Phases'
<1> USE DEF Phases, ingestVars, tableVars, runVars, workVars
<1>1. CASE \/ \E u \in Uuid, t \in Text : Store(u, t) \/ Edit(u, t)
           \/ CloseArchive \/ UNCHANGED vars
  BY <1>1 DEF Store, Edit, CloseArchive, vars, InBatch
<1>2. CASE Begin \/ BeginLLM
  BY <1>2 DEF Begin, BeginLLM
<1>3. CASE QueryFails \/ Finish \/ FinishFails \/ Crash
  BY <1>3 DEF QueryFails, Finish, FinishFails, Crash, Forget, Nowhere
<1>4. CASE ReadDescriptions \/ EndRuleLayer
  BY <1>4 DEF ReadDescriptions, EndRuleLayer, InBatch
<1>5. CASE \E u \in Uuid : WriteRuleTech(u) \/ SkipRule(u) \/ Start(u) \/ SkipLLM(u)
  BY <1>5 DEF WriteRuleTech, SkipRule, Start, SkipLLM, InBatch, TypeOK
<1>6. CASE \E u \in Uuid : Lookup(u) \/ Answer(u) \/ Put(u) \/ Write(u) \/ CountTerms(u) \/ GiveUp(u)
  BY <1>6 DEF Lookup, Answer, Put, Write, CountTerms, GiveUp, InBatch, TypeOK
<1> QED
  BY <1>1, <1>2, <1>3, <1>4, <1>5, <1>6 DEF Next

\* Marks is kept by every step.
LEMMA MarksStep ==
  ASSUME TypeOK, Phases, Marks, [Next]_vars PROVE Marks'
<1> USE DEF Marks, ingestVars, tableVars, runVars, workVars
<1>1. CASE \/ \E u \in Uuid, t \in Text : Store(u, t) \/ Edit(u, t)
           \/ CloseArchive \/ UNCHANGED vars \/ ReadDescriptions \/ EndRuleLayer
  BY <1>1 DEF Store, Edit, CloseArchive, vars, ReadDescriptions, EndRuleLayer, InBatch
<1>2. CASE Begin \/ BeginLLM
  BY <1>2 DEF Begin, BeginLLM, Backlog, Phases, InBatch, TypeOK, Layers
<1>3. CASE QueryFails \/ Finish \/ FinishFails \/ Crash
  BY <1>3 DEF QueryFails, Finish, FinishFails, Crash, Forget, Nowhere, InBatch, Layers
<1>4. CASE \E u \in Uuid : SkipRule(u) \/ Start(u) \/ SkipLLM(u)
  BY <1>4 DEF SkipRule, Start, SkipLLM, InBatch, TypeOK, Phases
<1>5. ASSUME NEW u \in Uuid, WriteRuleTech(u) PROVE Marks'
  <2>1. tech'["llm"] = tech["llm"]
    BY <1>5 DEF WriteRuleTech, TypeOK, Layers
  <2> QED
    BY <1>5, <2>1 DEF WriteRuleTech, InBatch
<1>6. ASSUME NEW u \in Uuid, Lookup(u) \/ Answer(u) \/ Put(u) \/ GiveUp(u) PROVE Marks'
  BY <1>6 DEF Lookup, Answer, Put, GiveUp, InBatch, TypeOK
<1>7. ASSUME NEW u \in Uuid, Write(u) PROVE Marks'
  <2>1. got[u] # None /\ at[u] = "write" /\ u \in InBatch("llm") /\ counted[u] = 0
    BY <1>7 DEF Write, TypeOK, Phases
  <2>2. /\ tech'["llm"][u] = got[u]
        /\ \A v \in Uuid \ {u} : tech'["llm"][v] = tech["llm"][v]
    BY <1>7 DEF Write, Marked, TypeOK, Layers
  <2>3. /\ at'[u] = "terms" /\ counted' = counted /\ batch' = batch
        /\ \A v \in Uuid \ {u} : at'[v] = at[v]
    BY <1>7 DEF Write, TypeOK
  <2> QED
    BY <2>1, <2>2, <2>3 DEF InBatch
<1>8. ASSUME NEW u \in Uuid, CountTerms(u) PROVE Marks'
  <2>1. counted[u] = 0 /\ tech["llm"][u] # None
    BY <1>8 DEF CountTerms
  <2>2. counted' = [counted EXCEPT ![u] = 1] /\ tech' = tech
    BY <1>8, <2>1 DEF CountTerms, TypeOK
  <2> QED
    BY <1>8, <2>1, <2>2 DEF CountTerms, TypeOK, InBatch
<1> QED
  BY <1>1, <1>2, <1>3, <1>4, <1>5, <1>6, <1>7, <1>8 DEF Next

\* Ledger is kept by every step.
LEMMA LedgerStep ==
  ASSUME TypeOK, Phases, Marks, Ledger, [Next]_vars PROVE Ledger'
<1> USE DEF Ledger, ingestVars, tableVars, runVars, workVars
<1>1. CASE \/ \E u \in Uuid, t \in Text : Store(u, t) \/ Edit(u, t)
           \/ CloseArchive \/ UNCHANGED vars
  BY <1>1 DEF Store, Edit, CloseArchive, vars, InBatch
<1>2. CASE \/ Begin \/ BeginLLM \/ QueryFails \/ ReadDescriptions
           \/ Finish \/ FinishFails \/ Crash
  BY <1>2 DEF Begin, BeginLLM, QueryFails, Finish, FinishFails, Crash, Forget,
     ReadDescriptions, InBatch
<1>3. ASSUME NEW u \in Uuid, WriteRuleTech(u) PROVE Ledger'
  <2>1. /\ batch["rule"][u].raw # None /\ pc = "rule" /\ pc' = "rule"
        /\ todo' = todo \ {u} /\ batch' = batch /\ failed' = failed
    BY <1>3, EnrichAssumption DEF WriteRuleTech, Phases, InBatch, TypeOK, Row, Layers
  <2>2. /\ tech'["rule"][u] = batch["rule"][u].raw
        /\ \A v \in Uuid \ {u} : tech'["rule"][v] = tech["rule"][v]
    BY <1>3 DEF WriteRuleTech, TypeOK, Layers
  <2> QED
    BY <2>1, <2>2 DEF InBatch
<1>4. CASE EndRuleLayer
  BY <1>4 DEF EndRuleLayer, InBatch
<1>5. CASE \E u \in Uuid : SkipRule(u) \/ Start(u) \/ SkipLLM(u)
  BY <1>5 DEF SkipRule, Start, SkipLLM, InBatch, TypeOK
<1>6. ASSUME NEW u \in Uuid, Lookup(u) \/ Answer(u) \/ Put(u) PROVE Ledger'
  BY <1>6 DEF Lookup, Answer, Put, InBatch, TypeOK
<1>7. ASSUME NEW u \in Uuid, Write(u) PROVE Ledger'
  <2>1. /\ tech'["rule"] = tech["rule"]
        /\ \A v \in Uuid \ {u} : tech'["llm"][v] = tech["llm"][v]
    BY <1>7 DEF Write, Marked, TypeOK, Layers
  <2> QED
    BY <1>7, <2>1 DEF Write, TypeOK, InBatch
<1>8. ASSUME NEW u \in Uuid, CountTerms(u) PROVE Ledger'
  <2>1. counted'[u] > 0 /\ tech["llm"][u] # None
    BY <1>8 DEF CountTerms, TypeOK, Marks
  <2>2. \A v \in Uuid \ {u} : counted'[v] = counted[v] /\ at'[v] = at[v]
    BY <1>8 DEF CountTerms, TypeOK
  <2> QED
    BY <1>8, <2>1, <2>2 DEF CountTerms, TypeOK, InBatch
<1>9. ASSUME NEW u \in Uuid, GiveUp(u) PROVE Ledger'
  <2>1. failed' \/ hit[u]
    BY <1>9 DEF GiveUp, CountsAsError
  <2>2. failed => failed'
    BY <1>9 DEF GiveUp
  <2>3. \A v \in Uuid \ {u} : at'[v] = at[v]
    BY <1>9 DEF GiveUp, TypeOK
  <2>4. at'[u] = "done" /\ UNCHANGED <<pc, batch, todo, tech, counted, hit>>
    BY <1>9 DEF GiveUp, TypeOK
  <2> QED
    BY <2>1, <2>2, <2>3, <2>4 DEF InBatch
<1> QED
  BY <1>1, <1>2, <1>3, <1>4, <1>5, <1>6, <1>7, <1>8, <1>9 DEF Next

\* The invariant holds in every reachable state.
THEOREM Invariance == Spec => []IInv
<1>1. IInv /\ [Next]_vars => IInv'
  <2> SUFFICES ASSUME IInv, [Next]_vars PROVE IInv'
    OBVIOUS
  <2>1. TypeOK'
    <3>1. CASE UNCHANGED vars
      BY <3>1 DEF IInv, TypeOK, vars, ingestVars, tableVars, runVars, workVars
    <3> QED
      BY <3>1, QuietTypeOK, WorkTypeOK DEF IInv, Next
  <2> QED
    BY <2>1, SlotsStep, PhasesStep, MarksStep, LedgerStep DEF IInv
<1> QED
  BY <1>1, InitIInv, PTL DEF Spec

\* Every variable keeps its type, and a worker has an answer in hand when it
\* writes one (TypeOK).
THEOREM TypeCorrect == Spec => []TypeOK
<1>1. IInv => TypeOK
  BY DEF IInv
<1> QED
  BY <1>1, Invariance, PTL

\* No more than Concurrency workers ever work (BoundedConcurrency).
THEOREM SemaphoreBounds == Spec => []BoundedConcurrency
<1>1. IInv => BoundedConcurrency
  BY DEF IInv
<1> QED
  BY <1>1, Invariance, PTL

\* Whatever fails and however often the run is repeated, no posting's unmapped
\* terms are counted twice (TermsOnce).
THEOREM CountedAtMostOnce == Spec => []TermsOnce
<1>1. IInv => TermsOnce
  BY DEF IInv, Marks, TermsOnce
<1> QED
  BY <1>1, Invariance, PTL

\* A success has done all the work that was not answered from the cache
\* (HonestWhenInferred).
THEOREM SuccessIsHonest == Spec => HonestWhenInferred
<1>1. ASSUME IInv, [Next]_vars, status = "running", status' = "success"
      PROVE  /\ \A u \in InBatch("rule") : tech["rule"][u] # None
             /\ \A u \in InBatch("llm") :
                  hit[u] \/ (tech["llm"][u] # None /\ counted[u] > 0)
  <2>1. Finish
    BY <1>1 DEF Next, vars, Store, Edit, CloseArchive, Begin, BeginLLM, QueryFails,
       ReadDescriptions, WriteRuleTech, SkipRule, EndRuleLayer, Start, SkipLLM, Lookup,
       Answer, Put, Write, CountTerms, GiveUp, FinishFails, Crash
  <2>2. pc = "llm" /\ todo = {} /\ ~failed /\ \A u \in Uuid : at[u] \in {"none", "done"}
    BY <1>1, <2>1 DEF Finish, Working, IInv, TypeOK
  <2> QED
    BY <1>1, <2>2 DEF IInv, Ledger, InBatch
<1>2. IInv /\ [Next]_vars =>
        [status = "running" /\ status' = "success" =>
           /\ \A u \in InBatch("rule") : tech["rule"][u] # None
           /\ \A u \in InBatch("llm") :
                hit[u] \/ (tech["llm"][u] # None /\ counted[u] > 0)]_vars
  BY <1>1
<1> QED
  BY <1>2, Invariance, PTL DEF Spec, HonestWhenInferred

\* Records stay with their posting through all steps, and, as long as every edit
\* is archived, so do hash, text and answer.
LEMMA TextsStep ==
  ASSUME IInv, Texts, CacheIsTrue, FoundInOwnText, [Next]_vars
  PROVE  Texts' /\ CacheIsTrue' /\ FoundInOwnText'
<1> USE DEF ingestVars, tableVars, runVars, workVars
<1>0. TypeOK /\ Phases
  BY DEF IInv
<1>1. ASSUME NEW u \in Uuid, NEW t \in Text, Store(u, t) \/ Edit(u, t)
      PROVE  Texts' /\ CacheIsTrue' /\ FoundInOwnText'
  <2>1. /\ had' = [had EXCEPT ![u] = @ \cup {t}]
        /\ UNCHANGED <<batch, at, got, cache, tech>>
    BY <1>1 DEF Store, Edit
  <2>2. \A v \in Uuid : had[v] \subseteq had'[v] /\ (v = u => t \in had'[v])
    BY <1>0, <2>1 DEF TypeOK
  <2>3. \/ job' = [job EXCEPT ![u] = [hash |-> t, raw |-> t]] /\ intact' = intact
        \/ job' = [job EXCEPT ![u].hash = t] /\ intact' = FALSE /\ job[u] # None
    BY <1>1 DEF Store, Edit, Stored
  <2>4. \A v \in Uuid : job'[v] # None =>
          job'[v].raw \in had'[v] /\ (intact' => job'[v].hash = job'[v].raw)
    <3>1. CASE job' = [job EXCEPT ![u] = [hash |-> t, raw |-> t]] /\ intact' = intact
      <4>1. \A v \in Uuid : job'[v] = IF v = u THEN [hash |-> t, raw |-> t] ELSE job[v]
        BY <1>0, <3>1 DEF TypeOK
      <4> QED
        BY <2>2, <3>1, <4>1 DEF Texts
    <3>2. CASE job' = [job EXCEPT ![u].hash = t] /\ intact' = FALSE /\ job[u] # None
      <4>1. job[u] \in Row
        BY <1>0, <3>2 DEF TypeOK
      <4>2. job'[u].raw = job[u].raw /\ \A v \in Uuid \ {u} : job'[v] = job[v]
        BY <1>0, <3>2, <4>1 DEF TypeOK, Row
      <4> QED
        BY <2>2, <3>2, <4>2 DEF Texts
    <3> QED
      BY <2>3, <3>1, <3>2
  <2>5. intact' => intact
    BY <2>3
  <2>6. Texts'
    BY <2>1, <2>2, <2>4, <2>5 DEF Texts, InBatch
  <2> QED
    BY <2>1, <2>2, <2>5, <2>6 DEF CacheIsTrue, FoundInOwnText
<1>2. CASE CloseArchive \/ UNCHANGED vars \/ ReadDescriptions \/ EndRuleLayer
  BY <1>2 DEF CloseArchive, vars, ReadDescriptions, EndRuleLayer, Texts, CacheIsTrue,
     FoundInOwnText, InBatch
<1>3. CASE Begin \/ BeginLLM
  <2>1. PICK s \in Layers : batch' = [batch EXCEPT ![s] = Backlog(s)]
    BY <1>3 DEF Begin, BeginLLM, Layers
  <2>2. UNCHANGED <<job, had, intact, at, got, cache, tech>>
    BY <1>3 DEF Begin, BeginLLM
  <2>3. \A u \in Uuid : at[u] = "none"
    BY <1>0, <1>3 DEF Begin, BeginLLM, Phases
  <2>4. \A l \in Layers : \A u \in InBatch(l)' :
          batch'[l][u].raw \in had[u] /\ (intact => batch'[l][u].hash = batch'[l][u].raw)
    <3> SUFFICES ASSUME NEW l \in Layers, NEW u \in InBatch(l)'
                 PROVE  /\ batch'[l][u].raw \in had[u]
                        /\ intact => batch'[l][u].hash = batch'[l][u].raw
      OBVIOUS
    <3>1. CASE l = s
      <4>1. batch'[l] = Backlog(s)
        BY <1>0, <2>1, <3>1 DEF TypeOK
      <4>2. u \in Uuid /\ batch'[l][u] # None
        BY DEF InBatch
      <4>3. batch'[l][u] = job[u]
        BY <4>1, <4>2 DEF Backlog
      <4> QED
        BY <4>2, <4>3 DEF Texts
    <3>2. CASE l # s
      BY <1>0, <2>1, <3>2 DEF TypeOK, InBatch, Texts
    <3> QED
      BY <3>1, <3>2
  <2>5. Texts'
    BY <2>2, <2>3, <2>4 DEF Texts
  <2> QED
    BY <2>2, <2>5 DEF CacheIsTrue, FoundInOwnText
<1>4. CASE QueryFails \/ Finish \/ FinishFails \/ Crash
  <2>1. /\ Forget
        /\ UNCHANGED <<job, had, intact, tech, cache>>
    BY <1>4 DEF QueryFails, Finish, FinishFails, Crash
  <2>2. Texts'
    BY <2>1 DEF Texts, Forget, Nowhere, InBatch
  <2> QED
    BY <2>1, <2>2 DEF CacheIsTrue, FoundInOwnText
<1>5. ASSUME NEW u \in Uuid, WriteRuleTech(u)
      PROVE  Texts' /\ CacheIsTrue' /\ FoundInOwnText'
  <2>1. u \in InBatch("rule") /\ batch["rule"][u].raw \in had[u]
    BY <1>0, <1>5 DEF WriteRuleTech, Phases, Texts, Layers
  <2>2. \A s \in Layers, v \in Uuid :
          tech'[s][v] = IF s = "rule" /\ v = u THEN batch["rule"][u].raw ELSE tech[s][v]
    BY <1>0, <1>5 DEF WriteRuleTech, TypeOK, Layers
  <2>3. FoundInOwnText'
    BY <1>5, <2>1, <2>2 DEF WriteRuleTech, FoundInOwnText
  <2> QED
    BY <1>5, <2>3 DEF WriteRuleTech, Texts, CacheIsTrue, InBatch
<1>6. ASSUME NEW u \in Uuid, SkipRule(u) \/ Start(u) \/ SkipLLM(u) \/ CountTerms(u) \/ GiveUp(u)
      PROVE  Texts' /\ CacheIsTrue' /\ FoundInOwnText'
  <2>1. UNCHANGED <<job, had, intact, tech, cache, batch>>
    BY <1>6 DEF SkipRule, Start, SkipLLM, CountTerms, GiveUp
  <2>2. \A v \in Uuid : at'[v] \in {"put", "write", "terms"} => at'[v] = at[v] /\ got'[v] = got[v]
    BY <1>0, <1>6 DEF SkipRule, Start, SkipLLM, CountTerms, GiveUp, TypeOK
  <2> QED
    BY <2>1, <2>2 DEF Texts, CacheIsTrue, FoundInOwnText, InBatch
<1>7. ASSUME NEW u \in Uuid, at[u] # "none"
      PROVE  /\ u \in InBatch("llm") /\ KeyOf(u) \in Text
             /\ intact => KeyOf(u) = batch["llm"][u].raw /\ KeyOf(u) \in had[u]
  BY <1>0, <1>7 DEF Phases, Texts, KeyOf, Layers, InBatch, TypeOK, Row
<1>8. ASSUME NEW u \in Uuid, Lookup(u) \/ Answer(u)
      PROVE  Texts' /\ CacheIsTrue' /\ FoundInOwnText'
  <2>1. UNCHANGED <<job, had, intact, tech, cache, batch>>
    BY <1>8 DEF Lookup, Answer
  <2>2. intact /\ at'[u] \in {"put", "write", "terms"} => got'[u] = batch["llm"][u].raw
    BY <1>0, <1>7, <1>8 DEF Lookup, Answer, Known, CacheIsTrue, TypeOK
  <2>3. \A v \in Uuid \ {u} : at'[v] = at[v] /\ got'[v] = got[v]
    BY <1>0, <1>8 DEF Lookup, Answer, TypeOK
  <2> QED
    BY <2>1, <2>2, <2>3 DEF Texts, CacheIsTrue, FoundInOwnText, InBatch
<1>9. ASSUME NEW u \in Uuid, Put(u) PROVE Texts' /\ CacheIsTrue' /\ FoundInOwnText'
  <2>1. intact => got[u] = KeyOf(u)
    BY <1>7, <1>9 DEF Put, Texts
  <2>2. CacheIsTrue'
    BY <1>0, <1>9, <2>1 DEF Put, CacheKept, CacheIsTrue, TypeOK
  <2>3. \A v \in Uuid : at'[v] \in {"put", "write", "terms"} => at[v] \in {"put", "write", "terms"}
    BY <1>0, <1>9 DEF Put, TypeOK
  <2> QED
    BY <1>9, <2>2, <2>3 DEF Put, Texts, FoundInOwnText, InBatch
<1>10. ASSUME NEW u \in Uuid, Write(u) PROVE Texts' /\ CacheIsTrue' /\ FoundInOwnText'
  <2>1. intact => got[u] \in had[u]
    BY <1>7, <1>10 DEF Write, Texts
  <2>2. \A s \in Layers, v \in Uuid :
          tech'[s][v] = IF s = "llm" /\ v = u THEN got[u] ELSE tech[s][v]
    BY <1>0, <1>10 DEF Write, Marked, TypeOK, Layers
  <2>3. FoundInOwnText'
    <3>1. had' = had /\ intact' = intact
      BY <1>10 DEF Write
    <3>2. \A v \in Uuid : /\ tech'["rule"][v] = tech["rule"][v]
                          /\ tech'["llm"][v] = IF v = u THEN got[u] ELSE tech["llm"][v]
      BY <2>2 DEF Layers
    <3> QED
      BY <2>1, <3>1, <3>2 DEF FoundInOwnText
  <2>4. \A v \in Uuid : at'[v] \in {"put", "write", "terms"} => at[v] \in {"put", "write", "terms"}
    BY <1>0, <1>10 DEF Write, TypeOK
  <2> QED
    BY <1>10, <2>3, <2>4 DEF Write, Texts, CacheIsTrue, InBatch
<1> QED
  BY <1>1, <1>2, <1>3, <1>4, <1>5, <1>6, <1>8, <1>9, <1>10 DEF Next

\* As long as no edit skips the archive the cache is true and no posting gets
\* the technologies of another's description; the rule layer's are its own in
\* any case (CacheIsTrue, FoundInOwnText).
THEOREM AnswersFit == Spec => [](CacheIsTrue /\ FoundInOwnText)
<1> DEFINE Fit == Texts /\ CacheIsTrue /\ FoundInOwnText
<1>1. Init => Fit
  BY DEF Init, Nowhere, InBatch, Layers, Texts, CacheIsTrue, FoundInOwnText
<1>2. IInv /\ Fit /\ [Next]_vars => Fit'
  BY TextsStep
<1>3. Fit => CacheIsTrue /\ FoundInOwnText
  OBVIOUS
<1> HIDE DEF Fit
<1> QED
  BY <1>1, <1>2, <1>3, Invariance, PTL DEF Spec
-----------------------------------------------------------------------------
(* What the cache saves                                                    *)

Calling(t) == {u \in Uuid : at[u] = "call" /\ KeyOf(u) = t}

Putting(t) == {u \in Uuid : at[u] = "put" /\ KeyOf(u) = t}

\* Answers that are not cached yet are in the hands of workers, and with those
\* still to come they are at most one per worker.
Saving ==
  faults = 0 =>
    \A t \in Text :
      /\ cache[t] = None => inferred[t] <= Cardinality(Putting(t))
      /\ inferred[t] + Cardinality(Calling(t)) <= Concurrency

\* Workers can be counted.
LEMMA WorkersCount ==
  /\ IsFiniteSet(Working) /\ Cardinality(Working) \in Nat
  /\ \A t : /\ IsFiniteSet(Calling(t)) /\ Cardinality(Calling(t)) \in Nat
            /\ IsFiniteSet(Putting(t)) /\ Cardinality(Putting(t)) \in Nat
  BY EnrichAssumption, FS_Subset, FS_CardinalityType DEF Working, Calling, Putting

\* A step that starts no call and ends none keeps it.
LEMMA SavingKept ==
  ASSUME Saving, faults' = faults, cache' = cache, inferred' = inferred,
         \A t \in Text : Calling(t)' = Calling(t) /\ Putting(t)' = Putting(t)
  PROVE  Saving'
  BY DEF Saving

\* Every action of a worker, and every other, keeps it.
LEMMA SavingStep ==
  ASSUME IInv, Saving, [Next]_vars PROVE Saving'
<1> USE DEF IInv, ingestVars, tableVars, runVars, workVars
<1>0. faults \in Nat /\ \A f \in FaultNames : Strikes(f) => faults' # 0
  BY DEF TypeOK, Strikes
<1>1. ASSUME faults' # 0 PROVE Saving'
  BY <1>1 DEF Saving
<1>2. ASSUME UNCHANGED <<faults, cache, inferred, at>>, batch'["llm"] = batch["llm"] PROVE Saving'
  BY <1>2, SavingKept DEF Calling, Putting, KeyOf
<1>3. ASSUME UNCHANGED <<faults, cache, inferred>>,
             \A u \in Uuid : at[u] \notin {"call", "put"} /\ at'[u] \notin {"call", "put"}
      PROVE  Saving'
  <2>1. \A t : Calling(t) = {} /\ Calling(t)' = {} /\ Putting(t) = {} /\ Putting(t)' = {}
    BY <1>3 DEF Calling, Putting
  <2> QED
    BY <1>3, <2>1, SavingKept
<1>4. ASSUME NEW u \in Uuid, UNCHANGED <<faults, cache, inferred, batch>>,
             NEW w \in {"none", "lookup", "write", "terms", "done"},
             at' = [at EXCEPT ![u] = w], at[u] \notin {"call", "put"}
      PROVE  Saving'
  <2>1. \A v \in Uuid : /\ at'[v] = "call" <=> at[v] = "call"
                        /\ at'[v] = "put" <=> at[v] = "put"
    BY <1>4 DEF TypeOK
  <2>2. ASSUME NEW t PROVE Calling(t)' = Calling(t) /\ Putting(t)' = Putting(t)
    BY <1>4, <2>1 DEF Calling, Putting, KeyOf
  <2> QED
    BY <1>4, <2>2, SavingKept
<1>5. ASSUME NEW u \in Uuid, Lookup(u), faults' = 0 PROVE Saving'
  <2> DEFINE k == KeyOf(u)
  <2>1. CASE Known(k)
    BY <1>4, <1>5, <2>1 DEF Lookup
  <2>2. CASE ~Known(k)
    <3>1. /\ at[u] = "lookup" /\ at' = [at EXCEPT ![u] = "call"] /\ cache[k] = None
          /\ UNCHANGED <<faults, cache, inferred, batch>>
      BY <1>5, <2>2 DEF Lookup, Known
    <3> SUFFICES ASSUME NEW t \in Text
                 PROVE  /\ cache[t] = None => inferred[t] <= Cardinality(Putting(t)')
                        /\ inferred[t] + Cardinality(Calling(t)') <= Concurrency
      BY <3>1 DEF Saving
    <3>2. faults = 0 /\ Putting(t)' = Putting(t)
      BY <1>5, <3>1 DEF Putting, KeyOf, TypeOK
    <3>3. CASE t # k
      <4>1. Calling(t)' = Calling(t)
        BY <3>1, <3>3 DEF Calling, KeyOf, TypeOK
      <4> QED
        BY <3>2, <4>1 DEF Saving
    <3>4. CASE t = k
      <4>1. /\ Putting(t) \cap Calling(t)' = {}
            /\ Putting(t) \cup Calling(t)' \subseteq Working
        BY <3>1, <3>4 DEF Putting, Calling, Working, KeyOf, TypeOK
      <4>2. /\ IsFiniteSet(Calling(t)') /\ Cardinality(Calling(t)') \in Nat
            /\ IsFiniteSet(Putting(t)) /\ Cardinality(Putting(t)) \in Nat
        BY WorkersCount, EnrichAssumption, FS_Subset, FS_CardinalityType DEF Calling
      <4>3. Cardinality(Putting(t) \cap Calling(t)') = 0
        BY <4>1, FS_EmptySet
      <4>4. Cardinality(Putting(t) \cup Calling(t)')
              = Cardinality(Putting(t)) + Cardinality(Calling(t)') - Cardinality(Putting(t) \cap Calling(t)')
        BY <4>2, FS_Union
      <4>5. Cardinality(Putting(t) \cup Calling(t)') <= Cardinality(Working)
        BY <4>1, WorkersCount, FS_Subset
      <4>6. inferred[t] <= Cardinality(Putting(t)) /\ inferred[t] \in Nat
        BY <3>1, <3>2, <3>4 DEF Saving, TypeOK
      <4> QED
        BY <3>2, <4>2, <4>3, <4>4, <4>5, <4>6, WorkersCount, EnrichAssumption DEF BoundedConcurrency
    <3> QED
      BY <3>3, <3>4
  <2> QED
    BY <2>1, <2>2
<1>6. ASSUME NEW u \in Uuid, Answer(u) PROVE Saving'
  <2> DEFINE k == KeyOf(u)
  <2>1. /\ at[u] = "call" /\ at' = [at EXCEPT ![u] = "put"]
        /\ inferred' = [inferred EXCEPT ![k] = @ + 1]
        /\ UNCHANGED <<faults, cache, batch>>
    BY <1>6 DEF Answer
  <2> SUFFICES ASSUME faults = 0, NEW t \in Text
               PROVE  /\ cache[t] = None => inferred'[t] <= Cardinality(Putting(t)')
                      /\ inferred'[t] + Cardinality(Calling(t)') <= Concurrency
    BY <2>1 DEF Saving
  <2>2. /\ cache[t] = None => inferred[t] <= Cardinality(Putting(t))
        /\ inferred[t] + Cardinality(Calling(t)) <= Concurrency /\ inferred[t] \in Nat
    BY DEF Saving, TypeOK
  <2>3. inferred'[t] = IF t = k THEN inferred[t] + 1 ELSE inferred[t]
    BY <2>1 DEF TypeOK
  <2>4. CASE t # k
    <3>1. Calling(t)' = Calling(t) /\ Putting(t)' = Putting(t)
      BY <2>1, <2>4 DEF Calling, Putting, KeyOf, TypeOK
    <3> QED
      BY <2>2, <2>3, <2>4, <3>1
  <2>5. CASE t = k
    <3>1. /\ Calling(t)' = Calling(t) \ {u} /\ u \in Calling(t)
          /\ Putting(t)' = Putting(t) \cup {u} /\ u \notin Putting(t)
      BY <2>1, <2>5 DEF Calling, Putting, KeyOf, TypeOK
    <3>2. Cardinality(Calling(t) \ {u}) = Cardinality(Calling(t)) - 1
      BY <3>1, WorkersCount, FS_RemoveElement
    <3>3. Cardinality(Putting(t) \cup {u}) = Cardinality(Putting(t)) + 1
      BY <3>1, WorkersCount, FS_AddElement
    <3>4. /\ Cardinality(Calling(t)') = Cardinality(Calling(t)) - 1
          /\ Cardinality(Putting(t)') = Cardinality(Putting(t)) + 1
      BY <3>1, <3>2, <3>3, Zenon
    <3>5. Cardinality(Calling(t)) \in Nat /\ Cardinality(Putting(t)) \in Nat
      BY WorkersCount
    <3> QED
      BY <2>2, <2>3, <2>5, <3>4, <3>5, EnrichAssumption
  <2> QED
    BY <2>4, <2>5
<1>7. ASSUME NEW u \in Uuid, Put(u) PROVE Saving'
  <2> DEFINE k == KeyOf(u)
  <2>1. /\ at[u] = "put" /\ at' = [at EXCEPT ![u] = "write"]
        /\ cache' = [cache EXCEPT ![k] = got[u]] /\ got[u] # None
        /\ UNCHANGED <<faults, inferred, batch>>
    BY <1>7 DEF Put, CacheKept, TypeOK
  <2>2. ASSUME NEW t \in Text PROVE Calling(t)' = Calling(t) /\ (t # k => Putting(t)' = Putting(t))
    BY <2>1 DEF Calling, Putting, KeyOf, TypeOK
  <2>3. \A t \in Text : cache'[t] = IF t = k THEN got[u] ELSE cache[t]
    BY <2>1 DEF TypeOK
  <2> HIDE DEF k
  <2> QED
    BY <2>1, <2>2, <2>3 DEF Saving
<1>8. ASSUME NEW u \in Uuid, GiveUp(u), faults' = 0 PROVE Saving'
  <2> DEFINE k == KeyOf(u)
  <2>1. /\ at[u] = "call" /\ at' = [at EXCEPT ![u] = "done"]
        /\ UNCHANGED <<faults, cache, inferred, batch>>
    BY <1>0, <1>8 DEF GiveUp, FaultNames
  <2>2. ASSUME NEW t PROVE Calling(t)' \subseteq Calling(t) /\ Putting(t)' = Putting(t)
    BY <2>1 DEF Calling, Putting, KeyOf, TypeOK
  <2>3. ASSUME NEW t \in Text
        PROVE  Cardinality(Calling(t)') <= Cardinality(Calling(t)) /\ Cardinality(Calling(t)') \in Nat
    BY <2>2, WorkersCount, FS_Subset, FS_CardinalityType
  <2> QED
    BY <2>1, <2>2, <2>3, WorkersCount, EnrichAssumption DEF Saving, TypeOK
<1>9. CASE Finish
  <2>1. \A u \in Uuid : at[u] \notin {"call", "put"} /\ at'[u] \notin {"call", "put"}
    BY <1>9 DEF Finish, Forget, Working
  <2> QED
    BY <1>3, <1>9, <2>1 DEF Finish
<1>10. CASE QueryFails \/ FinishFails \/ Crash
  BY <1>0, <1>1, <1>10 DEF QueryFails, FinishFails, Crash, FaultNames
<1>11. CASE CloseArchive \/ ReadDescriptions
  <2>1. UNCHANGED <<cache, inferred, at, batch>> /\ (faults' = faults \/ faults' # 0)
    BY <1>0, <1>11 DEF CloseArchive, ReadDescriptions, FaultNames
  <2> QED
    BY <1>1, <1>2, <2>1
<1>12. CASE BeginLLM
  <2>1. \A u \in Uuid : at[u] \notin {"call", "put"} /\ at'[u] \notin {"call", "put"}
    BY <1>12 DEF BeginLLM, Phases
  <2> QED
    BY <1>3, <1>12, <2>1 DEF BeginLLM
<1>13. CASE Begin
  BY <1>2, <1>13 DEF Begin, TypeOK, Layers
<1>14. ASSUME NEW u \in Uuid, WriteRuleTech(u) \/ SkipRule(u) \/ SkipLLM(u) PROVE Saving'
  <2>1. UNCHANGED <<cache, inferred, at, batch>> /\ (faults' = faults \/ faults' # 0)
    BY <1>0, <1>14 DEF WriteRuleTech, SkipRule, SkipLLM, FaultNames
  <2> QED
    BY <1>1, <1>2, <2>1
<1>15. ASSUME NEW u \in Uuid, Start(u) \/ Write(u) \/ CountTerms(u) PROVE Saving'
  BY <1>4, <1>15 DEF Start, Write, CountTerms, Phases, TypeOK
<1>16. CASE (\E u \in Uuid, t \in Text : Store(u, t) \/ Edit(u, t)) \/ EndRuleLayer \/ UNCHANGED vars
  BY <1>2, <1>16 DEF Store, Edit, EndRuleLayer, vars
<1> QED
  BY <1>1, <1>5, <1>6, <1>7, <1>8, <1>9, <1>10, <1>11, <1>12, <1>13, <1>14, <1>15, <1>16 DEF Next

\* As long as no fault loses an answer, a description is inferred at most once
\* per worker, however many postings, edits and nights share it (OncePerWorker).
THEOREM InferredOncePerWorker == Spec => []OncePerWorker
<1>1. Init => Saving
  <2> SUFFICES ASSUME Init PROVE Saving
    OBVIOUS
  <2>1. \A t : Calling(t) = {} /\ Putting(t) = {}
    BY DEF Init, Calling, Putting
  <2> QED
    BY <2>1, FS_EmptySet, EnrichAssumption DEF Init, Saving
<1>2. IInv /\ Saving /\ [Next]_vars => Saving'
  BY SavingStep
<1>3. IInv /\ Saving => OncePerWorker
  BY WorkersCount, EnrichAssumption DEF IInv, TypeOK, Saving, OncePerWorker
<1> QED
  BY <1>1, <1>2, <1>3, Invariance, PTL DEF Spec
=============================================================================
