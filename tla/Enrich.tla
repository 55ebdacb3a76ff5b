------------------------------- MODULE Enrich -------------------------------
(***************************************************************************)
(* The nightly enrichment: a rule layer, then an LLM layer with a bounded  *)
(* pool of workers and a cache of answers, over the postings the layer has *)
(* not processed yet (internal/llm/enrich.go, internal/store/enrich.go).   *)
(*                                                                         *)
(* The environment is the ingest job, which stores and edits postings and  *)
(* hands their records to the archive, at any time; the LLM, which answers *)
(* or fails; and the faults in Faults, of which MaxFaults strike.          *)
(*                                                                         *)
(* Descriptions stand for their hashes and for what is extracted from      *)
(* them: technologies and an answer of the LLM are known by the            *)
(* description they were found in.                                         *)
(*                                                                         *)
(* A definition named for what it gets wrong (BacklogOfBoth, FreeSlotLate, *)
(* KeyNow, KnownAnyway, CacheForgotten, Unmarked, NoError) stands before   *)
(* the one it misses by a single mistake and is used by nothing.           *)
(***************************************************************************)
EXTENDS Integers, FiniteSets

CONSTANTS
  Uuid,        \* candidate postings
  Text,        \* descriptions
  Concurrency, \* LLM workers at a time
  Faults,      \* the faults that may strike
  MaxChanges,  \* bound: edits
  MaxFaults,   \* bound: faults that strike
  None         \* no row, no answer

Row == [hash : Text, raw : Text]

Layers == {"rule", "llm"}

FaultNames == {"lose", "query", "read", "write", "llm", "cache", "finish", "crash"}

ASSUME EnrichAssumption ==
  /\ IsFiniteSet(Uuid)
  /\ Concurrency \in Nat \ {0}
  /\ Faults \subseteq FaultNames
  /\ MaxChanges \in Nat /\ MaxFaults \in Nat
  /\ None \notin Row /\ None \notin Text

VARIABLES
  changes,   \* edits so far
  faults,    \* faults so far
  \* what persists
  job,       \* job[u]: description_sha256 and raw_path of a stored posting
  archive,   \* records <<u, t>> readable in the archive
  buffer,    \* records of the ingest job that are not yet
  tech,      \* tech[s][u]: where layer s found u's technologies, once done
  cache,     \* enrich_cache[t]: the answer kept for description t
  counted,   \* counted[u]: times u's unmapped terms went into unmapped_tech
  status,    \* of the last row of the run table
  \* one run
  pc,        \* where the run stands
  batch,     \* batch[s][u]: the row of u in layer s's backlog, or None
  descs,     \* records the archive pass has read
  todo,      \* postings the current layer still has to look at
  at,        \* where the worker of a posting stands
  got,       \* the answer it has in hand
  hit,       \* was that answer cached?
  failed,    \* res.Errors > 0
  \* history, read by properties only
  had,       \* had[u]: descriptions u has been stored with
  intact,    \* has every edit been handed to the archive?
  inferred   \* inferred[t]: answers the LLM gave to be cached under t

ingestVars == <<changes, job, archive, buffer, had, intact>>
tableVars  == <<tech, cache, counted>>
runVars    == <<pc, batch, descs, todo>>
workVars   == <<at, got, hit>>

vars == <<ingestVars, faults, tableVars, status, runVars, workVars, failed, inferred>>

-----------------------------------------------------------------------------
Strikes(f) ==
  /\ f \in Faults
  /\ faults < MaxFaults
  /\ faults' = faults + 1

Stored == {u \in Uuid : job[u] # None}

\* enrichBacklog: the postings layer s has not marked done, with or without
\* technologies.
BacklogOfBoth(s) ==
  [u \in Uuid |-> IF u \in Stored /\ \A l \in Layers : tech[l][u] = None THEN job[u] ELSE None]

Backlog(s) == [u \in Uuid |-> IF u \in Stored /\ tech[s][u] = None THEN job[u] ELSE None]

InBatch(s) == {u \in Uuid : batch[s][u] # None}

\* What the archive pass looks for, and whether it found it.
RecordOf(s, u) == <<u, batch[s][u].raw>>

Wanted == UNION {{RecordOf(s, u) : u \in InBatch(s)} : s \in Layers}

Readable(s, u) == RecordOf(s, u) \in descs

\* Workers that hold a slot of the semaphore.
Working == {u \in Uuid : at[u] \notin {"none", "done"}}

Nowhere == [u \in Uuid |-> None]

Forget ==
  /\ pc' = "idle"
  /\ batch' = [s \in Layers |-> Nowhere]
  /\ descs' = {} /\ todo' = {}
  /\ at' = [u \in Uuid |-> "none"]
  /\ got' = Nowhere
  /\ hit' = [u \in Uuid |-> FALSE]
  /\ failed' = FALSE

Init ==
  /\ changes = 0 /\ faults = 0
  /\ job = Nowhere
  /\ archive = {} /\ buffer = {}
  /\ tech = [s \in Layers |-> Nowhere]
  /\ cache = [t \in Text |-> None]
  /\ counted = [u \in Uuid |-> 0]
  /\ status = "none"
  /\ pc = "idle"
  /\ batch = [s \in Layers |-> Nowhere]
  /\ descs = {} /\ todo = {}
  /\ at = [u \in Uuid |-> "none"]
  /\ got = Nowhere
  /\ hit = [u \in Uuid |-> FALSE]
  /\ failed = FALSE
  /\ had = [u \in Uuid |-> {}]
  /\ intact = TRUE
  /\ inferred = [t \in Text |-> 0]
-----------------------------------------------------------------------------
(* The ingest job, as enrichment sees it (module Ingest).                  *)

\* It commits a posting whose record is still in its buffer, or updates one:
\* an incremental scan archives the edited posting, a reconcile does not.
Store(u, t) ==
  /\ job[u] = None
  /\ job' = [job EXCEPT ![u] = [hash |-> t, raw |-> t]]
  /\ buffer' = buffer \cup {<<u, t>>}
  /\ had' = [had EXCEPT ![u] = @ \cup {t}]
  /\ UNCHANGED <<changes, archive, intact, faults, tableVars, status, runVars, workVars,
                 failed, inferred>>

Edit(u, t) ==
  /\ u \in Stored /\ t # job[u].hash
  /\ changes < MaxChanges
  /\ changes' = changes + 1
  /\ had' = [had EXCEPT ![u] = @ \cup {t}]
  /\ \/ /\ job' = [job EXCEPT ![u] = [hash |-> t, raw |-> t]]
        /\ buffer' = buffer \cup {<<u, t>>}
        /\ UNCHANGED intact
     \/ /\ job' = [job EXCEPT ![u].hash = t]
        /\ intact' = FALSE
        /\ UNCHANGED buffer
  /\ UNCHANGED <<archive, faults, tableVars, status, runVars, workVars, failed,
                 inferred>>

\* Its archive file is closed, or lost with the process.
CloseArchive ==
  /\ buffer # {}
  /\ \/ archive' = archive \cup buffer /\ UNCHANGED faults
     \/ Strikes("lose") /\ UNCHANGED archive
  /\ buffer' = {}
  /\ UNCHANGED <<changes, job, had, intact, tableVars, status, runVars, workVars, failed,
                 inferred>>
-----------------------------------------------------------------------------
(* A run up to its LLM layer                                               *)

\* StartRun and RuleBacklog ...
Begin ==
  /\ pc = "idle"
  /\ status' = "running"
  /\ batch' = [batch EXCEPT !["rule"] = Backlog("rule")]
  /\ pc' = "backlog"
  /\ UNCHANGED <<ingestVars, faults, tableVars, descs, todo, workVars, failed, inferred>>

\* ... then LLMBacklog ...
BeginLLM ==
  /\ pc = "backlog"
  /\ batch' = [batch EXCEPT !["llm"] = Backlog("llm")]
  /\ pc' = "read"
  /\ UNCHANGED <<ingestVars, faults, tableVars, status, descs, todo, workVars, failed,
                 inferred>>

\* ... either of which may fail: the job exits 1 and its row stays "running".
QueryFails ==
  /\ pc \in {"idle", "backlog"}
  /\ Strikes("query")
  /\ status' = "running"
  /\ Forget
  /\ UNCHANGED <<ingestVars, tableVars, inferred>>

\* One pass over the archive reads the descriptions of both batches and leaves
\* out what it cannot find, or all that comes after an error.
ReadDescriptions ==
  /\ pc = "read"
  /\ \/ descs' = Wanted \cap archive /\ UNCHANGED faults
     \/ Strikes("read") /\ \E found \in SUBSET (Wanted \cap archive) : descs' = found
  /\ todo' = InBatch("rule")
  /\ pc' = "rule"
  /\ UNCHANGED <<ingestVars, tableVars, status, batch, workVars, failed, inferred>>

\* The rule layer extracts from the description and marks the posting done in
\* one transaction, technologies or none.
WriteRuleTech(u) ==
  /\ pc = "rule" /\ u \in todo
  /\ Readable("rule", u)
  /\ tech' = [tech EXCEPT !["rule"][u] = batch["rule"][u].raw]
  /\ todo' = todo \ {u}
  /\ UNCHANGED <<ingestVars, faults, cache, counted, status, pc, batch, descs, workVars,
                 failed, inferred>>

\* A posting without description, or whose transaction fails, is left for the
\* next run.
SkipRule(u) ==
  /\ pc = "rule" /\ u \in todo
  /\ \/ ~Readable("rule", u) /\ UNCHANGED faults
     \/ Readable("rule", u) /\ Strikes("write")
  /\ todo' = todo \ {u}
  /\ failed' = TRUE
  /\ UNCHANGED <<ingestVars, tableVars, status, pc, batch, descs, workVars, inferred>>

EndRuleLayer ==
  /\ pc = "rule" /\ todo = {}
  /\ todo' = InBatch("llm")
  /\ pc' = "llm"
  /\ UNCHANGED <<ingestVars, faults, tableVars, status, batch, descs, workVars, failed,
                 inferred>>
-----------------------------------------------------------------------------
(* The LLM layer                                                           *)

FreeSlotLate == Cardinality(Working) <= Concurrency

FreeSlot == Cardinality(Working) < Concurrency

\* A worker is started for a posting as soon as the semaphore has a slot.
Start(u) ==
  /\ pc = "llm" /\ u \in todo
  /\ Readable("llm", u) /\ FreeSlot
  /\ at' = [at EXCEPT ![u] = "lookup"]
  /\ todo' = todo \ {u}
  /\ UNCHANGED <<ingestVars, faults, tableVars, status, pc, batch, descs, got, hit,
                 failed, inferred>>

SkipLLM(u) ==
  /\ pc = "llm" /\ u \in todo
  /\ ~Readable("llm", u)
  /\ todo' = todo \ {u}
  /\ failed' = TRUE
  /\ UNCHANGED <<ingestVars, faults, tableVars, status, pc, batch, descs, workVars,
                 inferred>>

\* The key of u's answer is the hash its batch was listed with.
KeyNow(u) == job[u].hash

KeyOf(u) == batch["llm"][u].hash

KnownAnyway(t) == TRUE

Known(t) == cache[t] # None

Lookup(u) ==
  LET t == KeyOf(u)
  IN /\ at[u] = "lookup"
     /\ at' = [at EXCEPT ![u] = IF Known(t) THEN "write" ELSE "call"]
     /\ got' = [got EXCEPT ![u] = IF Known(t) THEN cache[t] ELSE None]
     /\ hit' = [hit EXCEPT ![u] = Known(t)]
     /\ UNCHANGED <<ingestVars, faults, tableVars, status, runVars, failed, inferred>>

\* Some model of the chain answers, at one of the attempts, about the
\* description it was sent.
Answer(u) ==
  LET t == batch["llm"][u].raw
  IN /\ at[u] = "call"
     /\ at' = [at EXCEPT ![u] = "put"]
     /\ got' = [got EXCEPT ![u] = t]
     /\ inferred' = [inferred EXCEPT ![KeyOf(u)] = @ + 1]
     /\ UNCHANGED <<ingestVars, faults, tableVars, status, runVars, hit, failed>>

\* CachePut keeps the answer, over an older one.
CacheForgotten(u) == cache

CacheKept(u) == [cache EXCEPT ![KeyOf(u)] = got[u]]

Put(u) ==
  /\ at[u] = "put"
  /\ cache' = CacheKept(u)
  /\ at' = [at EXCEPT ![u] = "write"]
  /\ UNCHANGED <<ingestVars, faults, tech, counted, status, runVars, got, hit, failed,
                 inferred>>

\* WriteLLMTech first commits the technologies and the done marker ...
Unmarked(u) == tech

Marked(u) == [tech EXCEPT !["llm"][u] = got[u]]

Write(u) ==
  /\ at[u] = "write"
  /\ tech' = Marked(u)
  /\ at' = [at EXCEPT ![u] = "terms"]
  /\ UNCHANGED <<ingestVars, faults, cache, counted, status, runVars, got, hit, failed,
                 inferred>>

\* ... then adds the unmapped terms, outside of that transaction.
CountTerms(u) ==
  /\ at[u] = "terms"
  /\ counted' = [counted EXCEPT ![u] = @ + 1]
  /\ at' = [at EXCEPT ![u] = "done"]
  /\ got' = [got EXCEPT ![u] = None]
  /\ UNCHANGED <<ingestVars, faults, tech, cache, status, runVars, hit, failed, inferred>>

\* Whether a failed step of u's worker is an error of the run.  That of
\* writing a cached answer is not: its error is dropped.
NoError(u) == FALSE

CountsAsError(u) == at[u] \in {"write", "terms"} => ~hit[u]

\* A worker gives up: the cache cannot be read or written, a write fails, or
\* the LLM does, which needs no fault of ours.
GiveUp(u) ==
  /\ \/ at[u] \in {"lookup", "put"} /\ Strikes("cache")
     \/ at[u] \in {"write", "terms"} /\ Strikes("write")
     \/ at[u] = "call" /\ "llm" \in Faults /\ UNCHANGED faults
  /\ failed' = (failed \/ CountsAsError(u))
  /\ at' = [at EXCEPT ![u] = "done"]
  /\ got' = [got EXCEPT ![u] = None]
  /\ UNCHANGED <<ingestVars, tableVars, status, runVars, hit, inferred>>

\* Once every worker is done the run is over, a success or a partial one;
\* either way the job exits 0.
Finish ==
  /\ pc = "llm" /\ todo = {} /\ Working = {}
  /\ status' = IF failed THEN "partial" ELSE "success"
  /\ Forget
  /\ UNCHANGED <<ingestVars, faults, tableVars, inferred>>

FinishFails ==
  /\ pc = "llm" /\ todo = {} /\ Working = {}
  /\ Strikes("finish")
  /\ Forget
  /\ UNCHANGED <<ingestVars, tableVars, status, inferred>>

\* The container is killed, by its deadline for one.
Crash ==
  /\ pc # "idle"
  /\ Strikes("crash")
  /\ Forget
  /\ UNCHANGED <<ingestVars, tableVars, status, inferred>>

Next ==
  \/ \E u \in Uuid, t \in Text : Store(u, t) \/ Edit(u, t)
  \/ CloseArchive
  \/ Begin \/ BeginLLM \/ QueryFails \/ ReadDescriptions
  \/ \E u \in Uuid : WriteRuleTech(u) \/ SkipRule(u)
  \/ EndRuleLayer
  \/ \E u \in Uuid : Start(u) \/ SkipLLM(u)
  \/ \E u \in Uuid : Lookup(u) \/ Answer(u) \/ Put(u) \/ Write(u) \/ CountTerms(u)
  \/ \E u \in Uuid : GiveUp(u)
  \/ Finish \/ FinishFails \/ Crash

Spec == Init /\ [][Next]_vars

\* The CronJob starts every night and its one loop goes on.
RunStep ==
  \/ Begin \/ BeginLLM \/ ReadDescriptions
  \/ \E u \in Uuid : WriteRuleTech(u) \/ SkipRule(u) \/ Start(u) \/ SkipLLM(u)
  \/ EndRuleLayer \/ Finish

\* A worker goes on too; its call to the LLM ends in an answer or in an error.
WorkerStep(u) ==
  Lookup(u) \/ Answer(u) \/ GiveUp(u) \/ Put(u) \/ Write(u) \/ CountTerms(u)

FairSpec ==
  /\ Spec
  /\ WF_vars(RunStep)
  /\ \A u \in Uuid : WF_vars(WorkerStep(u))
-----------------------------------------------------------------------------
(* Properties                                                              *)

\* Every variable holds a value of its type, and a worker has an answer in
\* hand exactly between getting it and being done with it.
TypeOK ==
  /\ changes \in Nat /\ faults \in Nat
  /\ job \in [Uuid -> Row \cup {None}]
  /\ archive \subseteq Uuid \X Text /\ buffer \subseteq Uuid \X Text
  /\ descs \subseteq Uuid \X Text
  /\ tech \in [Layers -> [Uuid -> Text \cup {None}]]
  /\ cache \in [Text -> Text \cup {None}]
  /\ counted \in [Uuid -> Nat]
  /\ status \in {"none", "running", "success", "partial"}
  /\ pc \in {"idle", "backlog", "read", "rule", "llm"}
  /\ batch \in [Layers -> [Uuid -> Row \cup {None}]]
  /\ todo \subseteq Uuid
  /\ at \in [Uuid -> {"none", "lookup", "call", "put", "write", "terms", "done"}]
  /\ got \in [Uuid -> Text \cup {None}]
  /\ \A u \in Uuid : got[u] # None <=> at[u] \in {"put", "write", "terms"}
  /\ hit \in [Uuid -> BOOLEAN] /\ failed \in BOOLEAN
  /\ had \in [Uuid -> SUBSET Text] /\ intact \in BOOLEAN
  /\ inferred \in [Text -> Nat]

\* The LLM never sees more than Concurrency requests at a time, whatever the
\* workers' errors and early returns (enrich.go:109, 122-131).
BoundedConcurrency == Cardinality(Working) <= Concurrency

\* The cached answer of a description is an answer about that description,
\* although hash and text are read at different times from different places:
\* as long as the ingest job archives what it edits, which a reconcile does not.
CacheIsTrue == intact => \A t \in Text : cache[t] # None => cache[t] = t

\* internal/store/enrich.go:106: the cache returns, for the hash of a description,
\* its result.
CacheNeverLies == \A t \in Text : cache[t] # None => cache[t] = t

\* Whatever is shared and edited meanwhile, a layer's technologies of a posting
\* were found in a description that posting has had; for the LLM layer, which
\* takes them from the cache, under the same condition.
FoundInOwnText ==
  \A u \in Uuid :
    /\ tech["rule"][u] # None => tech["rule"][u] \in had[u]
    /\ intact /\ tech["llm"][u] # None => tech["llm"][u] \in had[u]

\* Re-runs, crashes and retries never count a posting's unmapped terms twice
\* (seen_count is what the weekly review sorts by).
TermsOnce == \A u \in Uuid : counted[u] <= 1

\* A description is not inferred again once its answer is cached: unless a
\* fault loses an answer, the LLM gives one to cache under it at most once per
\* worker, however many postings, edits and nights share it.
OncePerWorker == faults = 0 => \A t \in Text : inferred[t] <= Concurrency

\* A run is a success only if it did all of its work: each posting of its
\* batches is done, with its terms counted unless the answer was cached.
HonestWhenInferred ==
  [][status = "running" /\ status' = "success" =>
       /\ \A u \in InBatch("rule") : tech["rule"][u] # None
       /\ \A u \in InBatch("llm") : hit[u] \/ (tech["llm"][u] # None /\ counted[u] > 0)]_vars

\* Fail-open: whatever the LLM does, the rule layer gets to every posting
\* whose record can be read.
Available(u) == u \in Stored /\ <<u, job[u].raw>> \in archive

RuleLayerCatchesUp ==
  \A u \in Uuid : []<>Available(u) => <>(tech["rule"][u] # None)

\* Once the LLM stops failing, the LLM layer gets to it as well.
LLMLayerCatchesUp ==
  <>[][\A u \in Uuid : at[u] = "call" => at'[u] # "done"]_vars =>
     \A u \in Uuid : []<>Available(u) => <>(tech["llm"][u] # None)

=============================================================================
