------------------------------ MODULE PageCache ------------------------------
(***************************************************************************)
(* The page cache of the web server: a TTL cache that lets one request per *)
(* key render the page while the others wait for it (internal/web/cache.go *)
(* and its only caller, servePage in internal/web/daily.go).               *)
(*                                                                         *)
(* A request is a goroutine slot, used again once it has been answered.  A *)
(* page is the time of the oldest data it shows, so that its age is known. *)
(* The mutex makes the two critical sections of do one step each; a render *)
(* takes time, until its context runs out.                                 *)
(*                                                                         *)
(* A definition named for what it gets wrong (LeadAnyway, ExpiresFromNow,  *)
(* PublishInFlight, PublishFailure, CloseForOne) stands before the one it  *)
(* misses by a single mistake and is used by nothing.                      *)
(***************************************************************************)
EXTENDS Integers, FiniteSets

CONSTANTS
  Request,    \* concurrent requests
  Key,        \* pages: a path and its lens
  MaxEntries, \* dailyCacheEntries
  TTL,        \* dailyCacheTTL
  Timeout,    \* dailyTimeout: what the context of a render allows
  MaxClock,   \* bound: last tick of the clock
  None,       \* flight[k] when nobody renders k
  Failed      \* the outcome of a render that failed

Entry == [at : Nat, expires : Nat]

\* A rendered page, or the error of a render that failed.
Page == Nat \cup {Failed}

Steps == {"idle", "enter", "wait", "build", "publish", "close"}

ASSUME CacheAssumption ==
  /\ IsFiniteSet(Key) /\ Key # {}
  /\ MaxEntries \in Nat \ {0}
  /\ TTL \in Nat /\ Timeout \in Nat /\ Timeout <= TTL
  /\ MaxClock \in Nat
  /\ None \notin Request /\ Failed \notin Nat

VARIABLES
  clock,
  entries,   \* the cache: entries[k] for the keys it holds
  flight,    \* flight[k]: the request that renders k, or None
  pc,        \* where each request stands in do
  key,       \* what it asked for
  now,       \* when it arrived
  leader,    \* whom it waits for; itself when it renders
  page       \* what its render has produced

vars == <<clock, entries, flight, pc, key, now, leader, page>>

-----------------------------------------------------------------------------
Init ==
  /\ clock = 0
  /\ entries = [k \in {} |-> 0]
  /\ flight = [k \in Key |-> None]
  /\ pc = [r \in Request |-> "idle"]
  /\ key = [r \in Request |-> CHOOSE k \in Key : TRUE]
  /\ now = [r \in Request |-> 0]
  /\ leader = [r \in Request |-> r]
  /\ page = [r \in Request |-> Failed]

\* Time passes for those who render, but not beyond their deadline, and not
\* between the end of a render and the answer to those who wait for it.
Tick ==
  /\ clock < MaxClock
  /\ \A r \in Request :
       /\ pc[r] \notin {"publish", "close"}
       /\ pc[r] = "build" => clock < now[r] + Timeout
  /\ clock' = clock + 1
  /\ UNCHANGED <<entries, flight, pc, key, now, leader, page>>

Arrive(r, k) ==
  /\ pc[r] = "idle"
  /\ pc' = [pc EXCEPT ![r] = "enter"]
  /\ key' = [key EXCEPT ![r] = k]
  /\ now' = [now EXCEPT ![r] = clock]
  /\ UNCHANGED <<clock, entries, flight, leader, page>>

Cached(k, t) == k \in DOMAIN entries /\ t <= entries[k].expires

\* The slots of `done` are answered and free for other requests.
Free(done) ==
  /\ pc' = [r \in Request |-> IF r \in done THEN "idle" ELSE pc[r]]
  /\ key' = [r \in Request |-> IF r \in done THEN CHOOSE k \in Key : TRUE ELSE key[r]]
  /\ now' = [r \in Request |-> IF r \in done THEN 0 ELSE now[r]]
  /\ leader' = [r \in Request |-> IF r \in done THEN r ELSE leader[r]]
  /\ page' = [r \in Request |-> IF r \in done THEN Failed ELSE page[r]]

\* The first critical section: a hit, answered with entries[key[r]] ...
Hit(r) ==
  /\ pc[r] = "enter"
  /\ Cached(key[r], now[r])
  /\ Free({r})
  /\ UNCHANGED <<clock, entries, flight>>

\* ... a render to wait for ...
Join(r) ==
  /\ pc[r] = "enter"
  /\ ~Cached(key[r], now[r])
  /\ flight[key[r]] # None
  /\ pc' = [pc EXCEPT ![r] = "wait"]
  /\ leader' = [leader EXCEPT ![r] = flight[key[r]]]
  /\ UNCHANGED <<clock, entries, flight, key, now, page>>

\* ... or a render to begin.
LeadAnyway(r) ==
  /\ pc[r] = "enter"
  /\ ~Cached(key[r], now[r])
  /\ pc' = [pc EXCEPT ![r] = "build"]
  /\ leader' = [leader EXCEPT ![r] = r]
  /\ flight' = [flight EXCEPT ![key[r]] = r]
  /\ page' = [page EXCEPT ![r] = clock]
  /\ UNCHANGED <<clock, entries, key, now>>

Lead(r) ==
  /\ pc[r] = "enter"
  /\ ~Cached(key[r], now[r])
  /\ flight[key[r]] = None
  /\ pc' = [pc EXCEPT ![r] = "build"]
  /\ leader' = [leader EXCEPT ![r] = r]
  /\ flight' = [flight EXCEPT ![key[r]] = r]
  /\ page' = [page EXCEPT ![r] = clock]
  /\ UNCHANGED <<clock, entries, key, now>>

\* build() returns a page, unless its context has run out, or an error: a
\* query that failed, a client that went away.
Build(r) ==
  /\ pc[r] = "build"
  /\ pc' = [pc EXCEPT ![r] = "publish"]
  /\ \/ clock <= now[r] + Timeout /\ UNCHANGED page
     \/ page' = [page EXCEPT ![r] = Failed]
  /\ UNCHANGED <<clock, entries, flight, key, now, leader>>

\* putLocked: at capacity the whole map is dropped first.
Kept == IF Cardinality(DOMAIN entries) >= MaxEntries THEN {} ELSE DOMAIN entries

ExpiresFromNow(r) == clock + TTL

Expires(r) == now[r] + TTL

Put(r) ==
  [k \in Kept \cup {key[r]} |->
     IF k = key[r] THEN [at |-> page[r], expires |-> Expires(r)] ELSE entries[k]]

\* The second critical section: the flight is over, a page enters the cache.
PublishInFlight(r) ==
  /\ pc[r] = "publish"
  /\ pc' = [pc EXCEPT ![r] = "close"]
  /\ entries' = IF page[r] # Failed THEN Put(r) ELSE entries
  /\ UNCHANGED <<clock, flight, key, now, leader, page>>

PublishFailure(r) ==
  /\ pc[r] = "publish"
  /\ pc' = [pc EXCEPT ![r] = "close"]
  /\ flight' = [flight EXCEPT ![key[r]] = None]
  /\ entries' = Put(r)
  /\ UNCHANGED <<clock, key, now, leader, page>>

Publish(r) ==
  /\ pc[r] = "publish"
  /\ pc' = [pc EXCEPT ![r] = "close"]
  /\ flight' = [flight EXCEPT ![key[r]] = None]
  /\ entries' = IF page[r] # Failed THEN Put(r) ELSE entries
  /\ UNCHANGED <<clock, key, now, leader, page>>

\* close(b.done) releases everyone who waits for this render: the leader and
\* they are answered with page[r].
Waiters(r) == {x \in Request : pc[x] = "wait" /\ leader[x] = r}

CloseForOne(r) ==
  /\ pc[r] = "close"
  /\ \E x \in Waiters(r) \cup {r} : Free({r, x})
  /\ UNCHANGED <<clock, entries, flight>>

Close(r) ==
  /\ pc[r] = "close"
  /\ Free({r} \cup Waiters(r))
  /\ UNCHANGED <<clock, entries, flight>>

Serve(r) == Hit(r) \/ Join(r) \/ Lead(r) \/ Build(r) \/ Publish(r) \/ Close(r)

Next ==
  \/ Tick
  \/ \E r \in Request : (\E k \in Key : Arrive(r, k)) \/ Serve(r)

Spec == Init /\ [][Next]_vars

\* Goroutines are scheduled and a render ends with its context, so a request
\* that can go on does.  Nobody has to ask for a page.
FairSpec == Spec /\ \A r \in Request : WF_vars(Serve(r))
-----------------------------------------------------------------------------
(* Properties                                                              *)

\* Every variable holds a value of its type.
TypeOK ==
  /\ clock \in Nat
  /\ DOMAIN entries \subseteq Key /\ entries \in [DOMAIN entries -> Entry]
  /\ flight \in [Key -> Request \cup {None}]
  /\ pc \in [Request -> Steps]
  /\ key \in [Request -> Key]
  /\ now \in [Request -> Nat]
  /\ leader \in [Request -> Request]
  /\ page \in [Request -> Page]

\* The work a crawler can cause is bounded: a key is never rendered twice at
\* the same time, however requests interleave (do, cache.go:45-54).
SingleFlight ==
  \A r, s \in Request :
    r # s /\ pc[r] = "build" /\ pc[s] = "build" => key[r] # key[s]

\* The cache never holds more than MaxEntries pages (put, cache.go:100-102).
Bounded == Cardinality(DOMAIN entries) <= MaxEntries

\* Whoever waits, waits for a request that still renders the same key or is
\* about to announce it: no wake-up can be missed.
SomeoneToWaitFor ==
  \A r \in Request : pc[r] = "wait" =>
    /\ key[leader[r]] = key[r]
    /\ pc[leader[r]] \in {"build", "publish", "close"}

\* No page is older than TTL when its request arrives, whether it is a hit or
\* the outcome of a render, the leader's or a waiter's ("effectively live",
\* daily.go:26-27).
FreshEnough ==
  \A r \in Request :
    /\ pc[r] = "enter" /\ Cached(key[r], now[r]) =>
         entries[key[r]].at + TTL >= now[r]
    /\ pc[r] \in {"wait", "close"} /\ pc[leader[r]] = "close" /\ page[leader[r]] # Failed =>
         page[leader[r]] + TTL >= now[r]

\* Every request is answered, with a page or an error.
Answered == \A r \in Request : pc[r] # "idle" ~> pc[r] = "idle"
=============================================================================
