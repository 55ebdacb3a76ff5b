--------------------------- MODULE PageCacheProofs ---------------------------
(***************************************************************************)
(* Proofs about the page cache, for any set of requests and pages, any TTL *)
(* and any capacity.                                                       *)
(*                                                                         *)
(* IInv is the inductive invariant.  The flight map and the program        *)
(* counters say the same thing twice (Flying), which gives SingleFlight;   *)
(* the ages of renders and entries are bounded by what remains of a        *)
(* deadline or a TTL (Timely), which gives FreshEnough.                    *)
(***************************************************************************)
EXTENDS PageCache, FiniteSetTheorems, TLAPS

\* flight[k] is the one request that renders k, as long as it does.
Flying ==
  /\ \A k \in Key : flight[k] # None =>
       pc[flight[k]] \in {"build", "publish"} /\ key[flight[k]] = k
  /\ \A r \in Request : pc[r] \in {"build", "publish"} => flight[key[r]] = r

\* Only a waiter has a leader other than itself.
OwnLeader == \A r \in Request : pc[r] # "wait" => leader[r] = r

\* Requests come from the past; a render is as young as its deadline allows
\* and younger than its request; an entry outlives its data by TTL at most.
Timely ==
  /\ \A r \in Request : now[r] <= clock
  /\ \A r \in Request : pc[r] = "build" => page[r] # Failed
  /\ \A r \in Request : pc[r] \in {"build", "publish", "close"} /\ page[r] # Failed =>
       now[r] <= page[r] /\ clock <= page[r] + Timeout
  /\ \A k \in DOMAIN entries : entries[k].expires <= entries[k].at + TTL

IInv == TypeOK /\ Bounded /\ Flying /\ OwnLeader /\ SomeoneToWaitFor /\ Timely

\* What Free does to the slots, one slot at a time.
LEMMA FreeSlots ==
  ASSUME TypeOK, NEW done \in SUBSET Request, Free(done)
  PROVE  /\ pc' \in [Request -> Steps] /\ key' \in [Request -> Key]
         /\ now' \in [Request -> Nat] /\ leader' \in [Request -> Request]
         /\ page' \in [Request -> Page]
         /\ \A r \in done : pc'[r] = "idle" /\ now'[r] = 0 /\ leader'[r] = r
         /\ \A r \in Request \ done :
              /\ pc'[r] = pc[r] /\ key'[r] = key[r] /\ now'[r] = now[r]
              /\ leader'[r] = leader[r] /\ page'[r] = page[r]
<1>1. (CHOOSE k \in Key : TRUE) \in Key
  BY CacheAssumption
<1> QED
  BY <1>1 DEF Free, TypeOK, Steps, Page

\* The initial state satisfies the invariant.
LEMMA InitIInv == Init => IInv
<1> SUFFICES ASSUME Init PROVE IInv
  OBVIOUS
<1>1. DOMAIN entries = {} /\ Cardinality(DOMAIN entries) = 0
  BY FS_EmptySet DEF Init
<1>2. (CHOOSE k \in Key : TRUE) \in Key
  BY CacheAssumption
<1>3. TypeOK
  BY <1>1, <1>2 DEF Init, TypeOK, Steps, Page, Entry
<1>4. Bounded
  BY <1>1, CacheAssumption DEF Bounded
<1>5. Flying /\ OwnLeader /\ SomeoneToWaitFor
  BY DEF Init, Flying, OwnLeader, SomeoneToWaitFor
<1>6. Timely
  BY <1>1, CacheAssumption DEF Init, Timely
<1> QED
  BY <1>3, <1>4, <1>5, <1>6 DEF IInv

\* put leaves a cache of at most MaxEntries entries.
LEMMA PutBounded ==
  ASSUME TypeOK, Bounded, NEW r \in Request
  PROVE  Cardinality(Kept \cup {key[r]}) <= MaxEntries
<1>1. IsFiniteSet(DOMAIN entries) /\ Cardinality(DOMAIN entries) \in Nat
  BY CacheAssumption, FS_Subset, FS_CardinalityType DEF TypeOK
<1>2. IsFiniteSet(Kept) /\ Cardinality(Kept) \in Nat /\ Cardinality(Kept) + 1 <= MaxEntries
  BY <1>1, FS_EmptySet, CacheAssumption DEF Kept
<1>3. Cardinality(Kept \cup {key[r]}) <= Cardinality(Kept) + 1
  <2>1. CASE key[r] \in Kept
    <3>1. Kept \cup {key[r]} = Kept
      BY <2>1
    <3>2. Cardinality(Kept \cup {key[r]}) = Cardinality(Kept)
      BY <3>1, Zenon
    <3> QED
      BY <1>2, <3>2
  <2>2. CASE key[r] \notin Kept
    BY <1>2, <2>2, FS_AddElement
  <2> QED
    BY <2>1, <2>2
<1>4. Cardinality(Kept \cup {key[r]}) \in Nat
  BY <1>2, FS_AddElement, FS_CardinalityType
<1> QED
  BY <1>2, <1>3, <1>4, CacheAssumption

\* What put leaves in the cache.
LEMMA PutEntries ==
  ASSUME TypeOK, NEW r \in Request, page[r] # Failed
  PROVE  /\ DOMAIN Put(r) = Kept \cup {key[r]}
         /\ Kept \subseteq DOMAIN entries
         /\ DOMAIN Put(r) \subseteq Key
         /\ Put(r) \in [DOMAIN Put(r) -> Entry]
         /\ Put(r)[key[r]] = [at |-> page[r], expires |-> now[r] + TTL]
         /\ \A k \in DOMAIN Put(r) \ {key[r]} : k \in DOMAIN entries /\ Put(r)[k] = entries[k]
<1>1. Kept \subseteq DOMAIN entries /\ key[r] \in Key
  BY DEF Kept, TypeOK
<1>2. DOMAIN Put(r) = Kept \cup {key[r]}
  BY DEF Put
<1>3. page[r] \in Nat /\ Expires(r) \in Nat /\ Expires(r) = now[r] + TTL
  BY CacheAssumption DEF TypeOK, Page, Expires
<1>4. [at |-> page[r], expires |-> Expires(r)] \in Entry
  BY <1>3 DEF Entry
<1>5. \A k \in DOMAIN entries : entries[k] \in Entry
  BY DEF TypeOK
<1>6. Put(r) \in [DOMAIN Put(r) -> Entry]
  BY <1>1, <1>2, <1>4, <1>5 DEF Put
<1> QED
  BY <1>1, <1>2, <1>3, <1>6 DEF Put, TypeOK

\* Time passes.
LEMMA TickStep ==
  ASSUME IInv, Tick PROVE IInv'
<1> USE DEF IInv
<1>1. TypeOK' /\ Bounded' /\ Flying' /\ OwnLeader' /\ SomeoneToWaitFor'
  BY DEF Tick, TypeOK, Bounded, Flying, OwnLeader, SomeoneToWaitFor
<1>2. ASSUME NEW r \in Request PROVE now'[r] <= clock'
  BY DEF Tick, TypeOK, Timely
<1>3. ASSUME NEW r \in Request, pc'[r] \in {"build", "publish", "close"}, page'[r] # Failed
      PROVE  now'[r] <= page'[r] /\ clock' <= page'[r] + Timeout
  <2>1. pc[r] = "build" /\ now[r] <= page[r] /\ clock < now[r] + Timeout
    BY <1>3 DEF Tick, Timely
  <2> QED
    BY <1>3, <2>1, CacheAssumption DEF Tick, TypeOK, Page
<1>4. Timely'
  BY <1>2, <1>3 DEF Tick, Timely
<1> QED
  BY <1>1, <1>4

\* A request arrives.
LEMMA ArriveStep ==
  ASSUME IInv, NEW r \in Request, NEW k \in Key, Arrive(r, k) PROVE IInv'
<1> USE DEF IInv
<1>1. TypeOK'
  BY DEF Arrive, TypeOK, Steps
<1>2. Bounded' /\ OwnLeader'
  BY DEF Arrive, TypeOK, Bounded, OwnLeader
<1>3. Flying'
  BY DEF Arrive, TypeOK, Flying
<1>4. SomeoneToWaitFor'
  BY DEF Arrive, TypeOK, SomeoneToWaitFor
<1>5. Timely'
  BY DEF Arrive, TypeOK, Timely
<1> QED
  BY <1>1, <1>2, <1>3, <1>4, <1>5

\* Freed slots: a hit answers its own, the end of a render answers the leader
\* and every waiter.
LEMMA FreeStep ==
  ASSUME IInv, NEW r \in Request, NEW done \in SUBSET Request, Free(done),
         UNCHANGED <<clock, entries, flight>>,
         \A x \in done : pc[x] \notin {"build", "publish"},
         \A x \in Request \ done : pc[x] = "wait" => leader[x] \notin done
  PROVE  IInv'
<1> USE DEF IInv
<1>1. /\ pc' \in [Request -> Steps] /\ key' \in [Request -> Key]
      /\ now' \in [Request -> Nat] /\ leader' \in [Request -> Request]
      /\ page' \in [Request -> Page]
      /\ \A x \in done : pc'[x] = "idle" /\ now'[x] = 0 /\ leader'[x] = x
      /\ \A x \in Request \ done :
           /\ pc'[x] = pc[x] /\ key'[x] = key[x] /\ now'[x] = now[x]
           /\ leader'[x] = leader[x] /\ page'[x] = page[x]
  BY FreeSlots
<1>2. TypeOK' /\ Bounded'
  BY <1>1 DEF TypeOK, Bounded
<1>3. Flying'
  BY <1>1 DEF Flying, TypeOK
<1>4. OwnLeader' /\ SomeoneToWaitFor'
  BY <1>1 DEF OwnLeader, SomeoneToWaitFor, TypeOK
<1>5. Timely'
  BY <1>1, SMTT(60) DEF Timely, TypeOK
<1> QED
  BY <1>2, <1>3, <1>4, <1>5

\* A request joins a render or begins one.
LEMMA EnterStep ==
  ASSUME IInv, NEW r \in Request, Join(r) \/ Lead(r) PROVE IInv'
<1> USE DEF IInv
<1>1. CASE Join(r)
  <2>1. flight[key[r]] \in Request /\ key[r] \in Key
    BY <1>1 DEF Join, TypeOK
  <2>2. /\ key[flight[key[r]]] = key[r] /\ pc[flight[key[r]]] \in {"build", "publish"}
        /\ pc[r] = "enter"
    BY <1>1, <2>1 DEF Join, Flying
  <2>3. TypeOK' /\ Bounded'
    BY <1>1, <2>1 DEF Join, TypeOK, Steps, Bounded
  <2>4. Flying' /\ OwnLeader'
    BY <1>1, <2>1 DEF Join, TypeOK, Flying, OwnLeader
  <2>5. SomeoneToWaitFor'
    BY <1>1, <2>1, <2>2 DEF Join, TypeOK, SomeoneToWaitFor
  <2>6. Timely'
    BY <1>1 DEF Join, TypeOK, Timely
  <2> QED
    BY <2>3, <2>4, <2>5, <2>6
<1>2. CASE Lead(r)
  <2>1. TypeOK' /\ Bounded'
    BY <1>2 DEF Lead, TypeOK, Steps, Page, Bounded
  <2>2. Flying'
    <3>1. /\ key[r] \in Key /\ key' = key /\ pc[r] = "enter" /\ flight[key[r]] = None
          /\ flight' = [flight EXCEPT ![key[r]] = r] /\ pc' = [pc EXCEPT ![r] = "build"]
          /\ \A x \in Request : key[x] \in Key
      BY <1>2 DEF Lead, TypeOK
    <3>2. ASSUME NEW k \in Key, flight'[k] # None
          PROVE  pc'[flight'[k]] \in {"build", "publish"} /\ key'[flight'[k]] = k
      <4>1. CASE k = key[r]
        BY <3>1, <4>1 DEF TypeOK
      <4>2. CASE k # key[r]
        BY <3>1, <3>2, <4>2 DEF TypeOK, Flying
      <4> QED
        BY <4>1, <4>2
    <3>3. ASSUME NEW x \in Request, pc'[x] \in {"build", "publish"}
          PROVE  flight'[key'[x]] = x
      <4>1. CASE x = r
        BY <3>1, <4>1 DEF TypeOK
      <4>2. CASE x # r
        <5>1. flight[key[x]] = x
          BY <3>1, <3>3, <4>2 DEF TypeOK, Flying
        <5> QED
          BY <3>1, <4>2, <5>1, CacheAssumption DEF TypeOK
      <4> QED
        BY <4>1, <4>2
    <3> QED
      BY <3>2, <3>3 DEF Flying
  <2>3. OwnLeader'
    BY <1>2 DEF Lead, TypeOK, OwnLeader
  <2>4. SomeoneToWaitFor'
    BY <1>2 DEF Lead, TypeOK, SomeoneToWaitFor
  <2>5. page'[r] = clock /\ clock # Failed /\ clock' = clock
    BY <1>2, CacheAssumption DEF Lead, TypeOK
  <2>6. Timely'
    BY <1>2, <2>5, CacheAssumption DEF Lead, TypeOK, Timely
  <2> QED
    BY <2>1, <2>2, <2>3, <2>4, <2>6
<1> QED
  BY <1>1, <1>2

\* A render ends and its outcome is published.
LEMMA RenderStep ==
  ASSUME IInv, NEW r \in Request, Build(r) \/ Publish(r) PROVE IInv'
<1> USE DEF IInv
<1>1. CASE Build(r)
  <2>1. TypeOK' /\ Bounded'
    BY <1>1 DEF Build, TypeOK, Steps, Page, Bounded
  <2>2. Flying' /\ OwnLeader'
    BY <1>1 DEF Build, TypeOK, Flying, OwnLeader
  <2>3. SomeoneToWaitFor'
    BY <1>1 DEF Build, TypeOK, SomeoneToWaitFor
  <2>4. Timely'
    BY <1>1 DEF Build, TypeOK, Timely
  <2> QED
    BY <2>1, <2>2, <2>3, <2>4
<1>2. CASE Publish(r)
  <2>1. Flying'
    BY <1>2, CacheAssumption DEF Publish, TypeOK, Flying
  <2>2. OwnLeader' /\ SomeoneToWaitFor'
    BY <1>2 DEF Publish, TypeOK, OwnLeader, SomeoneToWaitFor
  <2>3. /\ flight' \in [Key -> Request \cup {None}]
        /\ pc' \in [Request -> Steps]
    BY <1>2 DEF Publish, TypeOK, Steps
  <2>4. CASE page[r] = Failed
    <3>1. TypeOK' /\ Bounded' /\ Timely'
      BY <1>2, <2>3, <2>4 DEF Publish, TypeOK, Bounded, Timely
    <3> QED
      BY <3>1, <2>1, <2>2
  <2>5. CASE page[r] # Failed
    <3>1. entries' = Put(r)
      BY <1>2, <2>5 DEF Publish
    <3>2. /\ DOMAIN Put(r) = Kept \cup {key[r]}
          /\ DOMAIN Put(r) \subseteq Key
          /\ Put(r) \in [DOMAIN Put(r) -> Entry]
          /\ Put(r)[key[r]] = [at |-> page[r], expires |-> now[r] + TTL]
          /\ \A k \in DOMAIN Put(r) \ {key[r]} :
               k \in DOMAIN entries /\ Put(r)[k] = entries[k]
      BY <2>5, PutEntries
    <3>3. TypeOK'
      BY <1>2, <2>3, <3>1, <3>2 DEF Publish, TypeOK
    <3>4. Bounded'
      BY <3>1, <3>2, PutBounded DEF Bounded
    <3>5. now[r] <= page[r] /\ page[r] \in Nat /\ now[r] \in Nat
      BY <1>2, <2>5 DEF Publish, Timely, TypeOK, Page
    <3>6. entries'[key[r]].expires <= entries'[key[r]].at + TTL
      BY <3>1, <3>2, <3>5, CacheAssumption
    <3>7. \A k \in DOMAIN entries' : entries'[k].expires <= entries'[k].at + TTL
      BY <3>1, <3>2, <3>6 DEF Timely
    <3>8. Timely'
      BY <1>2, <3>7 DEF Publish, TypeOK, Timely
    <3> QED
      BY <2>1, <2>2, <3>3, <3>4, <3>8
  <2> QED
    BY <2>4, <2>5
<1> QED
  BY <1>1, <1>2

\* Every step preserves the invariant.
LEMMA NextIInv == IInv /\ [Next]_vars => IInv'
<1> SUFFICES ASSUME IInv, [Next]_vars PROVE IInv'
  OBVIOUS
<1>1. CASE Tick
  BY <1>1, TickStep
<1>2. ASSUME NEW r \in Request, NEW k \in Key, Arrive(r, k) PROVE IInv'
  BY <1>2, ArriveStep
<1>3. ASSUME NEW r \in Request, Hit(r) PROVE IInv'
  <2>1. pc[r] = "enter" /\ \A x \in Request : pc[x] = "wait" => leader[x] # r
    BY <1>3 DEF Hit, IInv, SomeoneToWaitFor
  <2> QED
    BY <1>3, <2>1, FreeStep DEF Hit
<1>4. ASSUME NEW r \in Request, Join(r) \/ Lead(r) PROVE IInv'
  BY <1>4, EnterStep
<1>5. ASSUME NEW r \in Request, Build(r) \/ Publish(r) PROVE IInv'
  BY <1>5, RenderStep
<1>6. ASSUME NEW r \in Request, Close(r) PROVE IInv'
  <2> DEFINE done == {r} \cup Waiters(r)
  <2>1. /\ done \in SUBSET Request /\ Free(done)
        /\ \A x \in done : pc[x] \in {"wait", "close"}
    BY <1>6 DEF Close, Waiters
  <2>2. \A x \in Request \ done : pc[x] = "wait" => leader[x] \notin done
    BY <2>1 DEF Waiters, IInv, SomeoneToWaitFor
  <2> HIDE DEF done
  <2> QED
    BY <1>6, <2>1, <2>2, FreeStep DEF Close
<1>7. CASE UNCHANGED vars
  BY <1>7 DEF vars, IInv, TypeOK, Bounded, Flying, OwnLeader, SomeoneToWaitFor, Timely
<1> QED
  BY <1>1, <1>2, <1>3, <1>4, <1>5, <1>6, <1>7 DEF Next, Serve

\* The invariant holds in every reachable state.
THEOREM Invariance == Spec => []IInv
BY InitIInv, NextIInv, PTL DEF Spec

\* Every variable of the cache keeps its type; in particular no failed render
\* ever becomes an entry (TypeOK).
THEOREM TypeCorrect == Spec => []TypeOK
<1>1. IInv => TypeOK
  BY DEF IInv
<1> QED
  BY <1>1, Invariance, PTL

\* No key is rendered twice at the same time (SingleFlight).
THEOREM OneRender == Spec => []SingleFlight
<1>1. IInv => SingleFlight
  BY DEF IInv, Flying, SingleFlight
<1> QED
  BY <1>1, Invariance, PTL

\* The cache stays within its capacity (Bounded).
THEOREM WithinCapacity == Spec => []Bounded
<1>1. IInv => Bounded
  BY DEF IInv
<1> QED
  BY <1>1, Invariance, PTL

\* No wake-up is missed (SomeoneToWaitFor).
THEOREM NoLostWakeUp == Spec => []SomeoneToWaitFor
<1>1. IInv => SomeoneToWaitFor
  BY DEF IInv
<1> QED
  BY <1>1, Invariance, PTL

\* No request is answered with a page older than TTL (FreshEnough).
THEOREM NoStalePage == Spec => []FreshEnough
<1>1. ASSUME IInv, NEW r \in Request, pc[r] = "enter", Cached(key[r], now[r])
      PROVE  entries[key[r]].at + TTL >= now[r]
  <2>1. /\ entries[key[r]] \in Entry
        /\ now[r] <= entries[key[r]].expires
        /\ entries[key[r]].expires <= entries[key[r]].at + TTL
    BY <1>1 DEF IInv, TypeOK, Timely, Cached
  <2> QED
    BY <1>1, <2>1, CacheAssumption DEF Entry, IInv, TypeOK
<1>2. ASSUME IInv, NEW r \in Request, pc[r] \in {"wait", "close"},
             pc[leader[r]] = "close", page[leader[r]] # Failed
      PROVE  page[leader[r]] + TTL >= now[r]
  <2>1. leader[r] \in Request /\ now[r] <= clock /\ clock <= page[leader[r]] + Timeout
    BY <1>2 DEF IInv, TypeOK, Timely
  <2>2. page[leader[r]] \in Nat /\ now[r] \in Nat /\ clock \in Nat
    BY <1>2, <2>1 DEF IInv, TypeOK, Page
  <2> QED
    BY <2>1, <2>2, CacheAssumption
<1>3. IInv => FreshEnough
  BY <1>1, <1>2 DEF FreshEnough
<1> QED
  BY <1>3, Invariance, PTL
=============================================================================
