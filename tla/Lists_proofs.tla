----------------------------- MODULE Lists_proofs -----------------------------
(***************************************************************************)
(* Proofs about what is derived from ideas and tags and kept beside them.  *)
(***************************************************************************)
EXTENDS ListCache, TagDesk, SearchIndex, Workers_proofs, SequenceTheorems

(* Cached lists: type correctness *)

Retired == [time : 0..MaxCacheTime, by : SUBSET Processes]
\* A handler about to store a list has read one.
Loaded(q) == cacheReq[q].pc = "set" => cacheReq[q].version \in 0..MaxVersion
CacheTyped ==
  /\ workers \in WorkerSets /\ retired \in Seq(Retired) /\ Len(retired) <= MaxVersion
  /\ cache \in [Processes -> Entry \cup {NoEntry}]
  /\ cacheTime \in 0..MaxCacheTime
  /\ served \in [version : -2..MaxVersion, process : Processes]
  /\ cacheReq \in [Worker -> CacheRequest]
  /\ \A q \in workers : Loaded(q)

LEMMA CacheFacts ==
  ASSUME CacheTyped
  PROVE  /\ CACHE_TTL \in Nat /\ MaxCacheTime \in Nat /\ MaxVersion \in Nat
         /\ Version \in Nat /\ Version = Len(retired) /\ retired \in [1..Version -> Retired]
         /\ Version \in 0..MaxVersion /\ workers \subseteq Worker
         /\ cacheTime \in Nat /\ cacheTime \in 0..MaxCacheTime
         /\ \A q \in workers : cacheReq[q] \in CacheRequest
<1>1. CACHE_TTL \in Nat /\ MaxCacheTime \in Nat /\ MaxVersion \in Nat
  BY ListCacheAssumption
<1>2. Version \in Nat /\ Version = Len(retired) /\ retired \in [1..Version -> Retired]
  BY LenProperties DEF CacheTyped, Version
<1>3. workers \subseteq Worker
  BY WorkersCounted DEF CacheTyped
<1>4. QED BY <1>1, <1>2, <1>3 DEF CacheTyped

\* The handler at rest, and the answers that are no list.
LEMMA CacheIdleType ==
  ASSUME MaxVersion \in Nat
  PROVE  /\ CacheIdle \in CacheRequest /\ CacheIdle.pc = "idle"
         /\ NotServed \in [version : -2..MaxVersion, process : Processes]
         /\ NotServed.version = -1 /\ KeyError.version = -2
         /\ KeyError.version \in -2..MaxVersion
<1>1. (CHOOSE p \in Processes : TRUE) \in Processes
  BY ListCacheAssumption
<1>2. NotServed \in [version : -2..MaxVersion, process : Processes]
      /\ NotServed.version = -1 /\ KeyError.version = -2
  BY <1>1 DEF NotServed, KeyError
<1>3. CacheIdle \in CacheRequest /\ CacheIdle.pc = "idle"
  BY <1>1 DEF CacheIdle, CacheRequest
<1>4. -2 \in -2..MaxVersion
  OBVIOUS
<1>5. QED BY <1>2, <1>3, <1>4

LEMMA CacheStarts ==
  ASSUME MaxVersion \in Nat, NEW p \in Processes, NEW step \in {"get", "query", "invalidate"}
  PROVE  /\ [CacheIdle EXCEPT !.process = p, !.pc = step] \in CacheRequest
         /\ [CacheIdle EXCEPT !.process = p, !.pc = step].pc = step
         /\ [CacheIdle EXCEPT !.process = p, !.pc = step].process = p
BY CacheIdleType DEF CacheRequest

LEMMA NextRequest ==
  ASSUME NEW r \in CacheRequest
  PROVE  /\ r.process \in Processes /\ r.version \in -1..MaxVersion
         /\ \A step \in {"expired", "query", "delete"} :
              /\ [r EXCEPT !.pc = step] \in CacheRequest
              /\ [r EXCEPT !.pc = step].pc = step
              /\ [r EXCEPT !.pc = step].process = r.process
BY DEF CacheRequest

LEMMA LoadedRequest ==
  ASSUME NEW r \in CacheRequest, NEW v \in -1..MaxVersion
  PROVE  /\ [r EXCEPT !.pc = "set", !.version = v] \in CacheRequest
         /\ [r EXCEPT !.pc = "set", !.version = v].pc = "set"
         /\ [r EXCEPT !.pc = "set", !.version = v].version = v
         /\ [r EXCEPT !.pc = "set", !.version = v].process = r.process
BY DEF CacheRequest

LEMMA AfterCacheGoto ==
  ASSUME CacheTyped, NEW q \in workers, NEW r \in CacheRequest, CacheGoto(q, r)
  PROVE  cacheReq' \in [Worker -> CacheRequest] /\ cacheReq'[q] = r
         /\ \A p \in workers \ {q} : cacheReq'[p] = cacheReq[p]
BY CacheFacts DEF CacheTyped, CacheGoto

LEMMA AfterServes ==
  ASSUME CacheTyped, NEW q \in workers, NEW v \in -2..MaxVersion, Serves(q, v)
  PROVE  /\ cacheReq' \in [Worker -> CacheRequest] /\ cacheReq'[q].pc = "idle"
         /\ \A p \in workers \ {q} : cacheReq'[p] = cacheReq[p]
         /\ served' \in [version : -2..MaxVersion, process : Processes]
         /\ served'.version = v /\ served'.process = cacheReq[q].process
<1>1. CacheIdle \in CacheRequest /\ CacheIdle.pc = "idle"
  BY CacheFacts, CacheIdleType
<1>2. CacheGoto(q, CacheIdle) /\ served' = [version |-> v, process |-> cacheReq[q].process]
  BY DEF Serves, CacheEnds
<1>3. cacheReq[q].process \in Processes
  BY CacheFacts DEF CacheRequest
<1>4. QED BY <1>1, <1>2, <1>3, AfterCacheGoto

\* A change of the list adds a version.
LEMMA AfterReplaced ==
  ASSUME CacheTyped, NEW by \in SUBSET Processes, Replaced(by), UNCHANGED cacheTime
  PROVE  /\ retired' \in Seq(Retired) /\ Len(retired') <= MaxVersion /\ served' = NotServed
         /\ Version' = Version + 1 /\ retired'[Version + 1] = [time |-> cacheTime, by |-> by]
         /\ \A v \in 1..Version : retired'[v] = retired[v]
<1>1. PICK row : row = [time |-> cacheTime, by |-> by]
  OBVIOUS
<1>2. row \in Retired
  BY <1>1, CacheFacts DEF Retired
<1>3. retired \in Seq(Retired) /\ retired' = Append(retired, row) /\ Len(retired) < MaxVersion
      /\ served' = NotServed
  BY <1>1 DEF Replaced, CacheTyped, Version
<1>4. /\ retired' \in Seq(Retired) /\ Len(retired') = Len(retired) + 1
      /\ retired'[Len(retired) + 1] = row
      /\ \A v \in 1..Len(retired) : retired'[v] = retired[v]
  BY <1>2, <1>3
<1>5. QED BY <1>1, <1>3, <1>4, CacheFacts DEF Version

LEMMA CacheStepTyped ==
  ASSUME CacheTyped, UNCHANGED workers, NEW q \in workers, CacheStep(q)
  PROVE  CacheTyped' /\ UNCHANGED cacheTime /\ \A p \in workers \ {q} : cacheReq'[p] = cacheReq[p]
<1> DEFINE r == cacheReq[q]
           kept == \A p \in workers \ {q} : cacheReq'[p] = cacheReq[p]
<1>0. /\ r \in CacheRequest /\ CacheTyped /\ MaxVersion \in Nat
      /\ Version \in -1..MaxVersion /\ KeyError.version \in -2..MaxVersion
      /\ NotServed \in [version : -2..MaxVersion, process : Processes]
      /\ CacheIdle \in CacheRequest /\ CacheIdle.pc = "idle"
      /\ retired \in Seq(Retired) /\ Len(retired) <= MaxVersion
      /\ cache \in [Processes -> Entry \cup {NoEntry}]
      /\ r.process \in Processes /\ (r.pc = "set" => r.version \in 0..MaxVersion)
  <2>1. r \in CacheRequest /\ MaxVersion \in Nat /\ Version \in 0..MaxVersion
    BY CacheFacts
  <2>2. Version \in -1..MaxVersion
    BY <2>1
  <2>3. /\ KeyError.version \in -2..MaxVersion
        /\ NotServed \in [version : -2..MaxVersion, process : Processes]
    BY <2>1, CacheIdleType
  <2>4. CacheIdle \in CacheRequest /\ CacheIdle.pc = "idle"
    BY <2>1, CacheIdleType
  <2>5. r.process \in Processes /\ (r.pc = "set" => r.version \in 0..MaxVersion)
    BY <2>1, NextRequest DEF CacheTyped, Loaded
  <2>6. QED BY <2>1, <2>2, <2>3, <2>4, <2>5 DEF CacheTyped
<1>1. UNCHANGED cacheTime
  BY DEF CacheStep, ReadList, ChangeList, GetEntry, DropExpired, QueryList, SetCache,
         ChangeCounts, ClearCache, CollectKeys, DeleteKeys
<1>2. ASSUME retired' \in Seq(Retired), Len(retired') <= MaxVersion,
             cache' \in [Processes -> Entry \cup {NoEntry}],
             served' \in [version : -2..MaxVersion, process : Processes],
             cacheReq' \in [Worker -> CacheRequest], kept, Loaded(q)'
      PROVE  CacheTyped' /\ kept
  <2>1. \A p \in workers \ {q} : Loaded(p)'
    BY <1>0, <1>2 DEF CacheTyped, Loaded
  <2>2. QED BY <1>0, <1>1, <1>2, <2>1 DEF CacheTyped, Entry, NoEntry, CacheRequest, Retired
<1>3. ASSUME UNCHANGED <<retired, cache>>, served' = NotServed, NEW s \in CacheRequest, CacheGoto(q, s),
             s.pc = "set" => s.version \in 0..MaxVersion
      PROVE  CacheTyped' /\ kept
  <2>1. cacheReq' \in [Worker -> CacheRequest] /\ kept /\ Loaded(q)'
    BY <1>0, <1>3, AfterCacheGoto DEF Loaded
  <2>2. QED BY <1>0, <1>2, <1>3, <2>1
<1>4. ASSUME UNCHANGED retired, cache' \in [Processes -> Entry \cup {NoEntry}],
             NEW v \in -2..MaxVersion, Serves(q, v)
      PROVE  CacheTyped' /\ kept
  <2>1. /\ cacheReq' \in [Worker -> CacheRequest] /\ kept /\ Loaded(q)'
        /\ served' \in [version : -2..MaxVersion, process : Processes]
    BY <1>0, <1>4, AfterServes DEF Loaded
  <2>2. QED BY <1>0, <1>2, <1>4, <2>1
<1>5. ASSUME NEW p \in Processes PROVE Cleared(p) \in [Processes -> Entry \cup {NoEntry}]
  BY <1>0 DEF Cleared, CacheTyped
<1>6. ASSUME NEW p \in Processes, ReadList(q, p) PROVE CacheTyped' /\ kept
  <2>1. PICK step \in {"get", "query"} : CacheGoto(q, [CacheIdle EXCEPT !.process = p, !.pc = step])
    BY <1>6 DEF ReadList
  <2>2. [CacheIdle EXCEPT !.process = p, !.pc = step] \in CacheRequest
        /\ [CacheIdle EXCEPT !.process = p, !.pc = step].pc = step
    <3>1. step \in {"get", "query", "invalidate"}
      OBVIOUS
    <3>2. QED BY <1>0, <3>1 DEF CacheRequest
  <2>3. QED BY <1>3, <1>6, <2>1, <2>2 DEF ReadList
<1>7. ASSUME GetEntry(q) PROVE CacheTyped' /\ kept
  <2>1. CASE Serves(q, KeyError.version)
    BY <1>0, <1>4, <1>7, <2>1 DEF GetEntry
  <2>2. CASE Has(r.process) /\ Serves(q, cache[r.process].version)
    <3>1. r.process \in Processes /\ cache[r.process] \in Entry
      BY <1>0, <2>2 DEF CacheTyped, CacheRequest, Has
    <3>2. cache[r.process].version \in -2..MaxVersion
      BY <1>0, <3>1 DEF Entry
    <3>3. QED BY <1>0, <1>4, <1>7, <2>2, <3>2 DEF GetEntry
  <2>3. CASE CacheGoto(q, [r EXCEPT !.pc = "expired"]) /\ served' = NotServed
    BY <1>0, <1>3, <1>7, <2>3, NextRequest DEF GetEntry
  <2>4. QED BY <1>7, <2>1, <2>2, <2>3 DEF GetEntry
<1>8. ASSUME DropExpired(q) PROVE CacheTyped' /\ kept
  <2>1. CASE Has(r.process)
    <3>1. /\ cache' = [cache EXCEPT ![r.process] = NoEntry] /\ UNCHANGED retired
          /\ CacheGoto(q, [r EXCEPT !.pc = "query"]) /\ served' = NotServed
      BY <1>8, <2>1 DEF DropExpired
    <3>2. cache' \in [Processes -> Entry \cup {NoEntry}]
      BY <1>0, <3>1 DEF CacheTyped
    <3>3. [r EXCEPT !.pc = "query"] \in CacheRequest /\ [r EXCEPT !.pc = "query"].pc = "query"
      BY <1>0, NextRequest
    <3>4. cacheReq' \in [Worker -> CacheRequest] /\ kept /\ Loaded(q)'
      BY <1>0, <3>1, <3>3, AfterCacheGoto DEF Loaded
    <3>5. QED BY <1>0, <1>2, <3>1, <3>2, <3>4
  <2>2. CASE ~Has(r.process)
    <3>1. cache' = cache /\ UNCHANGED retired /\ Serves(q, KeyError.version)
      BY <1>8, <2>2 DEF DropExpired
    <3>2. QED BY <1>0, <1>4, <3>1
  <2>3. QED BY <2>1, <2>2
<1>9. ASSUME QueryList(q) PROVE CacheTyped' /\ kept
  <2>1. Version \in 0..MaxVersion
    BY CacheFacts
  <2>2. [r EXCEPT !.pc = "set", !.version = Version] \in CacheRequest
        /\ [r EXCEPT !.pc = "set", !.version = Version].version = Version
    <3>1. r \in CacheRequest /\ Version \in -1..MaxVersion
      BY <1>0
    <3>2. QED BY <3>1, LoadedRequest, Zenon
  <2>3. QED BY <1>0, <1>3, <1>9, <2>1, <2>2 DEF QueryList
<1>10. ASSUME SetCache(q) PROVE CacheTyped' /\ kept
  <2>1. PICK entry : entry = [version |-> r.version, time |-> cacheTime]
    OBVIOUS
  <2>2. Serves(q, r.version) /\ cache' = [cache EXCEPT ![r.process] = entry] /\ UNCHANGED retired
        /\ r.pc = "set"
    BY <1>10, <2>1 DEF SetCache, CacheAt
  <2>3. r.version \in 0..MaxVersion
    BY <1>0, <2>2
  <2>4. r.version \in -2..MaxVersion
    BY <1>0, <2>3
  <2>5. entry \in Entry
    BY <2>1, <2>3, CacheFacts DEF Entry
  <2>6. cache' \in [Processes -> Entry \cup {NoEntry}]
    BY <1>0, <2>2, <2>5 DEF CacheTyped
  <2>7. QED BY <1>4, <2>2, <2>4, <2>6
<1>11. ASSUME NEW p \in Processes, ChangeList(q, p) PROVE CacheTyped' /\ kept
  <2>1. retired' \in Seq(Retired) /\ Len(retired') <= MaxVersion /\ served' = NotServed
    BY <1>1, <1>11, AfterReplaced DEF ChangeList
  <2>2. [CacheIdle EXCEPT !.process = p, !.pc = "invalidate"] \in CacheRequest
        /\ [CacheIdle EXCEPT !.process = p, !.pc = "invalidate"].pc = "invalidate"
    BY <1>0, CacheStarts
  <2>3. cacheReq' \in [Worker -> CacheRequest] /\ kept /\ Loaded(q)'
    BY <1>0, <1>11, <2>2, AfterCacheGoto DEF ChangeList, Loaded
  <2>4. cache' \in [Processes -> Entry \cup {NoEntry}]
    BY <1>0, <1>11 DEF ChangeList, CacheTyped
  <2>5. QED BY <1>0, <1>2, <2>1, <2>3, <2>4
<1>12. ASSUME ChangeCounts(q) PROVE CacheTyped' /\ kept
  <2>1. retired' \in Seq(Retired) /\ Len(retired') <= MaxVersion /\ served' = NotServed
    BY <1>1, <1>12, AfterReplaced DEF ChangeCounts
  <2>2. UNCHANGED <<cache, cacheReq>>
    BY <1>12 DEF ChangeCounts
  <2>3. Loaded(q)' /\ cacheReq' \in [Worker -> CacheRequest] /\ kept
    BY <1>0, <2>2 DEF CacheTyped, Loaded
  <2>4. NotServed \in [version : -2..MaxVersion, process : Processes]
        /\ cache' \in [Processes -> Entry \cup {NoEntry}]
    BY <1>0, <2>2
  <2>5. QED BY <1>2, <2>1, <2>3, <2>4
<1>13. ASSUME ClearCache(q) PROVE CacheTyped' /\ kept
  <2>1. CacheGoto(q, CacheIdle) /\ CacheIdle \in CacheRequest
    BY <1>0, <1>13, CacheIdleType DEF ClearCache, CacheEnds
  <2>2. cacheReq' \in [Worker -> CacheRequest] /\ kept /\ Loaded(q)'
    BY <1>0, <2>1, AfterCacheGoto DEF Loaded
  <2>3. QED BY <1>0, <1>2, <1>5, <1>13, <2>2 DEF ClearCache, CacheRequest
<1>14. ASSUME CollectKeys(q) PROVE CacheTyped' /\ kept
  BY <1>0, <1>3, <1>14, NextRequest DEF CollectKeys
<1>15. ASSUME DeleteKeys(q) PROVE CacheTyped' /\ kept
  <2>1. CASE Has(r.process)
    <3>1. /\ cache' = Cleared(r.process) /\ UNCHANGED retired /\ served' = NotServed
          /\ CacheGoto(q, CacheIdle) /\ CacheIdle \in CacheRequest /\ r.process \in Processes
      BY <1>0, <1>15, <2>1, CacheIdleType, NextRequest DEF DeleteKeys, CacheEnds
    <3>2. cacheReq' \in [Worker -> CacheRequest] /\ kept /\ Loaded(q)'
      BY <1>0, <3>1, AfterCacheGoto DEF Loaded
    <3>3. QED BY <1>0, <1>2, <1>5, <3>1, <3>2
  <2>2. CASE ~Has(r.process)
    <3>1. cache' = cache /\ UNCHANGED retired /\ Serves(q, KeyError.version)
      BY <1>15, <2>2 DEF DeleteKeys
    <3>2. QED BY <1>0, <1>4, <3>1
  <2>3. QED BY <2>1, <2>2
<1>16. QED
  BY <1>1, <1>6, <1>7, <1>8, <1>9, <1>10, <1>11, <1>12, <1>13, <1>14, <1>15 DEF CacheStep

LEMMA CacheTickTyped ==
  ASSUME CacheTyped, UNCHANGED workers, CacheTick
  PROVE  CacheTyped' /\ cacheTime' = cacheTime + 1 /\ served' = NotServed
         /\ \A q \in workers : cacheReq'[q].pc = "idle"
<1>1. /\ cacheTime' \in 0..MaxCacheTime /\ cacheTime' = cacheTime + 1 /\ served' = NotServed
      /\ UNCHANGED <<retired, cache, cacheReq>> /\ \A q \in workers : cacheReq[q].pc = "idle"
  BY CacheFacts DEF CacheTick
<1>2. NotServed \in [version : -2..MaxVersion, process : Processes]
  BY CacheFacts, CacheIdleType
<1>3. \A q \in workers : Loaded(q)'
  BY <1>1 DEF CacheTyped, Loaded
<1>4. CacheTyped'
  BY <1>1, <1>2, <1>3 DEF CacheTyped, Entry, NoEntry, CacheRequest, Retired
<1>5. QED BY <1>1, <1>4

LEMMA CacheNextTyped ==
  ASSUME CacheTyped, [ListCacheNext]_cacheVars
  PROVE  CacheTyped'
<1>1. CASE UNCHANGED cacheVars
  BY <1>1 DEF CacheTyped, cacheVars, Loaded, Entry, NoEntry, CacheRequest, Retired
<1>2. CASE UNCHANGED workers /\ CacheTick
  BY <1>2, CacheTickTyped
<1>3. CASE UNCHANGED workers /\ \E q \in workers : CacheStep(q)
  BY <1>3, CacheStepTyped
<1>4. QED BY <1>1, <1>2, <1>3 DEF ListCacheNext

LEMMA CacheInitTyped ==
  ASSUME ListCacheInit
  PROVE  CacheTyped
<1>1. /\ workers \in WorkerSets /\ retired = <<>> /\ cache = [p \in Processes |-> NoEntry]
      /\ cacheTime = 0 /\ served = NotServed /\ cacheReq = [q \in Worker |-> CacheIdle]
  BY DEF ListCacheInit, WorkersInit
<1>2. CacheIdle \in CacheRequest /\ CacheIdle.pc = "idle"
      /\ NotServed \in [version : -2..MaxVersion, process : Processes]
  BY CacheIdleType, ListCacheAssumption
<1>3. retired \in Seq(Retired) /\ Len(retired) = 0 /\ 0 <= MaxVersion /\ 0 \in 0..MaxCacheTime
  BY <1>1, ListCacheAssumption
<1>4. workers \subseteq Worker
  BY <1>1, WorkersCounted
<1>5. QED BY <1>1, <1>2, <1>3, <1>4 DEF CacheTyped, Loaded

\* Every variable of the cached lists keeps its type, for any number of
\* processes and of handlers at work, and however long the list's history is.
THEOREM ListsTypeCorrect == ListCacheSpec => []ListCacheTypeOK
<1>1. CacheTyped => ListCacheTypeOK
  BY CacheFacts DEF CacheTyped, ListCacheTypeOK, Retired
<1>2. QED BY <1>1, CacheInitTyped, CacheNextTyped, PTL DEF ListCacheSpec

-----------------------------------------------------------------------------
(* Cached lists: how old a list may be *)

\* A list of a version read at a time: if it was replaced, then not before.
EntrySound(v, t) ==
  v \in 0..Version /\ t \in 0..cacheTime /\ (v < Version => retired[v + 1].time >= t)
StaleInv ==
  /\ CacheTyped /\ StaleForTTLOnly
  /\ \A p \in Processes : Has(p) => EntrySound(cache[p].version, cache[p].time)
  /\ \A q \in workers : cacheReq[q].pc = "set" => EntrySound(cacheReq[q].version, cacheTime)

\* Dropping an entry, answering nothing or reading the list of the database.
LEMMA StaleKept ==
  ASSUME StaleInv, CacheTyped', UNCHANGED <<workers, retired, cacheTime>>, NEW q \in workers,
         \A p \in workers \ {q} : cacheReq'[p] = cacheReq[p],
         \A p \in Processes : cache'[p] \in {cache[p], NoEntry},
         served'.version \notin 0..MaxVersion,
         cacheReq'[q].pc = "set" => cacheReq'[q].version = Version
  PROVE  StaleInv'
<1>1. Version' = Version /\ Version \in Nat /\ Version <= MaxVersion /\ cacheTime \in Nat
      /\ MaxVersion \in Nat
  BY CacheFacts DEF Version, StaleInv
<1>2. ASSUME NEW v, NEW t, EntrySound(v, t) PROVE EntrySound(v, t)'
  BY <1>1, <1>2 DEF EntrySound
<1>3. StaleForTTLOnly'
  BY <1>1 DEF StaleForTTLOnly, Outdated
<1>4. ASSUME NEW p \in Processes, Has(p)' PROVE EntrySound(cache[p].version, cache[p].time)'
  BY <1>2, <1>4 DEF StaleInv, Has
<1>5. ASSUME NEW p \in workers, cacheReq'[p].pc = "set"
      PROVE  EntrySound(cacheReq[p].version, cacheTime)'
  <2>1. EntrySound(Version, cacheTime)
    BY <1>1 DEF EntrySound
  <2>2. EntrySound(cacheReq'[p].version, cacheTime)
    BY <1>5, <2>1 DEF StaleInv
  <2>3. QED BY <1>1, <2>2 DEF EntrySound
<1>6. QED BY <1>3, <1>4, <1>5 DEF StaleInv

\* Answering with a list that is sound and young enough.
LEMMA StaleServed ==
  ASSUME StaleInv, CacheTyped', UNCHANGED <<workers, retired, cacheTime>>, NEW q \in workers,
         \A p \in workers \ {q} : cacheReq'[p] = cacheReq[p], cacheReq'[q].pc = "idle",
         NEW v, NEW t, EntrySound(v, t), cacheTime - t <= CACHE_TTL, served'.version = v,
         \A p \in Processes : cache'[p] = cache[p] \/ cache'[p] = [version |-> v, time |-> t]
  PROVE  StaleInv'
<1>1. /\ Version' = Version /\ Version \in Nat /\ Version <= MaxVersion /\ cacheTime \in Nat
      /\ MaxVersion \in Nat /\ CACHE_TTL \in Nat /\ MaxCacheTime \in Nat
      /\ retired \in [1..Version -> Retired]
  BY CacheFacts DEF Version, StaleInv
<1>2. ASSUME NEW w, NEW u, EntrySound(w, u) PROVE EntrySound(w, u)'
  BY <1>1, <1>2 DEF EntrySound
<1>3. StaleForTTLOnly'
  <2>1. SUFFICES ASSUME v \in 0..Version-1 PROVE cacheTime - retired[v + 1].time <= CACHE_TTL
    BY <1>1 DEF StaleForTTLOnly, Outdated
  <2>2. v + 1 \in 1..Version /\ retired[v + 1].time >= t /\ t \in Nat
    BY <1>1, <2>1 DEF EntrySound
  <2>3. retired[v + 1].time \in Nat
    BY <1>1, <2>2 DEF Retired
  <2>4. QED BY <1>1, <2>2, <2>3
<1>4. ASSUME NEW p \in Processes, Has(p)' PROVE EntrySound(cache[p].version, cache[p].time)'
  BY <1>2, <1>4 DEF StaleInv, Has
<1>5. ASSUME NEW p \in workers, cacheReq'[p].pc = "set"
      PROVE  EntrySound(cacheReq[p].version, cacheTime)'
  <2>1. EntrySound(cacheReq'[p].version, cacheTime)
    BY <1>5 DEF StaleInv
  <2>2. QED BY <1>1, <2>1 DEF EntrySound
<1>6. QED BY <1>3, <1>4, <1>5 DEF StaleInv

\* Replacing the list: what was current was replaced now, no earlier than it
\* was read.
LEMMA StaleReplaced ==
  ASSUME StaleInv, CacheTyped', UNCHANGED <<workers, cache, cacheTime>>, NEW q \in workers,
         \A p \in workers \ {q} : cacheReq'[p] = cacheReq[p], cacheReq'[q].pc # "set",
         NEW by \in SUBSET Processes, Replaced(by)
  PROVE  StaleInv'
<1>1. Version \in Nat /\ cacheTime \in Nat
  BY CacheFacts DEF StaleInv
<1>2. /\ served' = NotServed /\ Version' = Version + 1
      /\ retired'[Version + 1] = [time |-> cacheTime, by |-> by]
      /\ \A v \in 1..Version : retired'[v] = retired[v]
  BY AfterReplaced DEF StaleInv
<1>3. ASSUME NEW v, NEW t, EntrySound(v, t) PROVE EntrySound(v, t)'
  <2>1. v \in 0..Version /\ t \in 0..cacheTime /\ (v < Version => retired[v + 1].time >= t)
    BY <1>3 DEF EntrySound
  <2>2. CASE v = Version
    BY <1>1, <1>2, <2>1, <2>2 DEF EntrySound
  <2>3. CASE v < Version
    <3>1. v + 1 \in 1..Version
      BY <1>1, <2>1, <2>3
    <3>2. retired'[v + 1].time >= t
      BY <1>2, <2>1, <2>3, <3>1
    <3>3. QED BY <1>1, <1>2, <2>1, <3>2 DEF EntrySound
  <2>4. QED BY <1>1, <2>1, <2>2, <2>3
<1>4. StaleForTTLOnly'
  <2>1. NotServed.version = -1
    BY CacheFacts, CacheIdleType DEF StaleInv
  <2>2. QED BY <1>1, <1>2, <2>1 DEF StaleForTTLOnly, Outdated
<1>5. ASSUME NEW p \in Processes, Has(p)' PROVE EntrySound(cache[p].version, cache[p].time)'
  BY <1>3, <1>5 DEF StaleInv, Has
<1>6. ASSUME NEW p \in workers, cacheReq'[p].pc = "set"
      PROVE  EntrySound(cacheReq[p].version, cacheTime)'
  <2>1. PICK v, t : v = cacheReq[p].version /\ t = cacheTime
    OBVIOUS
  <2>2. EntrySound(v, t) /\ cacheReq'[p].version = v /\ cacheTime' = t
    BY <1>6, <2>1 DEF StaleInv
  <2>3. EntrySound(v, t)'
    BY <1>3, <2>2
  <2>4. QED BY <2>2, <2>3 DEF EntrySound
<1>7. QED BY <1>4, <1>5, <1>6 DEF StaleInv

LEMMA StaleStep ==
  ASSUME StaleInv, UNCHANGED workers, NEW q \in workers, CacheStep(q)
  PROVE  StaleInv'
<1> DEFINE r == cacheReq[q]
<1>0. /\ CacheTyped /\ CacheTyped' /\ UNCHANGED <<workers, cacheTime>>
      /\ \A p \in workers \ {q} : cacheReq'[p] = cacheReq[p]
      /\ r \in CacheRequest /\ r.process \in Processes
      /\ MaxVersion \in Nat /\ CACHE_TTL \in Nat /\ cacheTime \in Nat
  BY CacheStepTyped, CacheFacts, NextRequest DEF StaleInv
<1>1. /\ NotServed.version = -1 /\ KeyError.version = -2
      /\ NotServed.version \notin 0..MaxVersion /\ KeyError.version \notin 0..MaxVersion
      /\ CacheIdle \in CacheRequest /\ CacheIdle.pc = "idle"
      /\ -2 \in -2..MaxVersion
  BY <1>0, CacheIdleType
<1>2. ASSUME UNCHANGED <<retired, cache>>, served' = NotServed,
             NEW s \in CacheRequest, CacheGoto(q, s), s.pc = "set" => s.version = Version
      PROVE  StaleInv'
  <2>1. cacheReq'[q] = s
    BY <1>0, <1>2, AfterCacheGoto
  <2>2. QED BY <1>0, <1>1, <1>2, <2>1, StaleKept
<1>3. ASSUME UNCHANGED <<retired, cache>>, Serves(q, KeyError.version) PROVE StaleInv'
  <2>1. cacheReq'[q].pc = "idle" /\ served'.version = KeyError.version
    BY <1>0, <1>1, <1>3, AfterServes
  <2>2. QED BY <1>0, <1>1, <1>3, <2>1, StaleKept
<1>4. ASSUME UNCHANGED retired, NEW p \in Processes, cache' = [cache EXCEPT ![p] = NoEntry],
             served' = NotServed, NEW s \in CacheRequest, CacheGoto(q, s), s.pc # "set"
      PROVE  StaleInv'
  <2>1. cacheReq'[q] = s
    BY <1>0, <1>4, AfterCacheGoto
  <2>2. \A o \in Processes : cache'[o] \in {cache[o], NoEntry}
    BY <1>0, <1>4 DEF CacheTyped
  <2>3. QED BY <1>0, <1>1, <1>4, <2>1, <2>2, StaleKept
<1>5. ASSUME NEW p \in Processes, ReadList(q, p) PROVE StaleInv'
  <2>1. PICK step \in {"get", "query"} : CacheGoto(q, [CacheIdle EXCEPT !.process = p, !.pc = step])
    BY <1>5 DEF ReadList
  <2>2. [CacheIdle EXCEPT !.process = p, !.pc = step] \in CacheRequest
        /\ [CacheIdle EXCEPT !.process = p, !.pc = step].pc = step
    BY <1>1 DEF CacheRequest
  <2>3. QED BY <1>2, <1>5, <2>1, <2>2 DEF ReadList
<1>6. ASSUME GetEntry(q) PROVE StaleInv'
  <2>1. CASE Serves(q, KeyError.version)
    BY <1>3, <1>6, <2>1 DEF GetEntry
  <2>2. CASE Has(r.process) /\ Fresh(cache[r.process]) /\ Serves(q, cache[r.process].version)
    <3>1. EntrySound(cache[r.process].version, cache[r.process].time)
      BY <1>0, <2>2 DEF StaleInv
    <3>2. cache[r.process].version \in -2..MaxVersion
      BY <1>0, <2>2 DEF CacheTyped, Entry, Has
    <3>3. cacheReq'[q].pc = "idle" /\ served'.version = cache[r.process].version
      BY <1>0, <2>2, <3>2, AfterServes
    <3>4. UNCHANGED <<retired, cache>> /\ cacheTime - cache[r.process].time <= CACHE_TTL
      BY <1>6, <2>2 DEF GetEntry, Fresh
    <3>5. QED BY <1>0, <3>1, <3>3, <3>4, StaleServed
  <2>3. CASE CacheGoto(q, [r EXCEPT !.pc = "expired"]) /\ served' = NotServed
    <3>1. [r EXCEPT !.pc = "expired"] \in CacheRequest
          /\ [r EXCEPT !.pc = "expired"].pc = "expired"
      BY <1>0, NextRequest
    <3>2. QED BY <1>2, <1>6, <2>3, <3>1 DEF GetEntry
  <2>4. QED BY <1>6, <2>1, <2>2, <2>3 DEF GetEntry
<1>7. ASSUME DropExpired(q) PROVE StaleInv'
  <2>1. [r EXCEPT !.pc = "query"] \in CacheRequest /\ [r EXCEPT !.pc = "query"].pc = "query"
    BY <1>0, NextRequest
  <2>2. CASE Has(r.process)
    <3>1. /\ cache' = [cache EXCEPT ![r.process] = NoEntry] /\ UNCHANGED retired
          /\ CacheGoto(q, [r EXCEPT !.pc = "query"]) /\ served' = NotServed
      BY <1>7, <2>2 DEF DropExpired
    <3>2. QED BY <1>0, <1>4, <2>1, <3>1
  <2>3. CASE ~Has(r.process)
    BY <1>3, <1>7, <2>3 DEF DropExpired
  <2>4. QED BY <2>2, <2>3
<1>8. ASSUME QueryList(q) PROVE StaleInv'
  <2>1. r \in CacheRequest /\ Version \in -1..MaxVersion
    BY <1>0, CacheFacts
  <2>2. [r EXCEPT !.pc = "set", !.version = Version] \in CacheRequest
        /\ [r EXCEPT !.pc = "set", !.version = Version].version = Version
    BY <2>1, LoadedRequest, Zenon
  <2>3. QED BY <1>2, <1>8, <2>2 DEF QueryList
<1>9. ASSUME SetCache(q) PROVE StaleInv'
  <2>1. r.pc = "set" /\ Serves(q, r.version) /\ UNCHANGED retired
        /\ cache' = [cache EXCEPT ![r.process] = [version |-> r.version, time |-> cacheTime]]
    BY <1>9 DEF SetCache, CacheAt
  <2>2. EntrySound(r.version, cacheTime)
    BY <2>1 DEF StaleInv
  <2>3. r.version \in 0..MaxVersion
    BY <1>0, <2>1 DEF CacheTyped, Loaded
  <2>4. r.version \in -2..MaxVersion
    BY <1>0, <2>3
  <2>5. cacheReq'[q].pc = "idle" /\ served'.version = r.version
    BY <1>0, <2>1, <2>4, AfterServes
  <2>6. cacheTime - cacheTime <= CACHE_TTL
    BY <1>0
  <2>7. \A p \in Processes :
          cache'[p] = cache[p] \/ cache'[p] = [version |-> r.version, time |-> cacheTime]
    BY <1>0, <2>1 DEF CacheTyped
  <2>8. QED BY <1>0, <2>1, <2>2, <2>5, <2>6, <2>7, StaleServed
<1>10. ASSUME NEW p \in Processes, ChangeList(q, p) PROVE StaleInv'
  <2>1. [CacheIdle EXCEPT !.process = p, !.pc = "invalidate"] \in CacheRequest
        /\ [CacheIdle EXCEPT !.process = p, !.pc = "invalidate"].pc = "invalidate"
    BY <1>0, CacheStarts
  <2>2. cacheReq'[q].pc = "invalidate"
    BY <1>0, <1>10, <2>1, AfterCacheGoto DEF ChangeList
  <2>3. Replaced({p}) /\ UNCHANGED cache
    BY <1>10 DEF ChangeList
  <2>4. {p} \in SUBSET Processes
    OBVIOUS
  <2>5. QED BY <1>0, <2>2, <2>3, <2>4, StaleReplaced
<1>11. ASSUME ChangeCounts(q) PROVE StaleInv'
  <2>1. Replaced({}) /\ UNCHANGED <<cache, cacheReq>> /\ r.pc = "idle"
    BY <1>11 DEF ChangeCounts, CacheAt
  <2>2. {} \in SUBSET Processes
    OBVIOUS
  <2>3. QED BY <1>0, <2>1, <2>2, StaleReplaced
<1>12. ASSUME ClearCache(q) PROVE StaleInv'
  BY <1>0, <1>1, <1>4, <1>12 DEF ClearCache, CacheEnds, Cleared
<1>13. ASSUME CollectKeys(q) PROVE StaleInv'
  <2>1. [r EXCEPT !.pc = "delete"] \in CacheRequest /\ [r EXCEPT !.pc = "delete"].pc = "delete"
    BY <1>0, NextRequest
  <2>2. QED BY <1>2, <1>13, <2>1 DEF CollectKeys
<1>14. ASSUME DeleteKeys(q) PROVE StaleInv'
  <2>1. CASE Has(r.process)
    BY <1>0, <1>1, <1>4, <1>14, <2>1 DEF DeleteKeys, CacheEnds, Cleared
  <2>2. CASE ~Has(r.process)
    BY <1>3, <1>14, <2>2 DEF DeleteKeys
  <2>3. QED BY <2>1, <2>2
<1>15. QED
  BY <1>5, <1>6, <1>7, <1>8, <1>9, <1>10, <1>11, <1>12, <1>13, <1>14 DEF CacheStep

LEMMA StaleTick ==
  ASSUME StaleInv, UNCHANGED workers, CacheTick
  PROVE  StaleInv'
<1>1. /\ CacheTyped' /\ cacheTime' = cacheTime + 1 /\ served' = NotServed
      /\ \A q \in workers : cacheReq'[q].pc = "idle"
  BY CacheTickTyped DEF StaleInv
<1>2. UNCHANGED <<retired, cache>> /\ Version' = Version /\ cacheTime \in Nat /\ Version \in Nat
  BY CacheFacts DEF CacheTick, Version, StaleInv
<1>3. ASSUME NEW v, NEW t, EntrySound(v, t) PROVE EntrySound(v, t)'
  BY <1>1, <1>2, <1>3 DEF EntrySound
<1>4. StaleForTTLOnly'
  <2>1. NotServed.version = -1
    BY CacheFacts, CacheIdleType DEF StaleInv
  <2>2. QED BY <1>1, <1>2, <2>1 DEF StaleForTTLOnly, Outdated
<1>5. ASSUME NEW p \in Processes, Has(p)' PROVE EntrySound(cache[p].version, cache[p].time)'
  BY <1>2, <1>3, <1>5 DEF StaleInv, Has
<1>6. QED BY <1>1, <1>4, <1>5 DEF StaleInv

\* Whatever threads and processes do between each other's steps, nobody is
\* served a list that was replaced longer ago than the time to live: though
\* SetCache may put back what a writer has just dropped, what it puts there was
\* read no earlier than its own time stamp says.
THEOREM ListsAreYoung == ListCacheSpec => []StaleForTTLOnly
<1>1. ListCacheInit => StaleInv
  <2>1. SUFFICES ASSUME ListCacheInit PROVE StaleInv
    OBVIOUS
  <2>2. CacheTyped
    BY <2>1, CacheInitTyped
  <2>3. /\ cache = [p \in Processes |-> NoEntry] /\ served = NotServed
        /\ cacheReq = [q \in Worker |-> CacheIdle]
    BY <2>1 DEF ListCacheInit
  <2>4. NotServed.version = -1 /\ CacheIdle.pc = "idle" /\ workers \subseteq Worker
    BY <2>2, CacheFacts, CacheIdleType
  <2>5. StaleForTTLOnly
    BY <2>2, <2>3, <2>4, CacheFacts DEF StaleForTTLOnly, Outdated
  <2>6. QED BY <2>2, <2>3, <2>4, <2>5 DEF StaleInv, Has
<1>2. ASSUME StaleInv, [ListCacheNext]_cacheVars PROVE StaleInv'
  <2>1. CASE UNCHANGED cacheVars
    <3>1. CacheTyped' /\ UNCHANGED cacheVars
      BY <1>2, <2>1, CacheNextTyped DEF StaleInv
    <3>2. QED BY <1>2, <3>1
      DEF StaleInv, cacheVars, StaleForTTLOnly, Outdated, Version, Has, EntrySound
  <2>2. CASE UNCHANGED workers /\ CacheTick
    BY <1>2, <2>2, StaleTick
  <2>3. CASE UNCHANGED workers /\ \E q \in workers : CacheStep(q)
    BY <1>2, <2>3, StaleStep
  <2>4. QED BY <1>2, <2>1, <2>2, <2>3 DEF ListCacheNext
<1>3. StaleInv => StaleForTTLOnly
  BY DEF StaleInv
<1>4. QED BY <1>1, <1>2, <1>3, PTL DEF ListCacheSpec

-----------------------------------------------------------------------------
(* Cached lists: a process and its own changes *)

\* No handler of process p has replaced version v or a later one.
OwnSeen(p, v) == \A w \in v + 1 .. Version : p \notin retired[w].by
Invalidates(q, p) ==
  cacheReq[q].pc \in {"invalidate", "delete"} /\ cacheReq[q].process = p
OwnEntries(q) ==
  \A p \in Processes : Has(p) => OwnSeen(p, cache[p].version) \/ Invalidates(q, p)
OwnLoad(q) == cacheReq[q].pc = "set" => cacheReq[q].version = Version
OwnServed == Outdated => OwnSeen(served.process, served.version)
OwnInv ==
  CacheTyped /\ (Serial => OwnServed /\ \A q \in workers : OwnEntries(q) /\ OwnLoad(q))

\* What the handler at work has to show for its step.
LEMMA OwnStepEnough ==
  ASSUME CacheTyped', UNCHANGED workers, NEW q \in workers,
         Serial => OwnServed' /\ OwnEntries(q)' /\ OwnLoad(q)'
  PROVE  OwnInv'
<1>1. SUFFICES ASSUME Serial' PROVE (OwnServed /\ \A o \in workers : OwnEntries(o) /\ OwnLoad(o))'
  BY DEF OwnInv
<1>2. Serial /\ workers \in WorkerSets
  BY <1>1 DEF Serial, CacheTyped
<1>3. \A o \in workers : o = q
  BY <1>2, Alone
<1>4. QED BY <1>2, <1>3

LEMMA OwnServedNothing ==
  ASSUME CacheTyped, NEW v, v \in {NotServed.version, KeyError.version}, served'.version = v
  PROVE  OwnServed'
<1>1. NotServed.version = -1 /\ KeyError.version = -2
  BY CacheFacts, CacheIdleType
<1>2. QED BY <1>1 DEF OwnServed, Outdated

\* Entries stay as they are or go, and a handler that invalidates no more has
\* left no entry of its process.
LEMMA OwnEntriesKept ==
  ASSUME CacheTyped, CacheTyped', UNCHANGED retired, NEW q \in workers, OwnEntries(q),
         \A p \in Processes : cache'[p] \in {cache[p], NoEntry},
         \A p \in Processes : Invalidates(q, p) => cache'[p] = NoEntry \/ Invalidates(q, p)'
  PROVE  OwnEntries(q)'
BY DEF OwnEntries, Has, OwnSeen, Version

LEMMA OwnStep ==
  ASSUME OwnInv, UNCHANGED workers, NEW q \in workers, CacheStep(q)
  PROVE  OwnInv'
<1> DEFINE r == cacheReq[q]
<1>0. /\ CacheTyped /\ CacheTyped' /\ UNCHANGED <<workers, cacheTime>>
      /\ r \in CacheRequest /\ r.process \in Processes /\ MaxVersion \in Nat
      /\ Version \in Nat /\ Version \in -1..MaxVersion
      /\ cache \in [Processes -> Entry \cup {NoEntry}]
  <2>1. CacheTyped
    BY DEF OwnInv
  <2>2. CacheTyped' /\ UNCHANGED <<workers, cacheTime>>
    BY <2>1, CacheStepTyped
  <2>3. r \in CacheRequest /\ MaxVersion \in Nat /\ Version \in Nat /\ Version \in 0..MaxVersion
    BY <2>1, CacheFacts
  <2>4. Version \in -1..MaxVersion
    BY <2>3
  <2>5. r.process \in Processes
    BY <2>3, NextRequest
  <2>6. QED BY <2>1, <2>2, <2>3, <2>4, <2>5 DEF CacheTyped
<1>1. /\ CacheIdle \in CacheRequest /\ CacheIdle.pc = "idle"
      /\ NotServed.version \in {NotServed.version, KeyError.version}
      /\ KeyError.version \in -2..MaxVersion
      /\ -2 \in -2..MaxVersion
  BY <1>0, CacheIdleType
<1>2. SUFFICES ASSUME Serial PROVE OwnServed' /\ OwnEntries(q)' /\ OwnLoad(q)'
  BY <1>0, OwnStepEnough
<1>3. OwnServed /\ OwnEntries(q) /\ OwnLoad(q)
  BY <1>2 DEF OwnInv
<1>4. ASSUME UNCHANGED retired, \A p \in Processes : cache'[p] \in {cache[p], NoEntry},
             served' = NotServed, NEW s \in CacheRequest, CacheGoto(q, s),
             s.pc = "set" => s.version = Version,
             \A p \in Processes : Invalidates(q, p) =>
               cache'[p] = NoEntry \/ (s.pc \in {"invalidate", "delete"} /\ s.process = p)
      PROVE  OwnServed' /\ OwnEntries(q)' /\ OwnLoad(q)'
  <2>1. cacheReq'[q] = s
    BY <1>0, <1>4, AfterCacheGoto
  <2>2. OwnServed'
    BY <1>0, <1>1, <1>4, OwnServedNothing
  <2>3. \A p \in Processes : Invalidates(q, p) => cache'[p] = NoEntry \/ Invalidates(q, p)'
    BY <1>4, <2>1 DEF Invalidates
  <2>4. OwnEntries(q)'
    BY <1>0, <1>3, <1>4, <2>3, OwnEntriesKept
  <2>5. OwnLoad(q)'
    BY <1>4, <2>1 DEF OwnLoad, Version
  <2>6. QED BY <2>2, <2>4, <2>5
<1>5. ASSUME UNCHANGED <<retired, cache>>, NEW v \in -2..MaxVersion, Serves(q, v),
             ~Has(r.process) \/ r.pc \notin {"invalidate", "delete"},
             v = KeyError.version \/ OwnSeen(r.process, v)
      PROVE  OwnServed' /\ OwnEntries(q)' /\ OwnLoad(q)'
  <2>1. cacheReq'[q].pc = "idle" /\ served'.version = v /\ served'.process = r.process
    BY <1>0, <1>5, AfterServes
  <2>2. OwnServed'
    <3>1. CASE v = KeyError.version
      BY <1>0, <2>1, <3>1, OwnServedNothing
    <3>2. CASE OwnSeen(r.process, v)
      BY <1>5, <2>1, <3>2 DEF OwnServed, OwnSeen, Version
    <3>3. QED BY <1>5, <3>1, <3>2
  <2>3. \A p \in Processes : Invalidates(q, p) => cache'[p] = NoEntry \/ Invalidates(q, p)'
    BY <1>5 DEF Invalidates, Has
  <2>4. \A p \in Processes : cache'[p] \in {cache[p], NoEntry}
    BY <1>5
  <2>5. OwnEntries(q)'
    BY <1>0, <1>3, <1>5, <2>3, <2>4, OwnEntriesKept
  <2>6. QED BY <2>1, <2>2, <2>5 DEF OwnLoad
<1>6. ASSUME r.pc \notin {"invalidate", "delete"}
      PROVE  \A p \in Processes : ~Invalidates(q, p)
  BY <1>6 DEF Invalidates
<1>7. ASSUME UNCHANGED cache PROVE \A p \in Processes : cache'[p] \in {cache[p], NoEntry}
  BY <1>7
<1>8. ASSUME cache' = [cache EXCEPT ![r.process] = NoEntry]
      PROVE  \A p \in Processes : /\ cache'[p] \in {cache[p], NoEntry}
                                  /\ Invalidates(q, p) => cache'[p] = NoEntry
  BY <1>0, <1>8 DEF Invalidates
<1>9. ASSUME NEW p \in Processes, ReadList(q, p) PROVE OwnServed' /\ OwnEntries(q)' /\ OwnLoad(q)'
  <2>1. PICK step \in {"get", "query"} : CacheGoto(q, [CacheIdle EXCEPT !.process = p, !.pc = step])
    BY <1>9 DEF ReadList
  <2>2. [CacheIdle EXCEPT !.process = p, !.pc = step] \in CacheRequest
        /\ [CacheIdle EXCEPT !.process = p, !.pc = step].pc = step
    BY <1>1 DEF CacheRequest
  <2>3. r.pc = "idle" /\ UNCHANGED <<retired, cache>> /\ served' = NotServed
    BY <1>9 DEF ReadList, CacheAt
  <2>4. QED BY <1>4, <1>6, <1>7, <2>1, <2>2, <2>3
<1>10. ASSUME GetEntry(q) PROVE OwnServed' /\ OwnEntries(q)' /\ OwnLoad(q)'
  <2>0. r.pc = "get" /\ UNCHANGED <<retired, cache>>
    BY <1>10 DEF GetEntry, CacheAt
  <2>1. CASE Serves(q, KeyError.version)
    BY <1>1, <1>5, <2>0, <2>1
  <2>2. CASE Has(r.process) /\ Serves(q, cache[r.process].version)
    <3>1. OwnSeen(r.process, cache[r.process].version)
      BY <1>0, <1>3, <2>0, <2>2 DEF OwnEntries, Invalidates
    <3>2. cache[r.process].version \in -2..MaxVersion
      BY <1>0, <2>2 DEF Entry, Has
    <3>3. QED BY <1>5, <2>0, <2>2, <3>1, <3>2
  <2>3. CASE CacheGoto(q, [r EXCEPT !.pc = "expired"]) /\ served' = NotServed
    <3>1. [r EXCEPT !.pc = "expired"] \in CacheRequest
          /\ [r EXCEPT !.pc = "expired"].pc = "expired"
      BY <1>0, NextRequest
    <3>2. QED BY <1>4, <1>6, <1>7, <2>0, <2>3, <3>1
  <2>4. QED BY <1>10, <2>1, <2>2, <2>3 DEF GetEntry
<1>11. ASSUME DropExpired(q) PROVE OwnServed' /\ OwnEntries(q)' /\ OwnLoad(q)'
  <2>1. [r EXCEPT !.pc = "query"] \in CacheRequest /\ [r EXCEPT !.pc = "query"].pc = "query"
    BY <1>0, NextRequest
  <2>2. r.pc = "expired" /\ UNCHANGED retired
    BY <1>11 DEF DropExpired, CacheAt
  <2>3. CASE Has(r.process)
    <3>1. /\ cache' = [cache EXCEPT ![r.process] = NoEntry] /\ served' = NotServed
          /\ CacheGoto(q, [r EXCEPT !.pc = "query"])
      BY <1>11, <2>3 DEF DropExpired
    <3>2. QED BY <1>4, <1>6, <1>8, <2>1, <2>2, <3>1
  <2>4. CASE ~Has(r.process)
    <3>1. UNCHANGED cache /\ Serves(q, KeyError.version)
      BY <1>11, <2>4 DEF DropExpired
    <3>2. QED BY <1>1, <1>5, <2>2, <3>1
  <2>5. QED BY <2>3, <2>4
<1>12. ASSUME QueryList(q) PROVE OwnServed' /\ OwnEntries(q)' /\ OwnLoad(q)'
  <2>1. r \in CacheRequest /\ Version \in -1..MaxVersion
    BY <1>0
  <2>2. [r EXCEPT !.pc = "set", !.version = Version] \in CacheRequest
        /\ [r EXCEPT !.pc = "set", !.version = Version].version = Version
    BY <2>1, LoadedRequest, Zenon
  <2>3. /\ CacheGoto(q, [r EXCEPT !.pc = "set", !.version = Version]) /\ r.pc = "query"
        /\ UNCHANGED <<retired, cache>> /\ served' = NotServed
    BY <1>12 DEF QueryList, CacheAt
  <2>4. QED BY <1>4, <1>6, <1>7, <2>2, <2>3
<1>13. ASSUME SetCache(q) PROVE OwnServed' /\ OwnEntries(q)' /\ OwnLoad(q)'
  <2>1. PICK entry : entry = [version |-> r.version, time |-> cacheTime]
    OBVIOUS
  <2>2. r.pc = "set" /\ Serves(q, r.version) /\ UNCHANGED retired
        /\ cache' = [cache EXCEPT ![r.process] = entry]
    BY <1>13, <2>1 DEF SetCache, CacheAt
  <2>3. r.version = Version /\ Version \in -2..MaxVersion
    BY <1>0, <1>3, <2>2 DEF OwnLoad
  <2>4. cacheReq'[q].pc = "idle" /\ served'.version = Version /\ Version' = Version
    BY <1>0, <2>2, <2>3, AfterServes DEF Version
  <2>5. OwnServed'
    BY <1>0, <2>4 DEF OwnServed, Outdated
  <2>6. OwnEntries(q)'
    <3>1. SUFFICES ASSUME NEW p \in Processes, Has(p)' PROVE OwnSeen(p, cache[p].version)'
      BY DEF OwnEntries
    <3>2. CASE p = r.process
      <4>1. cache'[p].version = Version
        BY <1>0, <2>1, <2>2, <2>3, <3>2
      <4>2. QED BY <1>0, <2>4, <4>1 DEF OwnSeen
    <3>3. CASE p # r.process
      <4>1. cache'[p] = cache[p]
        BY <1>0, <2>2, <3>3
      <4>2. OwnSeen(p, cache[p].version)
        BY <1>3, <2>2, <3>1, <4>1 DEF OwnEntries, Has, Invalidates
      <4>3. QED BY <2>2, <4>1, <4>2 DEF OwnSeen, Version
    <3>4. QED BY <3>2, <3>3
  <2>7. QED BY <2>4, <2>5, <2>6 DEF OwnLoad
<1>14. ASSUME NEW by \in SUBSET Processes, Replaced(by), UNCHANGED cache, r.pc = "idle",
              cacheReq'[q].pc # "set", \A p \in by : Invalidates(q, p)'
       PROVE  OwnServed' /\ OwnEntries(q)' /\ OwnLoad(q)'
  <2>1. /\ served' = NotServed /\ Version' = Version + 1
        /\ retired'[Version + 1] = [time |-> cacheTime, by |-> by]
        /\ \A v \in 1..Version : retired'[v] = retired[v]
    BY <1>0, <1>14, AfterReplaced
  <2>2. OwnServed'
    BY <1>0, <1>1, <2>1, OwnServedNothing
  <2>3. OwnEntries(q)'
    <3>1. SUFFICES ASSUME NEW p \in Processes, Has(p)', p \notin by
                   PROVE  OwnSeen(p, cache[p].version)'
      BY <1>14 DEF OwnEntries
    <3>2. Has(p) /\ cache[p].version \in Nat
      BY <1>0, <1>14, <3>1 DEF Has, Entry
    <3>3. OwnSeen(p, cache[p].version)
      BY <1>3, <1>14, <3>2 DEF OwnEntries, Invalidates
    <3>4. retired'[Version + 1].by = by
      BY <2>1
    <3>5. ASSUME NEW w \in cache[p].version + 1 .. Version + 1 PROVE p \notin retired'[w].by
      <4>1. CASE w = Version + 1
        BY <3>1, <3>4, <4>1
      <4>2. CASE w # Version + 1
        <5>1. w \in 1..Version /\ w \in cache[p].version + 1 .. Version
          BY <1>0, <3>2, <4>2
        <5>2. QED BY <2>1, <3>3, <5>1 DEF OwnSeen
      <4>3. QED BY <4>1, <4>2
    <3>6. QED BY <1>14, <2>1, <3>5 DEF OwnSeen
  <2>4. QED BY <1>14, <2>2, <2>3 DEF OwnLoad
<1>15. ASSUME NEW p \in Processes, ChangeList(q, p) PROVE OwnServed' /\ OwnEntries(q)' /\ OwnLoad(q)'
  <2>1. [CacheIdle EXCEPT !.process = p, !.pc = "invalidate"] \in CacheRequest
        /\ [CacheIdle EXCEPT !.process = p, !.pc = "invalidate"].pc = "invalidate"
        /\ [CacheIdle EXCEPT !.process = p, !.pc = "invalidate"].process = p
    BY <1>0, CacheStarts
  <2>2. cacheReq'[q].pc = "invalidate" /\ cacheReq'[q].process = p
    BY <1>0, <1>15, <2>1, AfterCacheGoto DEF ChangeList
  <2>3. Replaced({p}) /\ UNCHANGED cache /\ r.pc = "idle"
    BY <1>15 DEF ChangeList, CacheAt
  <2>4. \A o \in {p} : Invalidates(q, o)'
    BY <2>2 DEF Invalidates
  <2>5. {p} \in SUBSET Processes
    OBVIOUS
  <2>6. QED BY <1>14, <2>2, <2>3, <2>4, <2>5
<1>16. ASSUME ChangeCounts(q) PROVE OwnServed' /\ OwnEntries(q)' /\ OwnLoad(q)'
  <2>1. Replaced({}) /\ UNCHANGED <<cache, cacheReq>> /\ r.pc = "idle"
    BY <1>16 DEF ChangeCounts, CacheAt
  <2>2. {} \in SUBSET Processes
    OBVIOUS
  <2>3. QED BY <1>14, <2>1, <2>2
<1>17. ASSUME ClearCache(q) PROVE OwnServed' /\ OwnEntries(q)' /\ OwnLoad(q)'
  <2>1. /\ cache' = [cache EXCEPT ![r.process] = NoEntry] /\ served' = NotServed
        /\ CacheGoto(q, CacheIdle) /\ UNCHANGED retired
    BY <1>17 DEF ClearCache, CacheEnds, Cleared
  <2>2. QED BY <1>1, <1>4, <1>8, <2>1
<1>18. ASSUME CollectKeys(q) PROVE OwnServed' /\ OwnEntries(q)' /\ OwnLoad(q)'
  <2>1. [r EXCEPT !.pc = "delete"] \in CacheRequest /\ [r EXCEPT !.pc = "delete"].pc = "delete"
        /\ [r EXCEPT !.pc = "delete"].process = r.process
    BY <1>0, NextRequest
  <2>2. /\ CacheGoto(q, [r EXCEPT !.pc = "delete"]) /\ served' = NotServed
        /\ UNCHANGED <<retired, cache>>
    BY <1>18 DEF CollectKeys
  <2>3. \A p \in Processes : Invalidates(q, p) => [r EXCEPT !.pc = "delete"].process = p
    BY <2>1 DEF Invalidates
  <2>4. QED BY <1>4, <1>7, <2>1, <2>2, <2>3
<1>19. ASSUME DeleteKeys(q) PROVE OwnServed' /\ OwnEntries(q)' /\ OwnLoad(q)'
  <2>1. CASE Has(r.process)
    <3>1. /\ cache' = [cache EXCEPT ![r.process] = NoEntry] /\ served' = NotServed
          /\ CacheGoto(q, CacheIdle) /\ UNCHANGED retired
      BY <1>19, <2>1 DEF DeleteKeys, CacheEnds, Cleared
    <3>2. QED BY <1>1, <1>4, <1>8, <3>1
  <2>2. CASE ~Has(r.process)
    <3>1. UNCHANGED <<cache, retired>> /\ Serves(q, KeyError.version)
      BY <1>19, <2>2 DEF DeleteKeys
    <3>2. QED BY <1>1, <1>5, <2>2, <3>1
  <2>3. QED BY <2>1, <2>2
<1>20. QED
  BY <1>9, <1>10, <1>11, <1>12, <1>13, <1>15, <1>16, <1>17, <1>18, <1>19 DEF CacheStep

LEMMA OwnTick ==
  ASSUME OwnInv, UNCHANGED workers, CacheTick
  PROVE  OwnInv'
<1>1. CacheTyped /\ CacheTyped' /\ served' = NotServed /\ UNCHANGED <<retired, cache, cacheReq>>
  BY CacheTickTyped DEF OwnInv, CacheTick
<1>2. OwnServed'
  BY <1>1, OwnServedNothing
<1>3. ASSUME NEW q \in workers, OwnEntries(q), OwnLoad(q) PROVE (OwnEntries(q) /\ OwnLoad(q))'
  BY <1>1, <1>3 DEF OwnEntries, OwnLoad, Has, OwnSeen, Version, Invalidates
<1>4. QED BY <1>1, <1>2, <1>3 DEF OwnInv, Serial

\* With one handler at a time, a process never serves a list that one of its
\* own handlers has replaced: between the commit and the invalidation nobody
\* reads, and what a read puts into the cache is the list of now.
THEOREM OwnChangesAreSeen == ListCacheSpec => []OwnWritesSeen
<1>1. ListCacheInit => OwnInv
  <2>1. SUFFICES ASSUME ListCacheInit PROVE OwnInv
    OBVIOUS
  <2>2. CacheTyped
    BY <2>1, CacheInitTyped
  <2>3. /\ cache = [p \in Processes |-> NoEntry] /\ served = NotServed
        /\ cacheReq = [q \in Worker |-> CacheIdle]
    BY <2>1 DEF ListCacheInit
  <2>4. NotServed.version = -1 /\ CacheIdle.pc = "idle" /\ workers \subseteq Worker
    BY <2>2, CacheFacts, CacheIdleType
  <2>5. QED BY <2>2, <2>3, <2>4 DEF OwnInv, OwnServed, Outdated, OwnEntries, OwnLoad, Has
<1>2. ASSUME OwnInv, [ListCacheNext]_cacheVars PROVE OwnInv'
  <2>1. CASE UNCHANGED cacheVars
    <3>1. CacheTyped' /\ UNCHANGED cacheVars
      BY <1>2, <2>1, CacheNextTyped DEF OwnInv
    <3>2. QED BY <1>2, <3>1
      DEF OwnInv, cacheVars, OwnServed, OwnEntries, OwnLoad, Outdated, Version, Has, OwnSeen,
          Invalidates, Serial
  <2>2. CASE UNCHANGED workers /\ CacheTick
    BY <1>2, <2>2, OwnTick
  <2>3. CASE UNCHANGED workers /\ \E q \in workers : CacheStep(q)
    BY <1>2, <2>3, OwnStep
  <2>4. QED BY <1>2, <2>1, <2>2, <2>3 DEF ListCacheNext
<1>3. OwnInv => OwnWritesSeen
  BY DEF OwnInv, OwnWritesSeen, OwnServed, OwnSeen
<1>4. QED BY <1>1, <1>2, <1>3, PTL DEF ListCacheSpec

-----------------------------------------------------------------------------
(* Tags: type correctness *)

\* A handler that is past its first step on an idea's tags has the idea, and one
\* about to link has a tag.
TagWork ==
  {r \in TagRequest : /\ r.pc \in {"clear", "names", "link"} => r.idea \in TaggedIdeas
                      /\ r.pc \in {"idle", "delete"} => r.idea = "none"
                      /\ r.pc = "link" => r.tag \in TagId}
TagsTyped ==
  /\ workers \in WorkerSets /\ TagDeskTypeOK
  /\ tagReq \in [Worker -> TagWork]

LEMMA TagFacts ==
  ASSUME TagsTyped
  PROVE  /\ MaxTagId \in Nat /\ lastTagId \in Nat /\ workers \subseteq Worker
         /\ \A q \in workers : tagReq[q] \in TagWork /\ tagReq[q] \in TagRequest
         /\ \A n \in TagNames : tags[n] \in 0..MaxTagId
         /\ \A i \in TaggedIdeas : links[i] \subseteq TagId /\ asked[i] \subseteq TagNames
BY WorkersCounted, TagDeskAssumption DEF TagsTyped, TagDeskTypeOK, TagWork

LEMMA TagIdleType ==
  ASSUME MaxTagId \in Nat
  PROVE  /\ TagIdle \in TagRequest /\ TagIdle \in TagWork
         /\ TagIdle.pc = "idle" /\ TagIdle.idea = "none" /\ TagIdle.todo = {}
<1>1. (CHOOSE n \in TagNames : TRUE) \in TagNames
  BY TagDeskAssumption
<1>2. QED BY <1>1 DEF TagIdle, TagRequest, TagWork

LEMMA TagGotoType ==
  ASSUME TagsTyped, NEW q \in workers, NEW s, TagGoto(q, s)
  PROVE  /\ tagReq'[q] = s /\ \A p \in workers \ {q} : tagReq'[p] = tagReq[p]
         /\ s \in TagWork => tagReq' \in [Worker -> TagWork] /\ tagReq' \in [Worker -> TagRequest]
BY TagFacts DEF TagsTyped, TagGoto, TagWork

\* The requests that each action makes, with the fields the proofs ask about.
LEMMA ClearRequest ==
  ASSUME MaxTagId \in Nat, NEW r \in TagWork, NEW t, NEW s, s = [r EXCEPT !.gone = @ \ {t}]
  PROVE  s \in TagWork /\ s.pc = r.pc /\ s.idea = r.idea /\ s.todo = r.todo /\ s.gone = r.gone \ {t}
         /\ s.name = r.name
<1>1. s \in TagRequest /\ s.pc = r.pc /\ s.idea = r.idea /\ s.todo = r.todo /\ s.gone = r.gone \ {t}
      /\ s.name = r.name /\ s.tag = r.tag
  BY DEF TagRequest, TagWork
<1>2. QED BY <1>1 DEF TagWork

LEMMA NamesRequest ==
  ASSUME MaxTagId \in Nat, NEW r \in TagWork, r.idea \in TaggedIdeas, NEW s,
         s = [r EXCEPT !.pc = "names"]
  PROVE  s \in TagWork /\ s.pc = "names" /\ s.idea = r.idea /\ s.todo = r.todo
<1>1. s \in TagRequest /\ s.pc = "names" /\ s.idea = r.idea /\ s.todo = r.todo
  BY DEF TagRequest, TagWork
<1>2. QED BY <1>1 DEF TagWork

LEMMA LinkRequest ==
  ASSUME MaxTagId \in Nat, NEW r \in TagWork, r.idea \in TaggedIdeas, NEW t \in TagId, NEW s,
         s = [r EXCEPT !.pc = "link", !.tag = t]
  PROVE  s \in TagWork /\ s.pc = "link" /\ s.idea = r.idea /\ s.todo = r.todo /\ s.name = r.name
         /\ s.tag = t
<1>1. t \in 0..MaxTagId
  BY DEF TagId
<1>2. s \in TagRequest /\ s.pc = "link" /\ s.idea = r.idea /\ s.todo = r.todo /\ s.name = r.name
      /\ s.tag = t
  BY <1>1 DEF TagRequest, TagWork
<1>3. QED BY <1>2 DEF TagWork

LEMMA ManageRequest ==
  ASSUME MaxTagId \in Nat, NEW n \in TagNames, NEW T \in SUBSET TagId
  PROVE  /\ \A s : s = [TagIdle EXCEPT !.pc = "create", !.name = n] =>
              s \in TagWork /\ s.idea = "none"
         /\ \A s : s = [TagIdle EXCEPT !.pc = "delete", !.gone = T] =>
              s \in TagWork /\ s.idea = "none"
<1>1. ASSUME NEW s, s = [TagIdle EXCEPT !.pc = "create", !.name = n]
      PROVE  s \in TagWork /\ s.idea = "none"
  <2>1. s \in TagRequest /\ s.pc = "create" /\ s.idea = "none"
    BY <1>1, TagIdleType DEF TagRequest
  <2>2. QED BY <2>1 DEF TagWork
<1>2. ASSUME NEW s, s = [TagIdle EXCEPT !.pc = "delete", !.gone = T]
      PROVE  s \in TagWork /\ s.idea = "none"
  <2>1. s \in TagRequest /\ s.pc = "delete" /\ s.idea = "none"
    BY <1>2, TagIdleType DEF TagRequest
  <2>2. QED BY <2>1 DEF TagWork
<1>3. QED BY <1>1, <1>2

LEMMA TagStepTyped ==
  ASSUME TagsTyped, NEW q \in workers, TagStep(q)
  PROVE  /\ tags' \in [TagNames -> 0..MaxTagId] /\ lastTagId' \in 0..MaxTagId
         /\ links' \in [TaggedIdeas -> SUBSET TagId]
         /\ asked' \in [TaggedIdeas -> SUBSET TagNames] /\ broken' \subseteq TaggedIdeas
         /\ tagReq' \in [Worker -> TagWork] /\ tagReq' \in [Worker -> TagRequest]
<1> DEFINE r == tagReq[q]
           Tables == /\ tags' \in [TagNames -> 0..MaxTagId] /\ lastTagId' \in 0..MaxTagId
                     /\ links' \in [TaggedIdeas -> SUBSET TagId]
                     /\ asked' \in [TaggedIdeas -> SUBSET TagNames] /\ broken' \subseteq TaggedIdeas
<1>1. /\ MaxTagId \in Nat /\ lastTagId \in Nat /\ r \in TagWork /\ r \in TagRequest
      /\ TagIdle \in TagWork
      /\ \A n \in TagNames : tags[n] \in 0..MaxTagId
      /\ \A i \in TaggedIdeas : links[i] \subseteq TagId
  BY TagFacts, TagIdleType
<1>2. /\ tags \in [TagNames -> 0..MaxTagId] /\ lastTagId \in 0..MaxTagId
      /\ links \in [TaggedIdeas -> SUBSET TagId]
      /\ asked \in [TaggedIdeas -> SUBSET TagNames] /\ broken \subseteq TaggedIdeas
  BY DEF TagsTyped, TagDeskTypeOK
<1>3. ASSUME NEW s \in TagWork, TagGoto(q, s), Tables
      PROVE  Tables /\ tagReq' \in [Worker -> TagWork] /\ tagReq' \in [Worker -> TagRequest]
  BY <1>3, TagGotoType
<1>4. UNCHANGED <<tags, lastTagId, links, asked, broken>> => Tables
  BY <1>2
<1>5. ASSUME NEW i \in TaggedIdeas, NEW names \in SUBSET TagNames, SyncTags(q, i, names)
      PROVE  Tables /\ tagReq' \in [Worker -> TagWork] /\ tagReq' \in [Worker -> TagRequest]
  <2>1. Tables
    BY <1>2, <1>5 DEF SyncTags
  <2>2. PICK T \in SUBSET TagId : T = links[i]
    BY <1>1
  <2>3. PICK s : s = [TagIdle EXCEPT !.pc = "clear", !.idea = i, !.todo = names, !.gone = T]
    OBVIOUS
  <2>4. s \in TagWork
    <3>1. s \in TagRequest /\ s.pc = "clear" /\ s.idea = i
      BY <1>1, <2>3, TagIdleType DEF TagRequest
    <3>2. QED BY <3>1 DEF TagWork
  <2>5. QED BY <1>3, <1>5, <2>1, <2>2, <2>3, <2>4 DEF SyncTags, ToRemove
<1>6. ASSUME NEW t \in TagId, UnlinkOne(q, t)
      PROVE  Tables /\ tagReq' \in [Worker -> TagWork] /\ tagReq' \in [Worker -> TagRequest]
  <2>1. Tables
    BY <1>1, <1>2, <1>6 DEF UnlinkOne, TagAt, TagWork
  <2>2. QED BY <1>1, <1>3, <1>6, <2>1, ClearRequest DEF UnlinkOne
<1>7. ASSUME AllUnlinked(q)
      PROVE  Tables /\ tagReq' \in [Worker -> TagWork] /\ tagReq' \in [Worker -> TagRequest]
  <2>1. r.idea \in TaggedIdeas
    BY <1>1, <1>7 DEF AllUnlinked, TagAt, TagWork
  <2>2. QED BY <1>1, <1>3, <1>4, <1>7, <2>1, NamesRequest DEF AllUnlinked
<1>8. ASSUME NEW n \in TagNames, TakeName(q, n)
      PROVE  Tables /\ tagReq' \in [Worker -> TagWork] /\ tagReq' \in [Worker -> TagRequest]
  <2>1. r.idea \in TaggedIdeas /\ tags[n] \in 0..MaxTagId
    BY <1>1, <1>8 DEF TakeName, TagAt, TagWork
  <2>2. PICK t \in 0..MaxTagId : t = tags[n]
    BY <2>1
  <2>3. PICK s : s = [r EXCEPT !.todo = @ \ {n}, !.name = n, !.tag = t,
                               !.pc = IF t = 0 THEN "create" ELSE "link"]
    OBVIOUS
  <2>4. s \in TagWork
    <3>1. s \in TagRequest /\ s.pc = (IF t = 0 THEN "create" ELSE "link") /\ s.idea = r.idea
          /\ s.tag = t
      BY <1>1, <2>3 DEF TagRequest
    <3>2. s.pc = "link" => t \in TagId
      BY <3>1 DEF TagId
    <3>3. s.pc \in {"create", "link"}
      BY <3>1
    <3>4. QED BY <2>1, <3>1, <3>2, <3>3 DEF TagWork
  <2>5. TagGoto(q, s) /\ UNCHANGED <<tags, lastTagId, links, asked, broken>>
    BY <1>8, <2>2, <2>3 DEF TakeName
  <2>6. QED BY <1>3, <1>4, <2>4, <2>5
<1>9. ASSUME TagCreated(q)
      PROVE  Tables /\ tagReq' \in [Worker -> TagWork] /\ tagReq' \in [Worker -> TagRequest]
  <2>1. lastTagId + 1 \in TagId /\ lastTagId + 1 \in 0..MaxTagId
    BY <1>1, <1>9 DEF TagCreated, TagId
  <2>2. Tables
    BY <1>2, <1>9, <2>1 DEF TagCreated
  <2>3. CASE r.idea = "none"
    BY <1>1, <1>3, <1>9, <2>2, <2>3 DEF TagCreated
  <2>4. CASE r.idea # "none"
    <3>1. r.idea \in TaggedIdeas
      BY <1>1, <2>4 DEF TagRequest
    <3>2. QED BY <1>1, <1>3, <1>9, <2>1, <2>2, <2>4, <3>1, LinkRequest DEF TagCreated
  <2>5. QED BY <2>3, <2>4
<1>10. ASSUME LinkTag(q)
       PROVE  Tables /\ tagReq' \in [Worker -> TagWork] /\ tagReq' \in [Worker -> TagRequest]
  <2>1. r.idea \in TaggedIdeas /\ r.tag \in TagId
    BY <1>1, <1>10 DEF LinkTag, TagAt, TagWork
  <2>2. Tables
    BY <1>1, <1>2, <1>10, <2>1 DEF LinkTag
  <2>3. QED BY <1>1, <1>3, <1>10, <2>1, <2>2, NamesRequest DEF LinkTag
<1>11. ASSUME TagsSynced(q)
       PROVE  Tables /\ tagReq' \in [Worker -> TagWork] /\ tagReq' \in [Worker -> TagRequest]
  BY <1>1, <1>3, <1>4, <1>11 DEF TagsSynced, TagEnds
<1>12. ASSUME NEW n \in TagNames, CreateTag(q, n)
       PROVE  Tables /\ tagReq' \in [Worker -> TagWork] /\ tagReq' \in [Worker -> TagRequest]
  BY <1>1, <1>3, <1>4, <1>12, ManageRequest DEF CreateTag
<1>13. ASSUME NEW T \in SUBSET TagId, DeleteTags(q, T)
       PROVE  Tables /\ tagReq' \in [Worker -> TagWork] /\ tagReq' \in [Worker -> TagRequest]
  <2>1. (CHOOSE n \in TagNames : TRUE) \in TagNames
    BY TagDeskAssumption
  <2>2. [TagIdle EXCEPT !.pc = "delete", !.gone = T] \in TagWork
    BY <1>1, <2>1, ManageRequest
  <2>3. QED BY <1>3, <1>4, <1>13, <2>2 DEF DeleteTags
<1>14. ASSUME NEW t \in TagId, DeleteOne(q, t)
       PROVE  Tables /\ tagReq' \in [Worker -> TagWork] /\ tagReq' \in [Worker -> TagRequest]
  <2>1. Tables
    BY <1>1, <1>2, <1>14 DEF DeleteOne
  <2>2. CASE r.gone = {t}
    BY <1>1, <1>3, <1>14, <2>1, <2>2 DEF DeleteOne
  <2>3. CASE r.gone # {t}
    BY <1>1, <1>3, <1>14, <2>1, <2>3, ClearRequest DEF DeleteOne
  <2>4. QED BY <2>2, <2>3
<1>15. ASSUME TagFails(q)
       PROVE  Tables /\ tagReq' \in [Worker -> TagWork] /\ tagReq' \in [Worker -> TagRequest]
  <2>1. Tables
    BY <1>2, <1>15 DEF TagFails
  <2>2. QED BY <1>1, <1>3, <1>15, <2>1 DEF TagFails, TagEnds
<1>16. QED
  BY <1>5, <1>6, <1>7, <1>8, <1>9, <1>10, <1>11, <1>12, <1>13, <1>14, <1>15
     DEF TagStep, DeleteTag, DeleteUnusedTags

LEMMA TagsNextTyped ==
  ASSUME TagsTyped, [TagDeskNext]_tagVars PROVE TagsTyped'
<1>1. CASE UNCHANGED tagVars
  BY <1>1 DEF tagVars, TagsTyped, TagDeskTypeOK
<1>2. CASE TagDeskNext
  BY <1>2, TagStepTyped DEF TagDeskNext, TagsTyped, TagDeskTypeOK
<1>3. QED BY <1>1, <1>2

LEMMA TagsInitTyped ==
  ASSUME TagDeskInit PROVE TagsTyped
<1>1. MaxTagId \in Nat
  BY TagDeskAssumption
<1>2. tagReq \in [Worker -> TagWork] /\ tagReq \in [Worker -> TagRequest]
  BY <1>1, TagIdleType DEF TagDeskInit
<1>3. QED BY <1>1, <1>2 DEF TagDeskInit, WorkersInit, TagsTyped, TagDeskTypeOK

\* A name has one tag, and only ids that were given are on ideas.
THEOREM TagsTypeCorrect == TagDeskSpec => []TagDeskTypeOK
<1>1. TagDeskSpec => []TagsTyped
  BY TagsInitTyped, TagsNextTyped, PTL DEF TagDeskSpec
<1>2. TagsTyped => TagDeskTypeOK
  BY DEF TagsTyped
<1>3. QED BY <1>1, <1>2, PTL

-----------------------------------------------------------------------------
(* Tags: an idea has the ones asked for *)

Settled(i) == links[i] = {tags[n] : n \in asked[i]}
\* The names asked for that a handler has put on its idea.
Placed(r) == asked[r.idea] \ (r.todo \cup (IF r.pc \in {"create", "link"} THEN {r.name} ELSE {}))
\* How far the only handler is with its idea.
Carried(r) ==
  /\ r.pc = "clear" => r.todo = asked[r.idea] /\ links[r.idea] = r.gone
  /\ r.pc # "clear" => r.todo \subseteq asked[r.idea]
                       /\ links[r.idea] = {tags[n] : n \in Placed(r)}
  /\ r.pc \in {"create", "link"} => r.name \in asked[r.idea] \ r.todo
  /\ r.pc = "link" => r.tag = tags[r.name]
TagsInv ==
  Serial => \A q \in workers :
    /\ \A i \in TaggedIdeas \ broken : i # tagReq[q].idea => Settled(i)
    /\ tagReq[q].idea \in TaggedIdeas => Carried(tagReq[q])

LEMMA TagsAfter ==
  ASSUME TagsTyped, Serial, NEW q \in workers, NEW s, TagGoto(q, s), UNCHANGED workers,
         \A i \in TaggedIdeas \ broken' : i # s.idea => links'[i] = {tags'[n] : n \in asked'[i]},
         s.idea \in TaggedIdeas => Carried(s)'
  PROVE  TagsInv'
<1>1. ASSUME NEW p \in workers' PROVE tagReq'[p] = s
  BY Alone, TagGotoType DEF TagsTyped
<1>2. QED BY <1>1 DEF TagsInv, Settled, Carried, Placed

\* Names that keep their tag keep an idea settled.
LEMMA SettledKept ==
  ASSUME NEW i, Settled(i), UNCHANGED <<links, asked>>, \A n \in asked[i] : tags'[n] = tags[n]
  PROVE  links'[i] = {tags'[n] : n \in asked'[i]}
BY DEF Settled

LEMMA TagsStep ==
  ASSUME TagsTyped, TagsInv, Serial, NEW q \in workers, TagStep(q), UNCHANGED workers
  PROVE  TagsInv'
<1> DEFINE r == tagReq[q]
<1>1. /\ MaxTagId \in Nat /\ r \in TagWork /\ r \in TagRequest
      /\ TagIdle.idea = "none" /\ "none" \notin TaggedIdeas /\ TagIdle \in TagRequest
      /\ \A i \in TaggedIdeas : links[i] \subseteq TagId /\ asked[i] \subseteq TagNames
  BY TagFacts, TagIdleType, TagDeskAssumption
<1>2. \A i \in TaggedIdeas \ broken : i # r.idea => Settled(i)
  BY DEF TagsInv
<1>3. r.idea \in TaggedIdeas => Carried(r)
  BY DEF TagsInv
<1>4. /\ tags \in [TagNames -> 0..MaxTagId] /\ links \in [TaggedIdeas -> SUBSET TagId]
      /\ asked \in [TaggedIdeas -> SUBSET TagNames]
  BY DEF TagsTyped, TagDeskTypeOK
<1>5. ASSUME UNCHANGED <<tags, links, asked, broken>>
      PROVE  \A i \in TaggedIdeas \ broken' : i # r.idea => links'[i] = {tags'[n] : n \in asked'[i]}
  BY <1>2, <1>5 DEF Settled
<1>6. ASSUME NEW i \in TaggedIdeas, NEW names \in SUBSET TagNames, SyncTags(q, i, names)
      PROVE  TagsInv'
  <2>1. PICK s : s = [TagIdle EXCEPT !.pc = "clear", !.idea = i, !.todo = names, !.gone = links[i]]
    OBVIOUS
  <2>2. s.pc = "clear" /\ s.idea = i /\ s.todo = names /\ s.gone = links[i]
    BY <1>1, <2>1 DEF TagRequest
  <2>3. /\ TagGoto(q, s) /\ r.pc = "idle" /\ UNCHANGED <<tags, links>>
        /\ asked' = [asked EXCEPT ![i] = names] /\ broken' = broken \ {i}
    BY <1>6, <2>1 DEF SyncTags, ToRemove, TagAt
  <2>4. r.idea = "none"
    BY <1>1, <2>3 DEF TagWork
  <2>5. ASSUME NEW j \in TaggedIdeas \ broken', j # s.idea
        PROVE  links'[j] = {tags'[n] : n \in asked'[j]}
    BY <1>1, <1>2, <1>4, <2>2, <2>3, <2>4, <2>5 DEF Settled
  <2>6. asked'[i] = names
    BY <1>4, <2>3
  <2>7. Carried(s)'
    BY <2>2, <2>3, <2>6 DEF Carried
  <2>8. QED BY <2>3, <2>5, <2>7, TagsAfter
<1>7. ASSUME NEW t \in TagId, UnlinkOne(q, t) PROVE TagsInv'
  <2>1. PICK s : s = [r EXCEPT !.gone = @ \ {t}]
    OBVIOUS
  <2>2. /\ TagGoto(q, s) /\ r.pc = "clear" /\ UNCHANGED <<tags, asked, broken>>
        /\ links' = [links EXCEPT ![r.idea] = @ \ {t}]
    BY <1>7, <2>1 DEF UnlinkOne, TagAt
  <2>3. s.pc = "clear" /\ s.idea = r.idea /\ s.todo = r.todo /\ s.gone = r.gone \ {t}
    BY <1>1, <2>1, <2>2 DEF TagRequest
  <2>4. r.idea \in TaggedIdeas
    BY <1>1, <2>2 DEF TagWork
  <2>5. Carried(s)'
    BY <1>3, <1>4, <2>2, <2>3, <2>4 DEF Carried
  <2>6. \A j \in TaggedIdeas \ broken' : j # s.idea => links'[j] = {tags'[n] : n \in asked'[j]}
    BY <1>2, <1>4, <2>2, <2>3 DEF Settled
  <2>7. QED BY <2>2, <2>5, <2>6, TagsAfter
<1>8. ASSUME AllUnlinked(q) PROVE TagsInv'
  <2>1. PICK s : s = [r EXCEPT !.pc = "names"]
    OBVIOUS
  <2>2. /\ TagGoto(q, s) /\ r.pc = "clear" /\ r.gone = {} /\ UNCHANGED <<tags, links, asked, broken>>
    BY <1>8, <2>1 DEF AllUnlinked, TagAt
  <2>3. s.pc = "names" /\ s.idea = r.idea /\ s.todo = r.todo
    BY <1>1, <2>1 DEF TagRequest
  <2>4. r.idea \in TaggedIdeas
    BY <1>1, <2>2 DEF TagWork
  <2>5. Carried(s)'
    BY <1>3, <2>2, <2>3, <2>4 DEF Carried, Placed
  <2>6. QED BY <1>5, <2>2, <2>3, <2>5, TagsAfter
<1>9. ASSUME NEW n \in TagNames, TakeName(q, n) PROVE TagsInv'
  <2>1. PICK s : s = [r EXCEPT !.todo = @ \ {n}, !.name = n, !.tag = tags[n],
                               !.pc = IF tags[n] = 0 THEN "create" ELSE "link"]
    OBVIOUS
  <2>2. /\ TagGoto(q, s) /\ r.pc = "names" /\ n \in r.todo /\ UNCHANGED <<tags, links, asked, broken>>
    BY <1>9, <2>1 DEF TakeName, TagAt
  <2>3. /\ s.pc \in {"create", "link"} /\ s.idea = r.idea /\ s.todo = r.todo \ {n} /\ s.name = n
        /\ s.tag = tags[n]
    BY <1>1, <2>1 DEF TagRequest
  <2>4. r.idea \in TaggedIdeas
    BY <1>1, <2>2 DEF TagWork
  <2>5. Carried(s)'
    <3>1. r.todo \subseteq asked[r.idea] /\ links[r.idea] = {tags[m] : m \in Placed(r)}
      BY <1>3, <2>2, <2>4 DEF Carried
    <3>2. asked'[s.idea] \ (s.todo \cup {s.name}) = Placed(r)
      BY <2>2, <2>3 DEF Placed
    <3>3. Placed(s)' = Placed(r)
      BY <2>3, <3>2 DEF Placed
    <3>4. QED BY <2>2, <2>3, <3>1, <3>3 DEF Carried
  <2>6. QED BY <1>5, <2>2, <2>3, <2>5, TagsAfter
<1>10. ASSUME TagCreated(q) PROVE TagsInv'
  <2>1. PICK s : s = IF r.idea = "none" THEN TagIdle
                     ELSE [r EXCEPT !.pc = "link", !.tag = lastTagId + 1]
    OBVIOUS
  <2>2. /\ TagGoto(q, s) /\ r.pc = "create" /\ tags[r.name] = 0 /\ UNCHANGED <<links, asked, broken>>
        /\ tags' = [tags EXCEPT ![r.name] = lastTagId + 1]
    BY <1>10, <2>1 DEF TagCreated, TagAt
  <2>3. s.idea = r.idea /\ (r.idea # "none" => /\ s.pc = "link" /\ s.todo = r.todo /\ s.name = r.name
                                               /\ s.tag = lastTagId + 1)
    BY <1>1, <2>1 DEF TagRequest
  <2>4. \A n \in TagNames : n # r.name => tags'[n] = tags[n]
    BY <1>4, <2>2
  <2>5. tags'[r.name] = lastTagId + 1
    BY <1>1, <1>4, <2>2 DEF TagRequest
  <2>6. ASSUME NEW j \in TaggedIdeas \ broken', j # s.idea
        PROVE  links'[j] = {tags'[n] : n \in asked'[j]}
    <3>1. Settled(j)
      BY <1>2, <2>2, <2>3, <2>6
    <3>2. r.name \notin asked[j]
      <4>1. 0 \notin links[j]
        BY <1>1 DEF TagId
      <4>2. QED BY <2>2, <3>1, <4>1 DEF Settled
    <3>3. \A n \in asked[j] : tags'[n] = tags[n]
      BY <1>1, <2>4, <3>2
    <3>4. QED BY <2>2, <3>1, <3>3, SettledKept
  <2>7. ASSUME s.idea \in TaggedIdeas PROVE Carried(s)'
    <3>1. /\ r.todo \subseteq asked[r.idea] /\ links[r.idea] = {tags[n] : n \in Placed(r)}
          /\ r.name \in asked[r.idea] \ r.todo
      BY <1>3, <2>2, <2>3, <2>7 DEF Carried
    <3>2. s.pc = "link" /\ s.todo = r.todo /\ s.name = r.name /\ s.tag = lastTagId + 1
      BY <1>1, <2>3, <2>7
    <3>3. asked[r.idea] \ (r.todo \cup {r.name}) = Placed(r)
      BY <2>2 DEF Placed
    <3>4. asked'[s.idea] \ (s.todo \cup {s.name}) = Placed(r)
      BY <2>2, <2>3, <3>2, <3>3
    <3>5. Placed(s)' = Placed(r)
      BY <3>2, <3>4 DEF Placed
    <3>6. \A n \in Placed(r) : tags'[n] = tags[n]
      BY <1>1, <2>3, <2>4, <2>7, <3>3
    <3>7. links'[s.idea] = {tags'[n] : n \in Placed(s)'}
      BY <2>2, <2>3, <3>1, <3>5, <3>6
    <3>8. QED BY <2>2, <2>3, <2>5, <3>1, <3>2, <3>7 DEF Carried
  <2>8. QED BY <2>2, <2>6, <2>7, TagsAfter
<1>11. ASSUME LinkTag(q) PROVE TagsInv'
  <2>1. PICK s : s = [r EXCEPT !.pc = "names"]
    OBVIOUS
  <2>2. /\ TagGoto(q, s) /\ r.pc = "link" /\ UNCHANGED <<tags, asked, broken>>
        /\ links' = [links EXCEPT ![r.idea] = @ \cup {r.tag}]
    BY <1>11, <2>1 DEF LinkTag, TagAt
  <2>3. s.pc = "names" /\ s.idea = r.idea /\ s.todo = r.todo
    BY <1>1, <2>1 DEF TagRequest
  <2>4. r.idea \in TaggedIdeas
    BY <1>1, <2>2 DEF TagWork
  <2>5. Carried(s)'
    <3>1. /\ r.todo \subseteq asked[r.idea] /\ links[r.idea] = {tags[n] : n \in Placed(r)}
          /\ r.name \in asked[r.idea] \ r.todo /\ r.tag = tags[r.name]
      BY <1>3, <2>2, <2>4 DEF Carried
    <3>2. asked'[s.idea] \ s.todo = Placed(r) \cup {r.name}
      BY <2>2, <2>3, <3>1 DEF Placed
    <3>3. Placed(s)' = Placed(r) \cup {r.name}
      BY <2>3, <3>2 DEF Placed
    <3>4. links'[r.idea] = links[r.idea] \cup {r.tag}
      BY <1>4, <2>2, <2>4
    <3>5. links'[s.idea] = {tags'[n] : n \in Placed(s)'}
      BY <2>2, <2>3, <3>1, <3>3, <3>4
    <3>6. QED BY <2>2, <2>3, <3>1, <3>5 DEF Carried
  <2>6. \A j \in TaggedIdeas \ broken' : j # s.idea => links'[j] = {tags'[n] : n \in asked'[j]}
    BY <1>2, <1>4, <2>2, <2>3 DEF Settled
  <2>7. QED BY <2>2, <2>5, <2>6, TagsAfter
<1>12. ASSUME TagsSynced(q) PROVE TagsInv'
  <2>1. /\ TagGoto(q, TagIdle) /\ r.pc = "names" /\ r.todo = {}
        /\ UNCHANGED <<tags, links, asked, broken>>
    BY <1>12 DEF TagsSynced, TagEnds, TagAt
  <2>2. ASSUME NEW j \in TaggedIdeas \ broken' PROVE links'[j] = {tags'[n] : n \in asked'[j]}
    <3>1. CASE j = r.idea
      <4>1. links[j] = {tags[n] : n \in Placed(r)}
        BY <1>3, <2>1, <3>1 DEF Carried
      <4>2. Placed(r) = asked[j]
        BY <2>1, <3>1 DEF Placed
      <4>3. QED BY <2>1, <4>1, <4>2
    <3>2. CASE j # r.idea
      BY <1>5, <2>1, <3>2
    <3>3. QED BY <3>1, <3>2
  <2>3. QED BY <1>1, <2>1, <2>2, TagsAfter
<1>13. ASSUME NEW s, r.pc = "idle", TagGoto(q, s), s.idea = "none",
              UNCHANGED <<tags, links, asked, broken>>
       PROVE  TagsInv'
  <2>1. r.idea = "none"
    BY <1>1, <1>13 DEF TagWork
  <2>2. QED BY <1>1, <1>5, <1>13, <2>1, TagsAfter
<1>14. ASSUME NEW n \in TagNames, CreateTag(q, n) PROVE TagsInv'
  <2>1. PICK s : s = [TagIdle EXCEPT !.pc = "create", !.name = n]
    OBVIOUS
  <2>2. s.idea = "none"
    BY <1>1, <2>1 DEF TagRequest
  <2>3. QED BY <1>13, <1>14, <2>1, <2>2 DEF CreateTag, TagAt
<1>15. ASSUME NEW T, DeleteTags(q, T) PROVE TagsInv'
  <2>1. PICK s : s = [TagIdle EXCEPT !.pc = "delete", !.gone = T]
    OBVIOUS
  <2>2. s.idea = "none"
    BY <1>1, <2>1 DEF TagRequest
  <2>3. QED BY <1>13, <1>15, <2>1, <2>2 DEF DeleteTags, TagAt
<1>16. ASSUME NEW t \in TagId, DeleteOne(q, t) PROVE TagsInv'
  <2>1. PICK s : s = IF r.gone = {t} THEN TagIdle ELSE [r EXCEPT !.gone = @ \ {t}]
    OBVIOUS
  <2>2. /\ TagGoto(q, s) /\ r.pc = "delete" /\ ~InUse(t) /\ UNCHANGED <<links, asked, broken>>
        /\ tags' = [n \in TagNames |-> IF tags[n] = t THEN 0 ELSE tags[n]]
    BY <1>16, <2>1 DEF DeleteOne, TagAt
  <2>3. r.idea = "none" /\ s.idea = "none"
    BY <1>1, <2>1, <2>2 DEF TagWork, TagRequest
  <2>4. ASSUME NEW j \in TaggedIdeas \ broken' PROVE links'[j] = {tags'[n] : n \in asked'[j]}
    <3>1. Settled(j) /\ t \notin links[j]
      BY <1>1, <1>2, <2>2, <2>3 DEF InUse
    <3>2. \A n \in asked[j] : tags'[n] = tags[n]
      BY <1>1, <2>2, <3>1 DEF Settled
    <3>3. QED BY <2>2, <3>1, <3>2, SettledKept
  <2>5. QED BY <1>1, <2>2, <2>3, <2>4, TagsAfter
<1>17. ASSUME TagFails(q) PROVE TagsInv'
  <2>1. /\ TagGoto(q, TagIdle) /\ UNCHANGED <<tags, links, asked>>
        /\ broken' = broken \cup ({r.idea} \cap TaggedIdeas)
    BY <1>17 DEF TagFails, TagEnds
  <2>2. \A j \in TaggedIdeas \ broken' : links'[j] = {tags'[n] : n \in asked'[j]}
    BY <1>2, <2>1 DEF Settled
  <2>3. QED BY <1>1, <2>1, <2>2, TagsAfter
<1>18. QED
  BY <1>6, <1>7, <1>8, <1>9, <1>10, <1>11, <1>12, <1>14, <1>15, <1>16, <1>17
     DEF TagStep, DeleteTag, DeleteUnusedTags

LEMMA TagsNext ==
  ASSUME TagsTyped, TagsInv, [TagDeskNext]_tagVars PROVE TagsInv'
<1>1. CASE UNCHANGED tagVars
  BY <1>1 DEF tagVars, TagsInv, Settled, Carried, Placed, Serial
<1>2. CASE TagDeskNext
  <2>1. CASE Serial
    BY <1>2, <2>1, TagsStep DEF TagDeskNext
  <2>2. CASE ~Serial
    BY <1>2, <2>2 DEF TagDeskNext, TagsInv, Serial
  <2>3. QED BY <2>1, <2>2
<1>3. QED BY <1>1, <1>2

LEMMA TagsInit ==
  ASSUME TagDeskInit PROVE TagsInv
<1>1. \A q \in workers : tagReq[q].idea = "none"
  BY WorkersCounted, TagIdleType, TagDeskAssumption DEF TagDeskInit, WorkersInit
<1>2. \A i \in TaggedIdeas : Settled(i)
  BY DEF TagDeskInit, Settled
<1>3. QED BY <1>1, <1>2, TagDeskAssumption DEF TagsInv

\* With one handler at a time, sync_idea_tags leaves an idea with the tags that
\* were asked for, each under its name's own id, whatever tags are created and
\* deleted meanwhile, unless it failed on the way.
THEOREM TagsAreAsAsked == TagDeskSpec => []TagsAsAsked
<1>1. TagDeskInit => TagsTyped /\ TagsInv
  BY TagsInitTyped, TagsInit
<1>2. TagsTyped /\ TagsInv /\ [TagDeskNext]_tagVars => TagsTyped' /\ TagsInv'
  BY TagsNextTyped, TagsNext
<1>3. TagsTyped /\ TagsInv => TagsAsAsked
  <2>1. ASSUME TagsTyped, TagsInv, Serial, NEW i \in TaggedIdeas \ broken,
               \A q \in workers : tagReq[q].idea # i
        PROVE  links[i] = {tags[n] : n \in asked[i]} /\ 0 \notin links[i]
    <3>1. PICK q \in workers : TRUE
      BY <2>1, WorkersCounted, FS_EmptySet DEF TagsTyped
    <3>2. Settled(i)
      BY <2>1, <3>1 DEF TagsInv
    <3>3. 0 \notin links[i]
      BY <2>1, TagFacts DEF TagId
    <3>4. QED BY <3>2, <3>3 DEF Settled
  <2>2. QED BY <2>1 DEF TagsAsAsked
<1>4. QED BY <1>1, <1>2, <1>3, PTL DEF TagDeskSpec

-----------------------------------------------------------------------------
(* The search index: type correctness *)

\* A handler that changes one idea has that one, and the text of none until it
\* has loaded it.
SearchWork ==
  {r \in SearchRequest :
     /\ r.pc \in {"edit", "load", "tags", "remove", "delete", "restore"} \/ r.text # 0 =>
          \E i \in SearchedIdeas : r.ideas = {i}
     /\ r.pc = "tags" => r.text # 0}
SearchTyped ==
  /\ workers \in WorkerSets /\ SearchIndexTypeOK
  /\ searchReq \in [Worker -> SearchWork]
  /\ \A i \in SearchedIdeas : Stored(i) => searchIdeas[i].text # 0

LEMMA SearchNumbers == MaxText \in Nat /\ MaxTagging \in Nat
BY SearchIndexAssumption

LEMMA SearchFacts ==
  ASSUME SearchTyped
  PROVE  /\ workers \subseteq Worker
         /\ \A q \in workers : searchReq[q] \in SearchWork /\ searchReq[q] \in SearchRequest
         /\ \A i \in SearchedIdeas :
              /\ searchIdeas[i] \in SearchRow /\ index[i] \in IndexEntry \cup {NoIndexEntry}
              /\ searchIdeas[i].text \in 0..MaxText /\ searchIdeas[i].tags \in 0..MaxTagging
              /\ Stored(i) => searchIdeas[i].text # 0
<1>1. \A i \in SearchedIdeas : searchIdeas[i] \in SearchRow
  BY DEF SearchTyped, SearchIndexTypeOK
<1>2. \A i \in SearchedIdeas : searchIdeas[i].text \in 0..MaxText
                               /\ searchIdeas[i].tags \in 0..MaxTagging
  BY <1>1 DEF SearchRow
<1>3. QED BY <1>1, <1>2, WorkersCounted DEF SearchTyped, SearchIndexTypeOK, SearchWork

LEMMA SearchIdleType ==
  SearchIdle \in SearchRequest /\ SearchIdle \in SearchWork /\ SearchIdle.pc = "idle"
  /\ SearchIdle.text = 0 /\ SearchIdle.ideas = {}
<1>1. SearchIdle \in SearchRequest /\ SearchIdle.pc = "idle" /\ SearchIdle.text = 0
      /\ SearchIdle.ideas = {}
  BY SearchNumbers DEF SearchIdle, SearchRequest
<1>2. QED BY <1>1 DEF SearchWork

LEMMA SearchGotoType ==
  ASSUME SearchTyped, NEW q \in workers, NEW s, SearchGoto(q, s)
  PROVE  /\ searchReq'[q] = s /\ \A p \in workers \ {q} : searchReq'[p] = searchReq[p]
         /\ s \in SearchWork => searchReq' \in [Worker -> SearchWork]
BY SearchFacts DEF SearchTyped, SearchGoto

\* The idea of a handler that has one.
LEMMA OneIdea ==
  ASSUME NEW q, NEW i \in SearchedIdeas, searchReq[q].ideas = {i}
  PROVE  IdeaOf(q) = i
BY DEF IdeaOf

LEMMA IdeaInHand ==
  ASSUME SearchTyped, NEW q \in workers,
         searchReq[q].pc \in {"edit", "load", "tags", "remove", "delete", "restore"}
  PROVE  IdeaOf(q) \in SearchedIdeas /\ searchReq[q].ideas = {IdeaOf(q)}
<1>1. PICK i \in SearchedIdeas : searchReq[q].ideas = {i}
  BY SearchFacts DEF SearchWork
<1>2. QED BY <1>1, OneIdea

\* The request of a handler that goes on.
LEMMA NowType ==
  ASSUME NEW r \in SearchWork, r.pc \in {"edit", "remove", "restore"}, NEW step \in {"load", "delete"},
         NEW s, s = [r EXCEPT !.pc = step]
  PROVE  s \in SearchWork /\ s.pc = step /\ s.ideas = r.ideas
<1>1. s \in SearchRequest /\ s.pc = step /\ s.ideas = r.ideas /\ s.text = r.text
  BY DEF SearchRequest, SearchWork
<1>2. QED BY <1>1 DEF SearchWork

LEMMA TaggedType ==
  ASSUME NEW r \in SearchWork, r.pc = "tags"
  PROVE  AfterTags(r) \in SearchWork /\ AfterTags(r).pc = "load" /\ AfterTags(r).ideas = r.ideas
<1>1. PICK s : s = [r EXCEPT !.pc = "load", !.tagged = FALSE]
  OBVIOUS
<1>2. s \in SearchRequest /\ s.pc = "load" /\ s.ideas = r.ideas
  BY <1>1 DEF SearchRequest, SearchWork
<1>3. s \in SearchWork
  BY <1>2 DEF SearchWork
<1>4. QED BY <1>1, <1>2, <1>3 DEF AfterTags

LEMMA ReadType ==
  ASSUME NEW r \in SearchWork, r.pc = "index", NEW seen \in [SearchedIdeas -> 0..MaxTagging],
         NEW s, s = [r EXCEPT !.pc = "write", !.tags = seen]
  PROVE  s \in SearchWork /\ s.pc = "write" /\ s.ideas = r.ideas /\ s.text = r.text /\ s.tags = seen
<1>1. s \in SearchRequest /\ s.pc = "write" /\ s.ideas = r.ideas /\ s.text = r.text /\ s.tags = seen
  BY DEF SearchRequest, SearchWork
<1>2. QED BY <1>1 DEF SearchWork

\* What a write of one row does.
LEMMA WritesType ==
  ASSUME SearchTyped, NEW i \in SearchedIdeas, NEW row \in SearchRow, Writes(i, row)
  PROVE  /\ searchIdeas' \in [SearchedIdeas -> SearchRow] /\ searchIdeas'[i] = row
         /\ \A j \in SearchedIdeas \ {i} : searchIdeas'[j] = searchIdeas[j]
BY DEF SearchTyped, SearchIndexTypeOK, Writes

LEMMA TriggeredType ==
  ASSUME SearchTyped, NEW i \in SearchedIdeas, NEW row \in SearchRow, NEW b, Triggered(i, row, b)
  PROVE  /\ index' \in [SearchedIdeas -> IndexEntry \cup {NoIndexEntry}]
         /\ \A j \in SearchedIdeas \ {i} : index'[j] = index[j]
<1>1. [text |-> row.text, tags |-> row.tags] \in IndexEntry
  BY DEF SearchRow, IndexEntry
<1>2. QED BY <1>1 DEF SearchTyped, SearchIndexTypeOK, Triggered

\* The rows that are written.
LEMMA RowsTyped ==
  ASSUME SearchTyped, NEW i \in SearchedIdeas
  PROVE  /\ NewText(i) <= MaxText => NewText(i) \in 0..MaxText /\ NewText(i) # 0
         /\ NewTags(i) <= MaxTagging => NewTags(i) \in 0..MaxTagging
         /\ \A t \in 0..MaxText : [searchIdeas[i] EXCEPT !.text = t] \in SearchRow
         /\ \A t \in 0..MaxTagging : [searchIdeas[i] EXCEPT !.tags = t] \in SearchRow
         /\ \A x \in {"none", "live", "deleted", "due"} :
              [searchIdeas[i] EXCEPT !.state = x] \in SearchRow
         /\ \A x \in {"live", "deleted"}, t \in 0..MaxText, u \in 0..MaxTagging :
              [state |-> x, text |-> t, tags |-> u] \in SearchRow
BY SearchFacts, SearchNumbers DEF NewText, NewTags, SearchRow

\* A step's tables and request are of their types, and stored ideas have texts.
LEMMA SearchStepTyped ==
  ASSUME SearchTyped, NEW q \in workers, SearchStep(q), UNCHANGED workers
  PROVE  SearchTyped'
<1> DEFINE r == searchReq[q]
           Rows == searchIdeas' \in [SearchedIdeas -> SearchRow]
                   /\ \A i \in SearchedIdeas : Stored(i)' => searchIdeas'[i].text # 0
           Entries == index' \in [SearchedIdeas -> IndexEntry \cup {NoIndexEntry}]
           Requests == searchReq' \in [Worker -> SearchWork]
           Rest == torn' \subseteq SearchedIdeas /\ UNCHANGED setup
<1>1. r \in SearchWork /\ r \in SearchRequest /\ SearchIdle \in SearchWork
      /\ \A i \in SearchedIdeas : searchIdeas[i] \in SearchRow
  BY SearchFacts, SearchIdleType
<1>2. /\ searchIdeas \in [SearchedIdeas -> SearchRow]
      /\ \A i \in SearchedIdeas : Stored(i) => searchIdeas[i].text # 0
      /\ index \in [SearchedIdeas -> IndexEntry \cup {NoIndexEntry}]
      /\ torn \subseteq SearchedIdeas /\ setup \in Setups
      /\ searchReq \in [Worker -> SearchWork]
  BY DEF SearchTyped, SearchIndexTypeOK
<1>3. SUFFICES Rows /\ Entries /\ Requests /\ Rest
  <2>1. SearchWork \subseteq SearchRequest
    BY DEF SearchWork
  <2>2. ASSUME Rows, Entries, Requests, Rest PROVE SearchTyped'
    BY <1>2, <2>1, <2>2 DEF SearchTyped, SearchIndexTypeOK
  <2>3. QED BY <2>2
<1>4. ASSUME NEW s \in SearchWork, SearchGoto(q, s) PROVE Requests
  BY <1>4, SearchGotoType
<1>5. UNCHANGED searchIdeas => Rows
  BY <1>2 DEF Stored
<1>6. UNCHANGED index => Entries
  BY <1>2
<1>7. ASSUME NEW i \in SearchedIdeas, NEW row \in SearchRow, Writes(i, row),
             row.state # "none" => row.text # 0
      PROVE  Rows
  <2>1. searchIdeas' \in [SearchedIdeas -> SearchRow] /\ searchIdeas'[i] = row
        /\ \A j \in SearchedIdeas \ {i} : searchIdeas'[j] = searchIdeas[j]
    BY <1>7, WritesType
  <2>2. QED BY <1>2, <1>7, <2>1 DEF Stored
<1>8. ASSUME NEW step \in {"load", "edit", "remove", "restore", "purge", "index"},
             NEW ideas \in SUBSET SearchedIdeas, NEW tagged \in BOOLEAN,
             step \in {"load", "edit", "remove", "restore"} => \E i \in SearchedIdeas : ideas = {i},
             SearchBegins(q, step, ideas, tagged)
      PROVE  Requests
  <2>1. PICK s : s = [SearchIdle EXCEPT !.pc = step, !.ideas = ideas, !.tagged = tagged]
    OBVIOUS
  <2>2. s \in SearchWork
    <3>1. s \in SearchRequest /\ s.pc = step /\ s.ideas = ideas /\ s.text = 0
      BY <2>1, SearchIdleType DEF SearchRequest
    <3>2. QED BY <1>8, <3>1 DEF SearchWork
  <2>3. SearchGoto(q, s)
    BY <1>8, <2>1 DEF SearchBegins
  <2>4. QED BY <1>4, <2>2, <2>3
<1>9. ASSUME NEW step \in {"load", "delete"}, r.pc \in {"edit", "remove", "restore"}, SearchNow(q, step)
      PROVE  Requests
  <2>1. PICK s : s = [r EXCEPT !.pc = step]
    OBVIOUS
  <2>2. s \in SearchWork
    BY <1>1, <1>9, <2>1, NowType
  <2>3. QED BY <1>4, <1>9, <2>1, <2>2 DEF SearchNow
<1>10. r.pc \in {"edit", "load", "tags", "remove", "delete", "restore"} => IdeaOf(q) \in SearchedIdeas
  BY IdeaInHand
<1>11. ASSUME NEW i \in SearchedIdeas, NEW x \in {"live", "deleted"}, SetState(i, x)
       PROVE  Rows /\ Entries
  <2>1. PICK row : row = [searchIdeas[i] EXCEPT !.state = x]
    OBVIOUS
  <2>2. row \in SearchRow /\ row.text = searchIdeas[i].text /\ searchIdeas[i].text # 0
    <3>1. Stored(i)
      BY <1>11 DEF SetState
    <3>2. QED BY <1>1, <1>2, <2>1, <3>1 DEF SearchRow
  <2>3. Writes(i, row) /\ Triggered(i, row, FALSE)
    BY <1>11, <2>1 DEF SetState
  <2>4. QED BY <1>7, <2>2, <2>3, TriggeredType
<1>12. ASSUME NEW i \in SearchedIdeas, NEW b \in BOOLEAN, CreatePage(q, i, b)
       PROVE  Rows /\ Entries /\ Requests /\ Rest
  <2>1. PICK row : row = [state |-> "live", text |-> NewText(i), tags |-> NewTags(i)]
    OBVIOUS
  <2>2. row \in SearchRow /\ row.text # 0
    <3>1. NewText(i) \in 0..MaxText /\ NewText(i) # 0 /\ NewTags(i) \in 0..MaxTagging
      BY <1>12, RowsTyped DEF CreatePage
    <3>2. QED BY <2>1, <3>1 DEF SearchRow
  <2>3. Writes(i, row) /\ Triggered(i, row, TRUE) /\ SearchBegins(q, "load", {i}, b)
    BY <1>12, <2>1 DEF CreatePage
  <2>4. Rest
    BY <1>2, <1>12 DEF CreatePage
  <2>5. QED BY <1>7, <1>8, <2>2, <2>3, <2>4, TriggeredType
<1>13. ASSUME NEW i \in SearchedIdeas, NEW b \in BOOLEAN,
              UpdatePage(q, i, b) \/ DeletePage(q, i) \/ RestorePage(q, i) \/ ReindexPage(q, i)
       PROVE  Rows /\ Entries /\ Requests /\ Rest
  <2>1. Rest /\ Rows /\ Entries
    BY <1>2, <1>5, <1>6, <1>13 DEF UpdatePage, DeletePage, RestorePage, ReindexPage
  <2>2. PICK step \in {"edit", "remove", "restore", "index"}, t \in BOOLEAN :
          SearchBegins(q, step, {i}, t)
    BY <1>13 DEF UpdatePage, DeletePage, RestorePage, ReindexPage
  <2>3. QED BY <1>8, <2>1, <2>2
<1>14. ASSUME RebuildIndex(q) \/ StartWorker(q) \/ PurgePages(q)
       PROVE  Rows /\ Entries /\ Requests /\ Rest
  <2>1. Rest /\ Rows /\ Entries
    BY <1>2, <1>5, <1>6, <1>14 DEF RebuildIndex, StartWorker, PurgePages
  <2>2. PICK step \in {"purge", "index"}, ideas \in SUBSET SearchedIdeas :
          SearchBegins(q, step, ideas, FALSE)
    BY <1>14 DEF RebuildIndex, StartWorker, PurgePages
  <2>3. QED BY <1>8, <2>1, <2>2
<1>15. ASSUME SavePage(q)
       PROVE  Rows /\ Entries /\ Requests /\ Rest
  <2>1. PICK i \in SearchedIdeas : i = IdeaOf(q)
    BY <1>10, <1>15 DEF SavePage, SearchAt
  <2>2. PICK row : row = [searchIdeas[i] EXCEPT !.text = NewText(i)]
    OBVIOUS
  <2>3. row \in SearchRow /\ row.text # 0
    <3>1. NewText(i) \in 0..MaxText /\ NewText(i) # 0
      BY <1>15, <2>1, RowsTyped DEF SavePage
    <3>2. QED BY <1>1, <2>2, <3>1 DEF SearchRow
  <2>4. Writes(i, row) /\ Triggered(i, row, FALSE) /\ SearchNow(q, "load") /\ r.pc = "edit"
    BY <1>15, <2>1, <2>2 DEF SavePage, SearchAt
  <2>5. Rest
    BY <1>2, <1>15 DEF SavePage
  <2>6. QED BY <1>7, <1>9, <2>3, <2>4, <2>5, TriggeredType
<1>16. ASSUME LoadPage(q)
       PROVE  Rows /\ Entries /\ Requests /\ Rest
  <2>1. PICK i \in SearchedIdeas : i = IdeaOf(q)
    BY <1>10, <1>16 DEF LoadPage, SearchAt
  <2>2. PICK step \in {"tags", "index"} : step = IF r.tagged THEN "tags" ELSE "index"
    OBVIOUS
  <2>3. PICK s : s = [r EXCEPT !.text = searchIdeas[i].text, !.pc = step]
    OBVIOUS
  <2>4. SearchGoto(q, s) /\ r.pc = "load" /\ Stored(i)
    BY <1>16, <2>1, <2>2, <2>3 DEF LoadPage, SearchAt
  <2>5. searchIdeas[i].text \in 0..MaxText /\ searchIdeas[i].text # 0
    BY <2>4, SearchFacts
  <2>6. s \in SearchWork
    <3>1. s \in SearchRequest /\ s.pc = step /\ s.ideas = r.ideas /\ s.text = searchIdeas[i].text
      BY <1>1, <2>3, <2>5 DEF SearchRequest
    <3>2. \E j \in SearchedIdeas : r.ideas = {j}
      BY <1>1, <2>4 DEF SearchWork
    <3>3. QED BY <2>5, <3>1, <3>2 DEF SearchWork
  <2>7. Rows /\ Entries /\ Rest
    BY <1>2, <1>5, <1>6, <1>16 DEF LoadPage
  <2>8. QED BY <1>4, <2>4, <2>6, <2>7
<1>17. ASSUME StoreTags(q)
       PROVE  Rows /\ Entries /\ Requests /\ Rest
  <2>1. PICK i \in SearchedIdeas : i = IdeaOf(q)
    BY <1>10, <1>17 DEF StoreTags, SearchAt
  <2>2. PICK row : row = [searchIdeas[i] EXCEPT !.tags = NewTags(i)]
    OBVIOUS
  <2>3. Stored(i) /\ Writes(i, row) /\ Triggered(i, row, FALSE) /\ NewTags(i) <= MaxTagging
        /\ r.pc = "tags" /\ SearchGoto(q, AfterTags(r))
    BY <1>17, <2>1, <2>2 DEF StoreTags, SearchAt
  <2>4. row \in SearchRow /\ row.text = searchIdeas[i].text /\ searchIdeas[i].text # 0
    <3>1. NewTags(i) \in 0..MaxTagging /\ searchIdeas[i] \in SearchRow
      BY <1>1, <2>3, RowsTyped
    <3>2. row \in SearchRow /\ row.text = searchIdeas[i].text
      BY <2>2, <3>1 DEF SearchRow
    <3>3. QED BY <1>2, <2>3, <3>2
  <2>5. Rest
    BY <1>2, <1>17 DEF StoreTags
  <2>6. QED BY <1>1, <1>4, <1>7, <2>3, <2>4, <2>5, TriggeredType, TaggedType
<1>18. ASSUME RemoveEntry(q)
       PROVE  Rows /\ Entries /\ Requests /\ Rest
  <2>1. Rows /\ Rest
    BY <1>2, <1>5, <1>18 DEF RemoveEntry
  <2>2. Entries
    BY <1>2, <1>18 DEF RemoveEntry
  <2>3. QED BY <1>9, <1>18, <2>1, <2>2 DEF RemoveEntry, SearchAt
<1>19. ASSUME PageDeleted(q) \/ PageRestored(q)
       PROVE  Rows /\ Entries /\ Requests /\ Rest
  <2>1. IdeaOf(q) \in SearchedIdeas /\ Rest
    BY <1>2, <1>10, <1>19 DEF PageDeleted, PageRestored, SearchAt
  <2>2. Rows /\ Entries
    BY <1>11, <1>19, <2>1 DEF PageDeleted, PageRestored
  <2>3. Requests
    BY <1>1, <1>4, <1>9, <1>19 DEF PageDeleted, PageRestored, SearchEnds, SearchAt
  <2>4. QED BY <2>1, <2>2, <2>3
<1>20. ASSUME NEW i \in SearchedIdeas, ModeratePage(q, i)
       PROVE  Rows /\ Entries /\ Requests /\ Rest
  BY <1>2, <1>11, <1>20 DEF ModeratePage
<1>21. ASSUME NEW i \in SearchedIdeas, LeavePage(q, i)
       PROVE  Rows /\ Entries /\ Requests /\ Rest
  <2>1. PICK row : row = [state |-> "deleted", text |-> NewText(i), tags |-> NewTags(i)]
    OBVIOUS
  <2>2. row \in SearchRow /\ row.text # 0
    <3>1. NewText(i) \in 0..MaxText /\ NewText(i) # 0 /\ NewTags(i) \in 0..MaxTagging
      BY <1>21, RowsTyped DEF LeavePage
    <3>2. QED BY <2>1, <3>1 DEF SearchRow
  <2>3. Writes(i, row) /\ Triggered(i, row, FALSE)
    BY <1>21, <2>1 DEF LeavePage
  <2>4. Requests /\ Rest
    BY <1>2, <1>21 DEF LeavePage
  <2>5. QED BY <1>7, <2>2, <2>3, <2>4, TriggeredType
<1>22. ASSUME NEW i \in SearchedIdeas, MergePage(q, i)
       PROVE  Rows /\ Entries /\ Requests /\ Rest
  <2>1. Unstored(i) \in SearchRow /\ Unstored(i).state = "none"
    BY <1>1 DEF Unstored, SearchRow
  <2>2. Rows
    BY <1>7, <1>22, <2>1 DEF MergePage
  <2>3. Entries /\ Requests /\ Rest
    BY <1>2, <1>22 DEF MergePage, EntryLeft
  <2>4. QED BY <2>2, <2>3
<1>23. ASSUME PagesPurged(q)
       PROVE  Rows /\ Entries /\ Requests /\ Rest
  <2> DEFINE purged == {i \in r.ideas : IsDue(i)}
             stripped == {i \in r.ideas \ purged : Stored(i)}
  <2>1. r.ideas \subseteq SearchedIdeas
    BY <1>1 DEF SearchRequest
  <2>2. \A i \in SearchedIdeas : Unstored(i) \in SearchRow /\ Unstored(i).state = "none"
    BY <1>1 DEF Unstored, SearchRow
  <2>3. ASSUME NEW i \in stripped
        PROVE  /\ [searchIdeas[i] EXCEPT !.tags = NewTags(i)] \in SearchRow
               /\ [searchIdeas[i] EXCEPT !.tags = NewTags(i)].text = searchIdeas[i].text
               /\ NewTags(i) \in 0..MaxTagging
    <3>1. i \in SearchedIdeas /\ NewTags(i) <= MaxTagging
      BY <1>23, <2>1 DEF PagesPurged
    <3>2. NewTags(i) \in 0..MaxTagging /\ searchIdeas[i] \in SearchRow
      BY <1>1, <3>1, RowsTyped
    <3>3. QED BY <3>2 DEF SearchRow
  <2>4. searchIdeas' = [i \in SearchedIdeas |->
             IF i \in purged THEN Unstored(i)
             ELSE IF i \in stripped THEN [searchIdeas[i] EXCEPT !.tags = NewTags(i)]
             ELSE searchIdeas[i]]
    BY <1>23 DEF PagesPurged
  <2>5. Rows
    <3>1. \A i \in SearchedIdeas : searchIdeas'[i] \in SearchRow
      BY <1>1, <2>2, <2>3, <2>4
    <3>2. \A i \in SearchedIdeas : Stored(i)' => searchIdeas'[i].text # 0
      <4>1. ASSUME NEW i \in SearchedIdeas, searchIdeas'[i].state # "none"
            PROVE  searchIdeas'[i].text # 0
        <5>1. CASE i \in purged
          BY <2>2, <2>4, <4>1, <5>1
        <5>2. CASE i \in stripped /\ i \notin purged
          BY <1>2, <2>3, <2>4, <5>2
        <5>3. CASE i \notin stripped /\ i \notin purged
          BY <1>2, <2>4, <4>1, <5>3 DEF Stored
        <5>4. QED BY <5>1, <5>2, <5>3
      <4>2. QED BY <4>1 DEF Stored
    <3>3. QED BY <2>4, <3>1, <3>2
  <2>6. Entries
    <3>1. ASSUME NEW i \in SearchedIdeas PROVE index'[i] \in IndexEntry \cup {NoIndexEntry}
      <4>1. index[i] \in IndexEntry \cup {NoIndexEntry}
            /\ EntryLeft(i) \in IndexEntry \cup {NoIndexEntry}
        BY <1>2 DEF EntryLeft
      <4>2. ASSUME i \in stripped, index[i] # NoIndexEntry
            PROVE  [index[i] EXCEPT !.tags = NewTags(i)] \in IndexEntry
        BY <2>3, <4>1, <4>2 DEF IndexEntry
      <4>3. index'[i] = IF i \in purged THEN EntryLeft(i)
              ELSE IF i \in stripped /\ setup = "triggers" /\ index[i] # NoIndexEntry
              THEN [index[i] EXCEPT !.tags = NewTags(i)] ELSE index[i]
        BY <1>23 DEF PagesPurged
      <4>4. QED BY <4>1, <4>2, <4>3
    <3>2. index' = [i \in SearchedIdeas |-> index'[i]]
      BY <1>23 DEF PagesPurged
    <3>3. QED BY <3>1, <3>2
  <2>7. Requests
    BY <1>1, <1>4, <1>23 DEF PagesPurged, SearchEnds
  <2>8. Rest
    BY <1>2, <1>23, <2>1 DEF PagesPurged
  <2>9. QED BY <2>5, <2>6, <2>7, <2>8
<1>24. ASSUME IndexRows(q)
       PROVE  Rows /\ Entries /\ Requests /\ Rest
  <2>1. ASSUME NEW i \in SearchedIdeas
        PROVE  [text |-> IndexedText(r, i), tags |-> searchIdeas[i].tags] \in IndexEntry
    BY <1>1 DEF IndexedText, IndexEntry, SearchRequest, SearchRow
  <2>2. Entries
    BY <1>2, <1>24, <2>1 DEF IndexRows
  <2>3. Rows /\ Requests /\ Rest
    BY <1>1, <1>2, <1>4, <1>5, <1>24 DEF IndexRows, SearchEnds
  <2>4. QED BY <2>2, <2>3
<1>25. ASSUME ReadTags(q)
       PROVE  Rows /\ Entries /\ Requests /\ Rest
  <2>1. PICK seen : seen = [i \in SearchedIdeas |->
                              IF i \in r.ideas THEN searchIdeas[i].tags ELSE 0]
    OBVIOUS
  <2>2. seen \in [SearchedIdeas -> 0..MaxTagging]
    BY <1>1, <2>1, SearchNumbers DEF SearchRow
  <2>3. PICK s : s = [r EXCEPT !.pc = "write", !.tags = seen]
    OBVIOUS
  <2>4. s \in SearchWork
    BY <1>1, <1>25, <2>2, <2>3, ReadType DEF ReadTags, SearchAt
  <2>5. SearchGoto(q, s)
    BY <1>25, <2>1, <2>3 DEF ReadTags
  <2>6. Rows /\ Entries /\ Rest
    BY <1>2, <1>5, <1>6, <1>25 DEF ReadTags
  <2>7. QED BY <1>4, <2>4, <2>5, <2>6
<1>26. ASSUME WriteColumns(q)
       PROVE  Rows /\ Entries /\ Requests /\ Rest
  <2>1. ASSUME NEW i \in SearchedIdeas
        PROVE  [text |-> searchIdeas[i].text, tags |-> r.tags[i]] \in IndexEntry
    BY <1>1 DEF IndexEntry, SearchRequest, SearchRow
  <2>2. Entries
    BY <1>2, <1>26, <2>1 DEF WriteColumns
  <2>3. Rows /\ Requests /\ Rest
    BY <1>1, <1>2, <1>4, <1>5, <1>26 DEF WriteColumns, SearchEnds
  <2>4. QED BY <2>2, <2>3
<1>27. ASSUME SearchCut(q)
       PROVE  Rows /\ Entries /\ Requests /\ Rest
  BY <1>1, <1>2, <1>4, <1>5, <1>6, <1>27 DEF SearchCut, SearchEnds, SearchRequest
<1>28. QED
  BY <1>12, <1>13, <1>14, <1>15, <1>16, <1>17, <1>18, <1>19, <1>20, <1>21, <1>22, <1>23, <1>24,
     <1>25, <1>26, <1>27 DEF SearchStep

LEMMA SearchNextTyped ==
  ASSUME SearchTyped, [SearchIndexNext]_searchVars PROVE SearchTyped'
<1>1. CASE UNCHANGED searchVars
  BY <1>1 DEF searchVars, SearchTyped, SearchIndexTypeOK, Stored
<1>2. ASSUME NEW i \in SearchedIdeas, DeletedLongAgo(i), UNCHANGED workers PROVE SearchTyped'
  <2>1. PICK row : row = [searchIdeas[i] EXCEPT !.state = "due"]
    OBVIOUS
  <2>2. /\ row \in SearchRow /\ row.text = searchIdeas[i].text /\ searchIdeas[i].text # 0
        /\ Writes(i, row)
    <3>1. searchIdeas[i] \in SearchRow /\ (Stored(i) => searchIdeas[i].text # 0)
      BY SearchFacts
    <3>2. QED BY <1>2, <2>1, <3>1 DEF DeletedLongAgo, SearchRow, Stored
  <2>3. searchIdeas' \in [SearchedIdeas -> SearchRow] /\ searchIdeas'[i] = row
        /\ \A j \in SearchedIdeas \ {i} : searchIdeas'[j] = searchIdeas[j]
    BY <2>2, WritesType
  <2>4. \A j \in SearchedIdeas : Stored(j)' => searchIdeas'[j].text # 0
    BY <2>2, <2>3, SearchFacts DEF Stored
  <2>5. QED BY <1>2, <2>3, <2>4 DEF DeletedLongAgo, SearchTyped, SearchIndexTypeOK
<1>3. QED BY <1>1, <1>2, SearchStepTyped DEF SearchIndexNext

LEMMA SearchInitTyped ==
  ASSUME SearchIndexInit PROVE SearchTyped
<1>1. searchReq \in [Worker -> SearchWork] /\ searchReq \in [Worker -> SearchRequest]
  BY SearchIdleType DEF SearchIndexInit
<1>2. searchIdeas \in [SearchedIdeas -> SearchRow] /\ \A i \in SearchedIdeas : ~Stored(i)
  BY SearchNumbers DEF SearchIndexInit, SearchRow, Stored
<1>3. index \in [SearchedIdeas -> IndexEntry \cup {NoIndexEntry}]
  BY DEF SearchIndexInit
<1>4. QED BY <1>1, <1>2, <1>3 DEF SearchIndexInit, WorkersInit, SearchTyped, SearchIndexTypeOK

\* Every idea has one row, and one entry or none.
THEOREM SearchTypeCorrect == SearchIndexSpec => []SearchIndexTypeOK
<1>1. SearchIndexSpec => []SearchTyped
  BY SearchInitTyped, SearchNextTyped, PTL DEF SearchIndexSpec
<1>2. SearchTyped => SearchIndexTypeOK
  BY DEF SearchTyped
<1>3. QED BY <1>1, <1>2, PTL

-----------------------------------------------------------------------------
(* The search index follows the ideas *)

\* A handler that has stored an idea, or taken its entry away, and that will
\* index it or mark it torn.
Owes(r, i) == HasStored(r) /\ i \in r.ideas
Indexed(i) ==
  /\ index[i] # NoIndexEntry
  /\ Sqlite \/ Serial => index[i].tags = searchIdeas[i].tags
  /\ ~Sqlite \/ Serial => index[i].text = searchIdeas[i].text
\* What the only handler has read is still so.
ReadNow(r) ==
  /\ r.pc \in {"index", "write"} /\ r.text # 0 =>
       \A i \in r.ideas : r.text = searchIdeas[i].text
  /\ r.pc = "write" => \A i \in r.ideas : r.tags[i] = searchIdeas[i].tags
SearchInv ==
  /\ \A i \in SearchedIdeas \ torn : IsLive(i) =>
       Indexed(i) \/ \E q \in workers : Owes(searchReq[q], i)
  /\ \A q \in workers : searchReq[q].pc = "write" => ~Sqlite
  /\ Serial => \A q \in workers : ReadNow(searchReq[q])

\* What a step leaves of an idea that it isn't about.
Kept(i, r, s) ==
  /\ i \notin torn /\ searchIdeas'[i] = searchIdeas[i] /\ index'[i] = index[i]
  /\ Owes(r, i) => Owes(s, i)

LEMMA SearchAfter ==
  ASSUME SearchTyped, SearchInv, NEW q \in workers, NEW s, searchReq'[q] = s,
         \A p \in workers \ {q} : searchReq'[p] = searchReq[p], UNCHANGED <<workers, setup>>,
         \A i \in SearchedIdeas \ torn' : searchIdeas'[i].state = "live" =>
           Indexed(i)' \/ Owes(s, i) \/ Kept(i, searchReq[q], s),
         s.pc = "write" => ~Sqlite, Serial => ReadNow(s)'
  PROVE  SearchInv'
<1>1. ASSUME NEW i \in SearchedIdeas \ torn', searchIdeas'[i].state = "live"
      PROVE  Indexed(i)' \/ \E p \in workers : Owes(searchReq'[p], i)
  <2>1. CASE Indexed(i)' \/ Owes(s, i)
    BY <2>1
  <2>2. CASE Kept(i, searchReq[q], s)
    <3>1. IsLive(i) /\ i \notin torn
      BY <1>1, <2>2 DEF Kept, IsLive
    <3>2. CASE Indexed(i)
      BY <2>2, <3>2 DEF Kept, Indexed, Sqlite, Serial
    <3>3. CASE \E p \in workers : Owes(searchReq[p], i)
      <4>1. PICK p \in workers : Owes(searchReq[p], i)
        BY <3>3
      <4>2. CASE p = q
        BY <2>2, <4>1, <4>2 DEF Kept
      <4>3. CASE p # q
        BY <4>1, <4>3
      <4>4. QED BY <4>2, <4>3
    <3>4. QED BY <1>1, <3>1, <3>2, <3>3 DEF SearchInv
  <2>3. QED BY <1>1, <2>1, <2>2
<1>2. ASSUME Serial, NEW p \in workers PROVE ReadNow(searchReq[p])'
  <2>1. p = q
    BY <1>2, Alone DEF SearchTyped
  <2>2. QED BY <1>2, <2>1 DEF ReadNow
<1>3. \A p \in workers : searchReq'[p].pc = "write" => ~Sqlite
  BY DEF SearchInv
<1>4. QED BY <1>1, <1>2, <1>3 DEF SearchInv, IsLive, Serial, Sqlite

LEMMA SearchStepKeeps ==
  ASSUME SearchTyped, SearchInv, NEW q \in workers, SearchStep(q), UNCHANGED workers
  PROVE  SearchInv'
<1> DEFINE r == searchReq[q]
<1>1. /\ r \in SearchWork /\ r \in SearchRequest /\ SearchIdle.pc = "idle"
      /\ \A i \in SearchedIdeas : searchIdeas[i] \in SearchRow
  BY SearchFacts, SearchIdleType
<1>2. /\ searchIdeas \in [SearchedIdeas -> SearchRow]
      /\ index \in [SearchedIdeas -> IndexEntry \cup {NoIndexEntry}]
      /\ searchReq \in [Worker -> SearchWork]
  BY DEF SearchTyped, SearchIndexTypeOK
<1>3. Serial => ReadNow(r)
  BY DEF SearchInv
<1>4. ASSUME NEW s, SearchGoto(q, s), UNCHANGED setup,
             \A i \in SearchedIdeas \ torn' : searchIdeas'[i].state = "live" =>
               Indexed(i)' \/ Owes(s, i) \/ Kept(i, r, s),
             s.pc = "write" => ~Sqlite, Serial => ReadNow(s)'
      PROVE  SearchInv'
  BY <1>4, SearchGotoType, SearchAfter
<1>5. ASSUME NEW step \in {"edit", "remove", "restore", "purge", "index"}, NEW ideas, NEW tagged,
             SearchBegins(q, step, ideas, tagged), UNCHANGED <<setup, searchIdeas, index, torn>>
      PROVE  SearchInv'
  <2>1. PICK s : s = [SearchIdle EXCEPT !.pc = step, !.ideas = ideas, !.tagged = tagged]
    OBVIOUS
  <2>2. s.pc = step /\ s.text = 0
    BY <2>1, SearchIdleType DEF SearchRequest
  <2>3. SearchGoto(q, s) /\ r.pc = "idle"
    BY <1>5, <2>1 DEF SearchBegins, SearchAt
  <2>4. \A i \in SearchedIdeas \ torn' : Kept(i, r, s)
    BY <1>5, <2>3 DEF Kept, Owes, HasStored
  <2>5. ReadNow(s)'
    BY <2>2 DEF ReadNow
  <2>6. QED BY <1>4, <1>5, <2>2, <2>3, <2>4, <2>5
\* A step that leaves the request alone, of a handler at rest.
<1>6. ASSUME NEW i \in SearchedIdeas, r.pc = "idle", UNCHANGED <<setup, searchReq>>,
             searchIdeas'[i].state # "live",
             \A j \in SearchedIdeas \ {i} : searchIdeas'[j] = searchIdeas[j] /\ index'[j] = index[j],
             torn' = torn \/ torn' = torn \ {i}
      PROVE  SearchInv'
  <2>1. \A j \in SearchedIdeas \ torn' : searchIdeas'[j].state = "live" => Kept(j, r, r)
    BY <1>6 DEF Kept
  <2>2. ReadNow(r)'
    BY <1>6 DEF ReadNow
  <2>3. searchReq'[q] = r /\ \A p \in workers \ {q} : searchReq'[p] = searchReq[p]
    BY <1>6
  <2>4. r.pc # "write"
    BY <1>6
  <2>5. QED BY <1>6, <2>1, <2>2, <2>3, <2>4, SearchAfter
\* A step that stores one idea and owes its entry.
<1>7. ASSUME NEW i \in SearchedIdeas, NEW s, SearchGoto(q, s), UNCHANGED <<setup, torn>>,
             s.pc \in {"load", "delete"}, s.ideas = {i}, Owes(r, i) \/ ~HasStored(r),
             Owes(r, i) => r.ideas = {i},
             \A j \in SearchedIdeas \ {i} : searchIdeas'[j] = searchIdeas[j] /\ index'[j] = index[j]
      PROVE  SearchInv'
  <2>1. Owes(s, i)
    BY <1>7 DEF Owes, HasStored
  <2>2. \A j \in SearchedIdeas \ torn' : j # i => Kept(j, r, s)
    BY <1>7 DEF Kept, Owes
  <2>3. ReadNow(s)'
    BY <1>7 DEF ReadNow
  <2>4. QED BY <1>4, <1>7, <2>1, <2>2, <2>3
<1>8. ASSUME NEW i \in SearchedIdeas, NEW x \in {"live", "deleted"}, SetState(i, x)
      PROVE  /\ searchIdeas'[i].state = x
             /\ \A j \in SearchedIdeas \ {i} : searchIdeas'[j] = searchIdeas[j] /\ index'[j] = index[j]
  <2>1. PICK row : row = [searchIdeas[i] EXCEPT !.state = x]
    OBVIOUS
  <2>2. row \in SearchRow /\ row.state = x
    BY <1>1, <2>1 DEF SearchRow
  <2>3. Writes(i, row) /\ Triggered(i, row, FALSE)
    BY <1>8, <2>1 DEF SetState
  <2>4. QED BY <2>2, <2>3, WritesType, TriggeredType
<1>9. ASSUME NEW i \in SearchedIdeas, NEW b \in BOOLEAN, CreatePage(q, i, b) PROVE SearchInv'
  <2>1. PICK row : row = [state |-> "live", text |-> NewText(i), tags |-> NewTags(i)]
    OBVIOUS
  <2>2. row \in SearchRow
    <3>1. NewText(i) \in 0..MaxText /\ NewTags(i) \in 0..MaxTagging
      BY <1>9, RowsTyped DEF CreatePage
    <3>2. QED BY <2>1, <3>1 DEF SearchRow
  <2>3. Writes(i, row) /\ Triggered(i, row, TRUE) /\ SearchBegins(q, "load", {i}, b)
        /\ UNCHANGED <<setup, torn>>
    BY <1>9, <2>1 DEF CreatePage
  <2>4. PICK s : s = [SearchIdle EXCEPT !.pc = "load", !.ideas = {i}, !.tagged = b]
    OBVIOUS
  <2>5. s.pc = "load" /\ s.ideas = {i}
    BY <2>4, SearchIdleType DEF SearchRequest
  <2>6. SearchGoto(q, s) /\ r.pc = "idle"
    BY <2>3, <2>4 DEF SearchBegins, SearchAt
  <2>7. ~HasStored(r)
    BY <2>6 DEF HasStored
  <2>8. QED BY <1>7, <2>2, <2>3, <2>5, <2>6, <2>7, WritesType, TriggeredType DEF Owes
<1>10. ASSUME NEW i \in SearchedIdeas, NEW b \in BOOLEAN,
              UpdatePage(q, i, b) \/ DeletePage(q, i) \/ RestorePage(q, i) \/ ReindexPage(q, i)
       PROVE  SearchInv'
  BY <1>5, <1>10 DEF UpdatePage, DeletePage, RestorePage, ReindexPage
<1>11. CASE RebuildIndex(q) \/ StartWorker(q) \/ PurgePages(q)
  BY <1>5, <1>11 DEF RebuildIndex, StartWorker, PurgePages
<1>12. CASE SavePage(q)
  <2>1. r.pc = "edit" /\ SearchNow(q, "load") /\ UNCHANGED <<setup, torn>>
    BY <1>12 DEF SavePage, SearchAt
  <2>2. PICK i \in SearchedIdeas : i = IdeaOf(q) /\ r.ideas = {i}
    BY <2>1, IdeaInHand
  <2>3. PICK row : row = [searchIdeas[i] EXCEPT !.text = NewText(i)]
    OBVIOUS
  <2>4. row \in SearchRow
    <3>1. NewText(i) \in 0..MaxText
      BY <1>12, <2>2, RowsTyped DEF SavePage
    <3>2. QED BY <1>1, <2>3, <3>1 DEF SearchRow
  <2>5. Writes(i, row) /\ Triggered(i, row, FALSE)
    BY <1>12, <2>2, <2>3 DEF SavePage
  <2>6. PICK s : s = [r EXCEPT !.pc = "load"]
    OBVIOUS
  <2>7. s.pc = "load" /\ s.ideas = {i} /\ SearchGoto(q, s)
    BY <1>1, <2>1, <2>2, <2>6 DEF SearchNow, SearchRequest
  <2>8. ~HasStored(r)
    BY <2>1 DEF HasStored
  <2>9. QED BY <1>7, <2>1, <2>4, <2>5, <2>7, <2>8, WritesType, TriggeredType DEF Owes
<1>13. CASE LoadPage(q)
  <2>1. r.pc = "load" /\ Stored(IdeaOf(q)) /\ UNCHANGED <<setup, searchIdeas, index, torn>>
    BY <1>13 DEF LoadPage, SearchAt
  <2>2. PICK i \in SearchedIdeas : i = IdeaOf(q) /\ r.ideas = {i}
    BY <2>1, IdeaInHand
  <2>3. PICK s : s = [r EXCEPT !.text = searchIdeas[i].text,
                               !.pc = IF r.tagged THEN "tags" ELSE "index"]
    OBVIOUS
  <2>4. SearchGoto(q, s)
    BY <1>13, <2>2, <2>3 DEF LoadPage
  <2>5. s.pc \in {"tags", "index"} /\ s.ideas = {i} /\ s.text = searchIdeas[i].text
    BY <1>1, <2>2, <2>3 DEF SearchRequest
  <2>6. s.text # 0
    BY <2>1, <2>2, <2>5, SearchFacts
  <2>7. Owes(s, i)
    BY <2>5, <2>6 DEF Owes, HasStored
  <2>8. \A j \in SearchedIdeas \ torn' : j # i => Kept(j, r, s)
    BY <2>1, <2>2 DEF Kept, Owes
  <2>9. ReadNow(s)'
    BY <2>1, <2>5 DEF ReadNow
  <2>10. QED BY <1>4, <2>1, <2>4, <2>5, <2>7, <2>8, <2>9
<1>14. CASE StoreTags(q)
  <2>1. r.pc = "tags" /\ SearchGoto(q, AfterTags(r)) /\ UNCHANGED <<setup, torn>>
    BY <1>14 DEF StoreTags, SearchAt
  <2>2. PICK i \in SearchedIdeas : i = IdeaOf(q) /\ r.ideas = {i}
    BY <2>1, IdeaInHand
  <2>3. PICK row : row = [searchIdeas[i] EXCEPT !.tags = NewTags(i)]
    OBVIOUS
  <2>4. row \in SearchRow
    <3>1. NewTags(i) \in 0..MaxTagging
      BY <1>14, <2>2, RowsTyped DEF StoreTags
    <3>2. QED BY <1>1, <2>3, <3>1 DEF SearchRow
  <2>5. Writes(i, row) /\ Triggered(i, row, FALSE)
    BY <1>14, <2>2, <2>3 DEF StoreTags
  <2>6. PICK s : s = AfterTags(r)
    OBVIOUS
  <2>7. s.pc = "load" /\ s.ideas = {i} /\ SearchGoto(q, s)
    BY <1>1, <2>1, <2>2, <2>6, TaggedType
  <2>8. Owes(r, i)
    BY <2>1, <2>2 DEF Owes, HasStored
  <2>9. \A j \in SearchedIdeas \ {i} : searchIdeas'[j] = searchIdeas[j] /\ index'[j] = index[j]
    BY <2>4, <2>5, WritesType, TriggeredType
  <2>10. QED BY <1>7, <2>1, <2>2, <2>7, <2>8, <2>9
<1>15. CASE RemoveEntry(q)
  <2>1. r.pc = "remove" /\ SearchNow(q, "delete") /\ UNCHANGED <<setup, searchIdeas, torn>>
    BY <1>15 DEF RemoveEntry, SearchAt
  <2>2. PICK i \in SearchedIdeas : i = IdeaOf(q) /\ r.ideas = {i}
    BY <2>1, IdeaInHand
  <2>3. PICK s : s = [r EXCEPT !.pc = "delete"]
    OBVIOUS
  <2>4. s.pc = "delete" /\ s.ideas = {i} /\ SearchGoto(q, s)
    BY <1>1, <2>1, <2>2, <2>3 DEF SearchNow, SearchRequest
  <2>5. \A j \in SearchedIdeas \ {i} : index'[j] = index[j]
    BY <1>2, <1>15, <2>2 DEF RemoveEntry
  <2>6. ~HasStored(r)
    BY <2>1 DEF HasStored
  <2>7. QED BY <1>7, <2>1, <2>4, <2>5, <2>6 DEF Owes
<1>16. CASE PageDeleted(q)
  <2>1. r.pc = "delete" /\ SearchGoto(q, SearchIdle) /\ SetState(IdeaOf(q), "deleted")
        /\ UNCHANGED <<setup, torn>>
    BY <1>16 DEF PageDeleted, SearchAt, SearchEnds
  <2>2. PICK i \in SearchedIdeas : i = IdeaOf(q) /\ r.ideas = {i}
    BY <2>1, IdeaInHand
  <2>3. /\ searchIdeas'[i].state = "deleted"
        /\ \A j \in SearchedIdeas \ {i} : searchIdeas'[j] = searchIdeas[j] /\ index'[j] = index[j]
    BY <1>8, <2>1, <2>2
  <2>4. \A j \in SearchedIdeas \ torn' : searchIdeas'[j].state = "live" => Kept(j, r, SearchIdle)
    BY <2>1, <2>2, <2>3 DEF Kept, Owes
  <2>5. ReadNow(SearchIdle)'
    BY <1>1 DEF ReadNow
  <2>6. QED BY <1>1, <1>4, <2>1, <2>4, <2>5
<1>17. CASE PageRestored(q)
  <2>1. r.pc = "restore" /\ SearchNow(q, "load") /\ SetState(IdeaOf(q), "live")
        /\ UNCHANGED <<setup, torn>>
    BY <1>17 DEF PageRestored, SearchAt
  <2>2. PICK i \in SearchedIdeas : i = IdeaOf(q) /\ r.ideas = {i}
    BY <2>1, IdeaInHand
  <2>3. \A j \in SearchedIdeas \ {i} : searchIdeas'[j] = searchIdeas[j] /\ index'[j] = index[j]
    BY <1>8, <2>1, <2>2
  <2>4. PICK s : s = [r EXCEPT !.pc = "load"]
    OBVIOUS
  <2>5. s.pc = "load" /\ s.ideas = {i} /\ SearchGoto(q, s)
    BY <1>1, <2>1, <2>2, <2>4 DEF SearchNow, SearchRequest
  <2>6. ~HasStored(r)
    BY <2>1 DEF HasStored
  <2>7. QED BY <1>7, <2>1, <2>3, <2>5, <2>6 DEF Owes
<1>18. ASSUME NEW i \in SearchedIdeas, ModeratePage(q, i) PROVE SearchInv'
  BY <1>6, <1>8, <1>18 DEF ModeratePage, SearchAt
<1>19. ASSUME NEW i \in SearchedIdeas, LeavePage(q, i) PROVE SearchInv'
  <2>1. PICK row : row = [state |-> "deleted", text |-> NewText(i), tags |-> NewTags(i)]
    OBVIOUS
  <2>2. row \in SearchRow /\ row.state = "deleted"
    <3>1. NewText(i) \in 0..MaxText /\ NewTags(i) \in 0..MaxTagging
      BY <1>19, RowsTyped DEF LeavePage
    <3>2. QED BY <2>1, <3>1 DEF SearchRow
  <2>3. Writes(i, row) /\ Triggered(i, row, FALSE) /\ r.pc = "idle" /\ UNCHANGED <<setup, torn, searchReq>>
    BY <1>19, <2>1 DEF LeavePage, SearchAt
  <2>4. QED BY <1>6, <2>2, <2>3, WritesType, TriggeredType
<1>20. ASSUME NEW i \in SearchedIdeas, MergePage(q, i) PROVE SearchInv'
  <2>1. Unstored(i) \in SearchRow /\ Unstored(i).state = "none"
    BY <1>1 DEF Unstored, SearchRow
  <2>2. /\ Writes(i, Unstored(i)) /\ r.pc = "idle" /\ UNCHANGED <<setup, searchReq>>
        /\ torn' = torn \ {i} /\ \A j \in SearchedIdeas \ {i} : index'[j] = index[j]
    BY <1>2, <1>20 DEF MergePage, SearchAt
  <2>3. QED BY <1>6, <2>1, <2>2, WritesType
<1>21. CASE PagesPurged(q)
  <2> DEFINE purged == {i \in r.ideas : IsDue(i)}
             stripped == {i \in r.ideas \ purged : Stored(i)}
  <2>1. /\ r.pc = "purge" /\ SearchGoto(q, SearchIdle) /\ UNCHANGED setup
        /\ torn' = (torn \ purged) \cup stripped
    BY <1>21 DEF PagesPurged, SearchAt, SearchEnds
  <2>2. ASSUME NEW i \in SearchedIdeas \ torn', searchIdeas'[i].state = "live"
        PROVE  Kept(i, r, SearchIdle)
    <3>1. i \notin stripped /\ (i \in torn => i \in purged)
      BY <2>1
    <3>2. i \notin purged
      <4>1. i \in purged => searchIdeas'[i] = Unstored(i)
        BY <1>21 DEF PagesPurged
      <4>2. Unstored(i).state = "none"
        BY <1>1 DEF Unstored, SearchRow
      <4>3. QED BY <2>2, <4>1, <4>2
    <3>3. searchIdeas'[i] = searchIdeas[i]
      BY <1>21, <3>1, <3>2 DEF PagesPurged
    <3>4. index'[i] = index[i]
      BY <1>21, <3>1, <3>2 DEF PagesPurged
    <3>5. QED BY <2>1, <3>1, <3>2, <3>3, <3>4 DEF Kept, Owes, HasStored
  <2>3. ReadNow(SearchIdle)'
    BY <1>1 DEF ReadNow
  <2>4. QED BY <1>1, <1>4, <2>1, <2>2, <2>3
<1>22. CASE IndexRows(q)
  <2>1. /\ r.pc = "index" /\ Sqlite /\ SearchGoto(q, SearchIdle) /\ UNCHANGED <<setup, searchIdeas>>
        /\ torn' = torn \ r.ideas
    BY <1>22 DEF IndexRows, SearchAt, SearchEnds
  <2>2. ASSUME NEW i \in SearchedIdeas \ torn', searchIdeas'[i].state = "live"
        PROVE  Indexed(i)' \/ Kept(i, r, SearchIdle)
    <3>1. CASE i \in r.ideas
      <4>1. Stored(i)
        BY <2>1, <2>2 DEF Stored
      <4>2. index'[i] = [text |-> IndexedText(r, i), tags |-> searchIdeas[i].tags]
        BY <1>22, <3>1, <4>1 DEF IndexRows
      <4>3. IndexedText(r, i) \in Nat
        BY <1>1, SearchNumbers DEF IndexedText, SearchRequest, SearchRow
      <4>4. Serial => IndexedText(r, i) = searchIdeas[i].text
        BY <1>3, <2>1, <3>1 DEF IndexedText, ReadNow
      <4>5. index'[i].text = IndexedText(r, i) /\ index'[i].tags = searchIdeas[i].tags
        BY <4>2
      <4>6. index'[i] # NoIndexEntry
        BY <4>3, <4>5 DEF NoIndexEntry
      <4>7. QED BY <2>1, <4>4, <4>5, <4>6 DEF Indexed, Sqlite, Serial
    <3>2. CASE i \notin r.ideas
      <4>1. index'[i] = index[i]
        BY <1>22, <3>2 DEF IndexRows
      <4>2. QED BY <2>1, <3>2, <4>1 DEF Kept, Owes
    <3>3. QED BY <3>1, <3>2
  <2>3. ReadNow(SearchIdle)'
    BY <1>1 DEF ReadNow
  <2>4. QED BY <1>1, <1>4, <2>1, <2>2, <2>3
<1>23. CASE ReadTags(q)
  <2>1. PICK seen : seen = [i \in SearchedIdeas |->
                              IF i \in r.ideas THEN searchIdeas[i].tags ELSE 0]
    OBVIOUS
  <2>2. PICK s : s = [r EXCEPT !.pc = "write", !.tags = seen]
    OBVIOUS
  <2>3. s.pc = "write" /\ s.ideas = r.ideas /\ s.text = r.text /\ s.tags = seen
    BY <1>1, <2>2 DEF SearchRequest
  <2>4. SearchGoto(q, s) /\ r.pc = "index" /\ ~Sqlite /\ UNCHANGED <<setup, searchIdeas, index, torn>>
    BY <1>23, <2>1, <2>2 DEF ReadTags, SearchAt
  <2>5. \A i \in SearchedIdeas \ torn' : Kept(i, r, s)
    BY <2>3, <2>4 DEF Kept, Owes, HasStored
  <2>6. Serial => ReadNow(s)'
    <3>1. \A i \in r.ideas : seen[i] = searchIdeas[i].tags
      BY <1>1, <2>1 DEF SearchRequest
    <3>2. QED BY <1>3, <2>3, <2>4, <3>1 DEF ReadNow
  <2>7. QED BY <1>4, <2>4, <2>5, <2>6
<1>24. CASE WriteColumns(q)
  <2>1. /\ r.pc = "write" /\ SearchGoto(q, SearchIdle) /\ UNCHANGED <<setup, searchIdeas>>
        /\ torn' = torn \ r.ideas
    BY <1>24 DEF WriteColumns, SearchAt, SearchEnds
  <2>2. ASSUME NEW i \in SearchedIdeas \ torn', searchIdeas'[i].state = "live"
        PROVE  Indexed(i)' \/ Kept(i, r, SearchIdle)
    <3>1. CASE i \in r.ideas
      <4>1. Stored(i)
        BY <2>1, <2>2 DEF Stored
      <4>2. index'[i] = [text |-> searchIdeas[i].text, tags |-> r.tags[i]]
        BY <1>24, <3>1, <4>1 DEF WriteColumns
      <4>3. index'[i].text = searchIdeas[i].text /\ index'[i].tags = r.tags[i]
        BY <4>2
      <4>4. Serial => r.tags[i] = searchIdeas[i].tags
        BY <1>3, <2>1, <3>1 DEF ReadNow
      <4>5. index'[i] # NoIndexEntry
        BY <1>1, <4>3, SearchNumbers DEF NoIndexEntry, SearchRow
      <4>6. ~Sqlite
        BY <2>1 DEF SearchInv
      <4>7. QED BY <2>1, <4>3, <4>4, <4>5, <4>6 DEF Indexed, Sqlite, Serial
    <3>2. CASE i \notin r.ideas
      <4>1. index'[i] = index[i]
        BY <1>24, <3>2 DEF WriteColumns
      <4>2. QED BY <2>1, <3>2, <4>1 DEF Kept, Owes
    <3>3. QED BY <3>1, <3>2
  <2>3. ReadNow(SearchIdle)'
    BY <1>1 DEF ReadNow
  <2>4. QED BY <1>1, <1>4, <2>1, <2>2, <2>3
<1>25. CASE SearchCut(q)
  <2>1. /\ SearchGoto(q, SearchIdle) /\ UNCHANGED <<setup, searchIdeas, index>>
        /\ torn' = IF HasStored(r) THEN torn \cup r.ideas ELSE torn
    BY <1>25 DEF SearchCut, SearchEnds
  <2>2. \A i \in SearchedIdeas \ torn' : Kept(i, r, SearchIdle)
    BY <2>1 DEF Kept, Owes
  <2>3. ReadNow(SearchIdle)'
    BY <1>1 DEF ReadNow
  <2>4. QED BY <1>1, <1>4, <2>1, <2>2, <2>3
<1>26. QED
  BY <1>9, <1>10, <1>11, <1>12, <1>13, <1>14, <1>15, <1>16, <1>17, <1>18, <1>19, <1>20, <1>21,
     <1>22, <1>23, <1>24, <1>25 DEF SearchStep

LEMMA SearchNextKeeps ==
  ASSUME SearchTyped, SearchInv, [SearchIndexNext]_searchVars
  PROVE  SearchInv'
<1>1. CASE UNCHANGED searchVars
  BY <1>1 DEF searchVars, SearchInv, Owes, Indexed, ReadNow, IsLive, Sqlite, Serial
<1>2. ASSUME NEW i \in SearchedIdeas, DeletedLongAgo(i), UNCHANGED workers PROVE SearchInv'
  <2>1. PICK row : row = [searchIdeas[i] EXCEPT !.state = "due"]
    OBVIOUS
  <2>2. /\ row \in SearchRow /\ row.state = "due" /\ Writes(i, row)
        /\ row.text = searchIdeas[i].text /\ row.tags = searchIdeas[i].tags
    <3>1. searchIdeas[i] \in SearchRow
      BY SearchFacts
    <3>2. QED BY <1>2, <2>1, <3>1 DEF DeletedLongAgo, SearchRow
  <2>3. \A j \in SearchedIdeas : /\ searchIdeas'[j].text = searchIdeas[j].text
                                 /\ searchIdeas'[j].tags = searchIdeas[j].tags
                                 /\ searchIdeas'[j].state = "live" => IsLive(j)
    BY <2>2, WritesType DEF IsLive
  <2>4. UNCHANGED <<workers, setup, index, torn, searchReq>>
    BY <1>2 DEF DeletedLongAgo
  <2>5. \A j \in SearchedIdeas \ torn' : IsLive(j)' =>
          Indexed(j)' \/ \E q \in workers' : Owes(searchReq[q], j)'
    <3>1. ASSUME NEW j \in SearchedIdeas \ torn, IsLive(j)'
          PROVE  Indexed(j)' \/ \E q \in workers : Owes(searchReq[q], j)
      <4>1. Indexed(j) \/ \E q \in workers : Owes(searchReq[q], j)
        BY <2>3, <3>1 DEF SearchInv, IsLive
      <4>2. Indexed(j) => Indexed(j)'
        BY <2>3, <2>4 DEF Indexed, Sqlite, Serial
      <4>3. QED BY <4>1, <4>2
    <3>2. QED BY <2>4, <3>1 DEF Owes
  <2>6. \A q \in workers : \A j \in searchReq[q].ideas : j \in SearchedIdeas
    BY SearchFacts DEF SearchRequest
  <2>7. Serial => \A q \in workers : ReadNow(searchReq[q])'
    <3>1. ASSUME Serial, NEW q \in workers PROVE ReadNow(searchReq[q])'
      <4>1. ReadNow(searchReq[q])
        BY <3>1 DEF SearchInv
      <4>2. QED BY <2>3, <2>4, <2>6, <4>1 DEF ReadNow
    <3>2. QED BY <3>1
  <2>8. \A q \in workers : searchReq[q].pc = "write" => ~Sqlite
    BY DEF SearchInv
  <2>9. QED BY <2>4, <2>5, <2>7, <2>8 DEF SearchInv, Sqlite, Serial
<1>3. QED BY <1>1, <1>2, SearchStepKeeps DEF SearchIndexNext

LEMMA SearchStarts == ASSUME SearchIndexInit, SearchTyped PROVE SearchInv
<1>1. \A i \in SearchedIdeas : ~IsLive(i)
  BY DEF SearchIndexInit, IsLive
<1>2. \A q \in workers : searchReq[q].pc = "idle"
  BY SearchFacts, SearchIdleType DEF SearchIndexInit
<1>3. QED BY <1>1, <1>2 DEF SearchInv, ReadNow

\* When no handler runs, every live idea whose handlers ran to their end has
\* its entry, with its own tags in SQLite, its own text in PostgreSQL, and both
\* with one handler at a time.
THEOREM IndexIsFollowed == SearchIndexSpec => []IndexFollows
<1>1. SearchIndexSpec => [](SearchTyped /\ SearchInv)
  BY SearchInitTyped, SearchNextTyped, SearchStarts, SearchNextKeeps, PTL DEF SearchIndexSpec
<1>2. SearchInv => IndexFollows
  <2>1. ASSUME SearchInv, \A q \in workers : searchReq[q].pc = "idle",
               NEW i \in SearchedIdeas \ torn, IsLive(i)
        PROVE  Indexed(i)
    <3>1. \A q \in workers : ~Owes(searchReq[q], i)
      BY <2>1 DEF Owes, HasStored
    <3>2. QED BY <2>1, <3>1 DEF SearchInv
  <2>2. QED BY <2>1 DEF IndexFollows, Indexed
<1>3. QED BY <1>1, <1>2, PTL
=============================================================================
