------------------------------ MODULE ListCache ------------------------------
(***************************************************************************)
(* The lists that CategoryService, TagService and AnalyticsService keep in *)
(* a class attribute for some minutes.  Every process of the server has    *)
(* its own, and nothing locks it: the check for a key, the read of its     *)
(* entry and the deletion of an expired one are separate steps that other  *)
(* threads of the process come between.                                    *)
(*                                                                         *)
(* A list is known by its version.  Handlers are short next to the time to *)
(* live: time passes when none runs.                                       *)
(***************************************************************************)
EXTENDS Integers, Sequences, Workers

CONSTANTS
  Processes,   \* processes of the server
  CACHE_TTL,   \* time to live of an entry
  MaxCacheTime, MaxVersion  \* bounds: time, and changes to the list

ASSUME ListCacheAssumption ==
  Processes # {} /\ {CACHE_TTL, MaxCacheTime, MaxVersion} \subseteq Nat

VARIABLES
  retired,    \* history: when each version was replaced, and by which process
  cache,      \* the entry of each process
  cacheTime,
  served,     \* what the last read returned, until something else happens
  cacheReq    \* the handler that each worker runs

cacheVars == <<workers, retired, cache, cacheTime, served, cacheReq>>

-----------------------------------------------------------------------------
\* The version that the database holds.
Version == Len(retired)
Entry == [version : 0..MaxVersion, time : 0..MaxCacheTime]
NoEntry == [version |-> -1, time |-> 0]
NotServed == [version |-> -1, process |-> CHOOSE p \in Processes : TRUE]
KeyError == [NotServed EXCEPT !.version = -2]

CacheRequest == [pc : {"idle", "get", "expired", "query", "set", "invalidate", "delete"},
                 process : Processes, version : -1..MaxVersion]
CacheIdle == [pc |-> "idle", process |-> CHOOSE p \in Processes : TRUE, version |-> -1]
CacheAt(q, step) == q \in workers /\ cacheReq[q].pc = step
CacheGoto(q, r) == cacheReq' = [cacheReq EXCEPT ![q] = r]
CacheEnds(q) == CacheGoto(q, CacheIdle)
Has(p) == cache[p] # NoEntry
Serves(q, v) == /\ served' = [version |-> v, process |-> cacheReq[q].process]
                /\ CacheEnds(q)

ListCacheInit ==
  /\ WorkersInit
  /\ retired = <<>>
  /\ cache = [p \in Processes |-> NoEntry]
  /\ cacheTime = 0
  /\ served = NotServed
  /\ cacheReq = [q \in Worker |-> CacheIdle]

-----------------------------------------------------------------------------
(* Reading *)

\* A get_ handler asks whether the key is there.
ReadList(q, p) ==
  /\ CacheAt(q, "idle") /\ served' = NotServed
  /\ CacheGoto(q, [CacheIdle EXCEPT !.process = p, !.pc = IF Has(p) THEN "get" ELSE "query"])
  /\ UNCHANGED <<retired, cache, cacheTime>>

\* _get_from_cache takes the entry: a KeyError if it is gone by now.
\* Mutant of Fresh: an entry never expires.
FreshAlways(entry) == TRUE
Fresh(entry) == cacheTime - entry.time <= CACHE_TTL
GetEntry(q) ==
  /\ CacheAt(q, "get")
  /\ LET p == cacheReq[q].process
     IN \/ ~Has(p) /\ Serves(q, KeyError.version)
        \/ Has(p) /\ Fresh(cache[p]) /\ Serves(q, cache[p].version)
        \/ /\ Has(p) /\ ~Fresh(cache[p])
           /\ CacheGoto(q, [cacheReq[q] EXCEPT !.pc = "expired"]) /\ served' = NotServed
  /\ UNCHANGED <<retired, cache, cacheTime>>

\* The expired entry is deleted, or what another thread has put in its place.
DropExpired(q) ==
  /\ CacheAt(q, "expired")
  /\ LET p == cacheReq[q].process
     IN IF Has(p) THEN /\ cache' = [cache EXCEPT ![p] = NoEntry]
                       /\ CacheGoto(q, [cacheReq[q] EXCEPT !.pc = "query"])
                       /\ served' = NotServed
                  ELSE cache' = cache /\ Serves(q, KeyError.version)
  /\ UNCHANGED <<retired, cacheTime>>

QueryList(q) ==
  /\ CacheAt(q, "query") /\ served' = NotServed
  /\ CacheGoto(q, [cacheReq[q] EXCEPT !.pc = "set", !.version = Version])
  /\ UNCHANGED <<retired, cache, cacheTime>>

SetCache(q) ==
  /\ CacheAt(q, "set") /\ Serves(q, cacheReq[q].version)
  /\ cache' = [cache EXCEPT ![cacheReq[q].process] =
                              [version |-> cacheReq[q].version, time |-> cacheTime]]
  /\ UNCHANGED <<retired, cacheTime>>

-----------------------------------------------------------------------------
(* Writing *)

Replaced(by) == /\ Version < MaxVersion
                /\ retired' = Append(retired, [time |-> cacheTime, by |-> by])
                /\ served' = NotServed

\* A handler that changes the list commits, and then invalidates the cache.
ChangeList(q, p) ==
  /\ CacheAt(q, "idle") /\ Replaced({p})
  /\ CacheGoto(q, [CacheIdle EXCEPT !.process = p, !.pc = "invalidate"])
  /\ UNCHANGED <<cache, cacheTime>>

\* A change of ideas: the counts in the lists change and no cache is told.
ChangeCounts(q) ==
  /\ CacheAt(q, "idle") /\ Replaced({})
  /\ UNCHANGED <<cache, cacheTime, cacheReq>>

\* invalidate_cache empties the dictionary; invalidate_popular_cache collects
\* the keys, then deletes each.
\* Mutant of Cleared: the entry stays.
ClearedNot(p) == cache
Cleared(p) == [cache EXCEPT ![p] = NoEntry]
ClearCache(q) ==
  /\ CacheAt(q, "invalidate") /\ CacheEnds(q) /\ served' = NotServed
  /\ cache' = Cleared(cacheReq[q].process)
  /\ UNCHANGED <<retired, cacheTime>>
CollectKeys(q) ==
  /\ CacheAt(q, "invalidate") /\ Has(cacheReq[q].process) /\ served' = NotServed
  /\ CacheGoto(q, [cacheReq[q] EXCEPT !.pc = "delete"])
  /\ UNCHANGED <<retired, cache, cacheTime>>
DeleteKeys(q) ==
  /\ CacheAt(q, "delete")
  /\ LET p == cacheReq[q].process
     IN IF Has(p) THEN cache' = Cleared(p) /\ served' = NotServed /\ CacheEnds(q)
                  ELSE cache' = cache /\ Serves(q, KeyError.version)
  /\ UNCHANGED <<retired, cacheTime>>

CacheTick ==
  /\ \A q \in workers : cacheReq[q].pc = "idle"
  /\ cacheTime < MaxCacheTime /\ cacheTime' = cacheTime + 1 /\ served' = NotServed
  /\ UNCHANGED <<retired, cache, cacheReq>>

CacheStep(q) ==
  \/ \E p \in Processes : ReadList(q, p) \/ ChangeList(q, p)
  \/ GetEntry(q) \/ DropExpired(q) \/ QueryList(q) \/ SetCache(q)
  \/ ChangeCounts(q) \/ ClearCache(q) \/ CollectKeys(q) \/ DeleteKeys(q)
ListCacheNext == UNCHANGED workers /\ (CacheTick \/ \E q \in workers : CacheStep(q))
ListCacheSpec == ListCacheInit /\ [][ListCacheNext]_cacheVars

ListCacheTypeOK ==
  /\ Version <= MaxVersion
  /\ \A v \in 1..Version : retired[v] \in [time : 0..MaxCacheTime, by : SUBSET Processes]
  /\ cache \in [Processes -> Entry \cup {NoEntry}]
  /\ cacheTime \in 0..MaxCacheTime
  /\ served \in [version : -2..MaxVersion, process : Processes]
  /\ cacheReq \in [Worker -> CacheRequest]

\* The version in use until "retired[v + 1]" was put in its place.
Outdated == served.version \in 0..Version-1

\* However threads and processes interleave, and though a read may put back
\* what a writer has just invalidated, nobody is served a list that was
\* replaced longer ago than the time to live.
StaleForTTLOnly == Outdated => cacheTime - retired[served.version + 1].time <= CACHE_TTL

\* With one handler at a time, a process never serves a list that one of its
\* own handlers has replaced.
OwnWritesSeen ==
  Serial /\ Outdated =>
    \A v \in served.version + 1 .. Version : served.process \notin retired[v].by
=============================================================================
