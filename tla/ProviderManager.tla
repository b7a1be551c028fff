--------------------------- MODULE ProviderManager ---------------------------
(***************************************************************************)
(* Provider records (providers/providers_manager.go, provider_set.go).     *)
(*                                                                         *)
(* One goroutine, run, owns a cache of provider sets over a datastore.  It *)
(* adds providers to both, loads the set of a key that is not cached, and  *)
(* now and then collects the records that are older than ProvideValidity.  *)
(* A collection is a query whose results are taken one by one, between     *)
(* additions and loads; what it decides on is the state of the store when  *)
(* it began.                                                               *)
(*                                                                         *)
(* Times are abstracted to whether a record is too old by now.  Any access *)
(* to the store may fail, also because the context of the caller, which    *)
(* run works with, is cancelled by then.                                   *)
(*                                                                         *)
(* The store is an autobatch datastore (go-datastore, external): puts and  *)
(* deletes wait in a buffer that is flushed when it is full and before     *)
(* each query.  stored and expired are the records as a query would find   *)
(* them if its flush succeeded; a flush that fails may lose what waits.    *)
(***************************************************************************)
EXTENDS Integers, FiniteSets

CONSTANTS
  Key, Provider,
  Record,          (* who may provide what                                 *)
  CacheSize,       (* lruCacheSize                                         *)
  MaxFaults        (* operations on the store that fail: a bound           *)

ASSUME ProviderAssumption ==
  /\ CacheSize \in Nat \ {0}
  /\ MaxFaults \in Nat
  /\ Record \subseteq Key \X Provider

RecordsOf(k) == {r \in Record : r[1] = k}

VARIABLES
  stored, expired, (* the records in the store, those that are too old     *)
  unflushed,       (* those whose last write or deletion may still wait    *)
  cache,           (* the cached set of each key; none is empty            *)
  running,         (* whether run is                                       *)
  gc,              (* gcTimer and gcQuery                                  *)
  pending, doomed, (* results still to come; those too old at gcTime       *)
  gcSkip,          (* records added since the query                        *)
  faults,
  discord,         (* records that the cache and the store may disagree    *)
                   (* about, because an operation failed                   *)
  dead             (* too old when the cache was last purged and not added *)
                   (* again                                                *)

storeVars == <<stored, expired>>
gcVars    == <<gc, pending, doomed, gcSkip>>
vars      == <<storeVars, unflushed, cache, running, gcVars, faults, discord, dead>>

TypeOK ==
  /\ stored \subseteq Record
  /\ expired \subseteq stored
  /\ unflushed \subseteq Record
  /\ cache \in [Key -> SUBSET Provider]
  /\ running \in BOOLEAN
  /\ gc \in {"armed", "collecting", "stuck"}
  /\ pending \subseteq Record
  /\ doomed \subseteq Record
  /\ gcSkip \subseteq Record
  /\ gc # "collecting" => pending = {} /\ gcSkip = {}
  /\ faults \in 0..MaxFaults
  /\ discord \subseteq Record
  /\ dead \subseteq Record

(* The store may hold records of an earlier run of the node.               *)
Init ==
  /\ stored \in SUBSET Record
  /\ expired \in SUBSET stored
  /\ unflushed = {}
  /\ cache = [k \in Key |-> {}]
  /\ running = TRUE
  /\ gc = "armed" /\ pending = {} /\ doomed = {} /\ gcSkip = {}
  /\ faults = 0
  /\ discord = {} /\ dead = {}

Fails == faults < MaxFaults /\ faults' = faults + 1

(* Only a failure tells what waits, so that nothing need be remembered     *)
(* once MaxFaults is reached.                                              *)
Wait(records) == unflushed' = IF faults' < MaxFaults THEN records ELSE {}

(* A flush fails, with a put or a deletion that filled the buffer or       *)
(* before a query.  The buffer is kept, or it was emptied and some of what *)
(* it held is lost: such a record is then gone, or as it once was.         *)
FlushFails(put, deleted) ==
  LET held == unflushed \cup put \cup deleted IN
  \E lost \in SUBSET held : \E back \in SUBSET lost : \E old \in SUBSET back :
    /\ back \ unflushed = (stored \cap lost) \ unflushed
    /\ old \ unflushed = (expired \cap lost) \ unflushed
    /\ back \cap dead \subseteq old
    /\ stored' = (((stored \cup put) \ deleted) \ lost) \cup back
    /\ expired' = (expired \ (put \cup deleted \cup lost)) \cup old
    /\ Wait(IF lost = {} THEN held ELSE {})
    /\ discord' = discord \cup put \cup lost

-----------------------------------------------------------------------------
(* addProv: the cached set, if there is one, and then the store.           *)

Cached(r) == r[2] \in cache[r[1]]
IsCached(k) == cache[k] # {}

SetVal(r) ==
  cache' = IF IsCached(r[1]) THEN [cache EXCEPT ![r[1]] = @ \cup {r[2]}] ELSE cache

Put(r) ==
  /\ stored' = stored \cup {r}
  /\ expired' = expired \ {r}
  /\ UNCHANGED faults
  /\ Wait(unflushed \cup {r})

Skip(r) == gcSkip' = IF gc = "collecting" THEN gcSkip \cup {r} ELSE gcSkip

AddProv_StoreOnly(r) ==
  /\ running
  /\ UNCHANGED cache
  /\ Put(r)
  /\ Skip(r)
  /\ discord' = discord \ {r}
  /\ dead' = dead \ {r}
  /\ UNCHANGED <<running, gc, pending, doomed>>

AddProv(r) ==
  /\ running
  /\ SetVal(r)
  /\ Put(r)
  /\ Skip(r)
  /\ discord' = discord \ {r}
  /\ dead' = dead \ {r}
  /\ UNCHANGED <<running, gc, pending, doomed>>

AddProvFails(r) ==
  /\ running
  /\ Fails
  /\ SetVal(r)
  /\ FlushFails({r}, {})
  /\ dead' = dead \ {r}
  /\ UNCHANGED <<running, gcVars>>

-----------------------------------------------------------------------------
(* getProviderSetForKey for a key that is not cached.                      *)

CachedKeys == {k \in Key : IsCached(k)}

(* cache.Add: a full cache gives up another key's set.                     *)
CacheAdd(k, found) ==
  \E evicted \in SUBSET CachedKeys :
    /\ Cardinality(evicted) = IF Cardinality(CachedKeys) < CacheSize THEN 0 ELSE 1
    /\ cache' = [j \in Key |-> IF j = k THEN found ELSE IF j \in evicted THEN {} ELSE cache[j]]

(* loadProviderSet skips results it gets an error for, and deletes records *)
(* that are too old, as far as the store lets it.                          *)
LoadProviderSet(k) ==
  \E unread, undeleted \in SUBSET (stored \cap RecordsOf(k)) :
    LET valid == ((stored \ expired) \cap RecordsOf(k)) \ unread
        gone  == (expired \cap RecordsOf(k)) \ (unread \cup undeleted)
        found == {r[2] : r \in valid}
    IN
    /\ undeleted \subseteq expired
    /\ IF unread \cup undeleted = {} THEN UNCHANGED faults ELSE Fails
    /\ stored' = stored \ gone
    /\ expired' = expired \ gone
    /\ IF found = {} THEN UNCHANGED cache ELSE CacheAdd(k, found)
    /\ Wait(gone \cup undeleted)
    /\ discord' = discord \cup unread

GetProviders(k) ==
  /\ running
  /\ ~ IsCached(k)
  /\ LoadProviderSet(k)
  /\ UNCHANGED <<running, gcVars, dead>>

(* The query fails: an empty answer, and nothing is cached.                *)
GetProvidersFails(k) ==
  /\ running
  /\ ~ IsCached(k)
  /\ Fails
  /\ FlushFails({}, {})
  /\ UNCHANGED <<cache, running, gcVars, dead>>

-----------------------------------------------------------------------------
(* Collection.                                                             *)

GcBegins_KeepsCache ==
  /\ running
  /\ gc = "armed"
  /\ gc' = "collecting"
  /\ pending' = stored
  /\ doomed' = expired
  /\ gcSkip' = {}
  /\ unflushed' = {}
  /\ discord' = {}
  /\ dead' = expired
  /\ UNCHANGED <<storeVars, cache, running, faults>>

GcBegins ==
  /\ running
  /\ gc = "armed"
  /\ cache' = [k \in Key |-> {}]
  /\ gc' = "collecting"
  /\ pending' = stored
  /\ doomed' = expired
  /\ gcSkip' = {}
  /\ unflushed' = {}
  /\ discord' = {}
  /\ dead' = expired
  /\ UNCHANGED <<storeVars, running, faults>>

(* The timer has fired and is not reset if the query fails.                *)
GcQueryFails ==
  /\ running
  /\ gc = "armed"
  /\ Fails
  /\ cache' = [k \in Key |-> {}]
  /\ gc' = "stuck"
  /\ FlushFails({}, {})
  /\ dead' = expired'
  /\ UNCHANGED <<running, pending, doomed, gcSkip>>

Delete(r) ==
  /\ stored' = stored \ {r}
  /\ expired' = expired \ {r}
  /\ UNCHANGED faults
  /\ Wait(unflushed \cup {r})

(* A result holds the record as it was when the query began, or as it was  *)
(* when it was read since.                                                 *)
GcResult(r) ==
  /\ running
  /\ r \in pending
  /\ pending' = pending \ {r}
  /\ \/ r \in doomed \ gcSkip /\ Delete(r)
     \/ r \notin (doomed \cap expired) \ gcSkip /\ UNCHANGED <<storeVars, unflushed, faults>>
  /\ UNCHANGED <<cache, running, gc, doomed, gcSkip, discord, dead>>

(* The result is an error, or deleting its record fails.                   *)
GcResultFails(r) ==
  /\ running
  /\ r \in pending
  /\ Fails
  /\ pending' = pending \ {r}
  /\ \/ r \in doomed \ gcSkip /\ FlushFails({}, {r})
     \/ UNCHANGED <<storeVars, unflushed, discord>>
  /\ UNCHANGED <<cache, running, gc, doomed, gcSkip, dead>>

GcEnds_KeepsTimer ==
  /\ running
  /\ gc = "collecting"
  /\ pending = {}
  /\ gc' = "ended"
  /\ doomed' = {} /\ gcSkip' = {}
  /\ UNCHANGED <<storeVars, unflushed, cache, running, pending, faults, discord, dead>>

GcEnds ==
  /\ running
  /\ gc = "collecting"
  /\ pending = {}
  /\ gc' = "armed"
  /\ doomed' = {} /\ gcSkip' = {}
  /\ UNCHANGED <<storeVars, unflushed, cache, running, pending, faults, discord, dead>>

-----------------------------------------------------------------------------
(* run flushes the store on its way out, which may fail as well.           *)
Close ==
  /\ running
  /\ running' = FALSE
  /\ \/ Fails /\ FlushFails({}, {})
     \/ unflushed' = {} /\ UNCHANGED <<storeVars, faults, discord>>
  /\ UNCHANGED <<cache, gcVars, dead>>

(* ProvideValidity passes for a record.                                    *)
Expire(r) ==
  /\ r \in stored \ expired
  /\ expired' = expired \cup {r}
  /\ UNCHANGED <<stored, unflushed, cache, running, gcVars, faults, discord, dead>>

Collect == GcBegins \/ (\E r \in Record : GcResult(r)) \/ GcEnds

Next ==
  \/ \E r \in Record : AddProv(r) \/ AddProvFails(r) \/ GcResultFails(r) \/ Expire(r)
  \/ \E k \in Key : GetProviders(k) \/ GetProvidersFails(k)
  \/ Collect \/ GcQueryFails
  \/ Close

Spec == Init /\ [][Next]_vars

(* run is scheduled, its timer fires, the query goes on to its end, and    *)
(* run's select takes each of its channels some time.                      *)
FairSpec == Spec /\ WF_vars(Collect)
-----------------------------------------------------------------------------
(* A record leaves the store only if it was too old, though a collection   *)
(* decides on what it read when it began and the record may have been      *)
(* renewed since; or it is one that a failed operation may have lost.      *)
OnlyExpiredCollected ==
  [][stored \ stored' \subseteq expired \cup discord']_vars

(* As long as nothing failed, a cached set holds nobody who is not in the  *)
(* store and misses nobody who is and is not too old: the answers do not   *)
(* depend on whether a key happens to be cached.                           *)
CacheAgrees ==
  \A r \in Record \ discord :
    IsCached(r[1]) => /\ Cached(r) => r \in stored
                      /\ r \in stored \ expired => Cached(r)

(* Cached sets do not expire, but each collection begins with an empty     *)
(* cache: who was too old then is not served again unless it is added.     *)
DeadNotServed == \A r \in dead : ~ Cached(r)

(* A record that is too old is collected, loaded away or renewed, unless   *)
(* the query of a collection failed, after which there is no other.        *)
ExpiredCollected ==
  \A r \in Record : r \in expired ~> r \notin expired \/ gc = "stuck" \/ ~ running
=============================================================================
