------------------------ MODULE ProviderManagerProofs ------------------------
(***************************************************************************)
(* Theorems about provider records, for any keys, providers, size of the   *)
(* cache and number of failures.                                           *)
(***************************************************************************)
EXTENDS ProviderManager, TLAPS

(* What was too old when the cache was purged, and has not been added      *)
(* since, still is if the store has it.                                    *)
DeadIsOld == dead \cap stored \subseteq expired

(* What a collection may still delete is dead, unless its addition failed  *)
(* half way.                                                               *)
DeletableIsDead == gc = "collecting" => doomed \ gcSkip \subseteq dead \cup discord

IInv ==
  /\ TypeOK
  /\ DeadIsOld
  /\ DeletableIsDead
  /\ DeadNotServed
  /\ CacheAgrees

LEMMA RecordParts == \A r \in Record : r[1] \in Key /\ r[2] \in Provider
BY ProviderAssumption

LEMMA InitOK == Init => IInv
BY ProviderAssumption, RecordParts
   DEF Init, IInv, TypeOK, DeadIsOld, DeletableIsDead, DeadNotServed, CacheAgrees, Cached, IsCached

-----------------------------------------------------------------------------
(* What an addition does to the cache.                                     *)
LEMMA SetValOK ==
  ASSUME cache \in [Key -> SUBSET Provider], NEW r \in Record, SetVal(r)
  PROVE  /\ cache' \in [Key -> SUBSET Provider]
         /\ \A k \in Key : IsCached(k)' = IsCached(k)
         /\ IsCached(r[1]) => Cached(r)'
         /\ \A q \in Record : q # r => Cached(q)' = Cached(q)
<1>1. r[1] \in Key /\ r[2] \in Provider /\ \A q \in Record : q[1] \in Key /\ q[2] \in Provider
  BY RecordParts
<1>2. CASE ~ IsCached(r[1])
  BY <1>1, <1>2 DEF SetVal, IsCached, Cached
<1>3. CASE IsCached(r[1])
  <2>1. cache' = [cache EXCEPT ![r[1]] = @ \cup {r[2]}]
    BY <1>3 DEF SetVal
  <2>2. cache'[r[1]] = cache[r[1]] \cup {r[2]}
    BY <1>1, <2>1
  <2>3. \A k \in Key : k # r[1] => cache'[k] = cache[k]
    BY <1>1, <2>1
  <2>4. ASSUME NEW q \in Record, q # r PROVE Cached(q)' = Cached(q)
    <3>1. q[1] # r[1] \/ q[2] # r[2]
      BY <2>4, ProviderAssumption
    <3> QED  BY <1>1, <2>2, <2>3, <3>1 DEF Cached
  <2>5. cache' \in [Key -> SUBSET Provider]
    BY <1>1, <2>1
  <2> QED  BY <1>1, <1>3, <2>2, <2>3, <2>4, <2>5 DEF Cached, IsCached
<1> QED  BY <1>2, <1>3

(* What loading a set does to the cache.                                   *)
LEMMA CacheAddOK ==
  ASSUME cache \in [Key -> SUBSET Provider], NEW k \in Key, NEW found \in SUBSET Provider,
         CacheAdd(k, found)
  PROVE  /\ cache' \in [Key -> SUBSET Provider]
         /\ cache'[k] = found
         /\ \A j \in Key : j # k => cache'[j] \in {{}, cache[j]}
BY DEF CacheAdd

(* What a flush that fails does to the store: the records that are neither *)
(* written nor lost stay as they are, and those that come back are in      *)
(* doubt, or too old if they were dead.                                    *)
LEMMA FlushFailsOK ==
  ASSUME TypeOK, NEW put \in SUBSET Record, NEW gone \in SUBSET Record,
         FlushFails(put, gone)
  PROVE  /\ stored' \subseteq Record /\ expired' \subseteq stored'
         /\ unflushed' \subseteq Record
         /\ discord' \subseteq Record /\ discord \cup put \subseteq discord'
         /\ \A q \in Record \ discord' :
              (q \in stored' <=> q \in stored \ gone) /\ (q \in expired' <=> q \in expired \ gone)
         /\ DeadIsOld => (dead \ put) \cap stored' \subseteq expired'
         /\ stored \ stored' \subseteq discord' \cup gone
<1>1. \E lost \in SUBSET (unflushed \cup put \cup gone) : \E back \in SUBSET lost : \E old \in SUBSET back :
        /\ back \cap dead \subseteq old
        /\ stored' = (((stored \cup put) \ gone) \ lost) \cup back
        /\ expired' = (expired \ (put \cup gone \cup lost)) \cup old
        /\ unflushed' \in {{}, unflushed \cup put \cup gone}
        /\ discord' = discord \cup put \cup lost
  BY DEF FlushFails, Wait
<1>2. PICK lost, back, old \in SUBSET Record :
        /\ old \subseteq back /\ back \subseteq lost
        /\ back \cap dead \subseteq old
        /\ stored' = (((stored \cup put) \ gone) \ lost) \cup back
        /\ expired' = (expired \ (put \cup gone \cup lost)) \cup old
        /\ unflushed' \in {{}, unflushed \cup put \cup gone}
        /\ discord' = discord \cup put \cup lost
  <2>1. \A lost \in SUBSET (unflushed \cup put \cup gone) : lost \in SUBSET Record
    BY DEF TypeOK
  <2> QED  BY <1>1, <2>1
<1>3. stored' \subseteq Record /\ expired' \subseteq stored'
  BY <1>2 DEF TypeOK
<1>4. unflushed' \subseteq Record /\ discord' \subseteq Record /\ discord \cup put \subseteq discord'
  BY <1>2 DEF TypeOK
<1>5. \A q \in Record \ discord' :
              (q \in stored' <=> q \in stored \ gone) /\ (q \in expired' <=> q \in expired \ gone)
  BY <1>2
<1>6. DeadIsOld => (dead \ put) \cap stored' \subseteq expired'
  BY <1>2 DEF DeadIsOld
<1>7. stored \ stored' \subseteq discord' \cup gone
  BY <1>2
<1> QED  BY <1>3, <1>4, <1>5, <1>6, <1>7

(* Before a query or at the end, and with a deletion.                      *)
LEMMA FlushLoses ==
  ASSUME TypeOK, DeadIsOld, FlushFails({}, {})
  PROVE  /\ stored' \subseteq Record /\ expired' \subseteq stored'
         /\ unflushed' \subseteq Record
         /\ discord' \subseteq Record /\ discord \subseteq discord'
         /\ \A q \in Record \ discord' : (q \in stored' <=> q \in stored) /\ (q \in expired' <=> q \in expired)
         /\ dead \cap stored' \subseteq expired'
<1> DEFINE none == {}
<1>1. none \in SUBSET Record /\ FlushFails(none, none)
  OBVIOUS
<1>2. \A q : q \notin none
  OBVIOUS
<1> HIDE DEF none
<1>3. /\ stored' \subseteq Record /\ expired' \subseteq stored'
      /\ unflushed' \subseteq Record
      /\ discord' \subseteq Record /\ discord \cup none \subseteq discord'
      /\ \A q \in Record \ discord' :
           (q \in stored' <=> q \in stored \ none) /\ (q \in expired' <=> q \in expired \ none)
      /\ (dead \ none) \cap stored' \subseteq expired'
  BY <1>1, FlushFailsOK
<1> QED  BY <1>2, <1>3

LEMMA FlushDeletes ==
  ASSUME TypeOK, DeadIsOld, NEW r \in Record, FlushFails({}, {r})
  PROVE  /\ stored' \subseteq Record /\ expired' \subseteq stored'
         /\ unflushed' \subseteq Record
         /\ discord' \subseteq Record /\ discord \subseteq discord'
         /\ \A q \in Record \ discord' :
             (q \in stored' <=> q \in stored \ {r}) /\ (q \in expired' <=> q \in expired \ {r})
         /\ dead \cap stored' \subseteq expired'
         /\ stored \ stored' \subseteq discord' \cup {r}
<1> DEFINE none == {}
           one  == {r}
<1>1. none \in SUBSET Record /\ one \in SUBSET Record /\ FlushFails(none, one)
  OBVIOUS
<1>2. \A q : q \notin none
  OBVIOUS
<1> HIDE DEF none, one
<1>3. /\ stored' \subseteq Record /\ expired' \subseteq stored'
      /\ unflushed' \subseteq Record
      /\ discord' \subseteq Record /\ discord \cup none \subseteq discord'
      /\ \A q \in Record \ discord' :
           (q \in stored' <=> q \in stored \ one) /\ (q \in expired' <=> q \in expired \ one)
      /\ (dead \ none) \cap stored' \subseteq expired'
      /\ stored \ stored' \subseteq discord' \cup one
  BY <1>1, FlushFailsOK
<1> QED  BY <1>2, <1>3 DEF one

-----------------------------------------------------------------------------
(* One lemma per action.                                                   *)

LEMMA AddStep ==
  ASSUME IInv, NEW r \in Record, AddProv(r)
  PROVE  IInv'
<1>1. /\ cache' \in [Key -> SUBSET Provider]
      /\ \A k \in Key : IsCached(k)' = IsCached(k)
      /\ IsCached(r[1]) => Cached(r)'
      /\ \A q \in Record : q # r => Cached(q)' = Cached(q)
  BY SetValOK DEF IInv, TypeOK, AddProv
<1>2. TypeOK'
  BY <1>1 DEF IInv, TypeOK, AddProv, Put, Skip, Wait
<1>3. DeletableIsDead'
  BY DEF IInv, TypeOK, DeletableIsDead, AddProv, Put, Skip
<1>4. DeadIsOld'
  BY DEF IInv, DeadIsOld, AddProv, Put
<1>5. DeadNotServed'
  BY <1>1 DEF IInv, TypeOK, DeadNotServed, AddProv
<1>6. CacheAgrees'
  <2>1. /\ stored' = stored \cup {r} /\ expired' = expired \ {r} /\ discord' = discord \ {r}
        /\ expired \subseteq stored
    BY DEF AddProv, Put, IInv, TypeOK
  <2> SUFFICES ASSUME NEW q \in Record, q \notin discord', IsCached(q[1])'
               PROVE  (Cached(q)' => q \in stored') /\ (q \in stored' \ expired' => Cached(q)')
    BY DEF CacheAgrees
  <2>2. IsCached(q[1])
    BY <1>1, RecordParts
  <2>3. CASE q = r
    BY <1>1, <2>1, <2>2, <2>3
  <2>4. CASE q # r
    BY <1>1, <2>1, <2>2, <2>4 DEF IInv, CacheAgrees
  <2> QED  BY <2>3, <2>4
<1> QED  BY <1>2, <1>3, <1>5, <1>6, <1>4 DEF IInv

LEMMA AddFailsStep ==
  ASSUME IInv, NEW r \in Record, AddProvFails(r)
  PROVE  IInv'
<1>1. /\ cache' \in [Key -> SUBSET Provider]
      /\ \A k \in Key : IsCached(k)' = IsCached(k)
      /\ \A q \in Record : q # r => Cached(q)' = Cached(q)
  BY SetValOK DEF IInv, TypeOK, AddProvFails
<1>2. /\ stored' \subseteq Record /\ expired' \subseteq stored'
      /\ unflushed' \subseteq Record
      /\ discord' \subseteq Record /\ discord \cup {r} \subseteq discord'
      /\ \A q \in Record \ discord' : (q \in stored' <=> q \in stored) /\ (q \in expired' <=> q \in expired)
      /\ (dead \ {r}) \cap stored' \subseteq expired'
  <2>1. FlushFails({r}, {}) /\ TypeOK /\ DeadIsOld
    BY DEF AddProvFails, IInv
  <2>2. {r} \in SUBSET Record /\ {} \in SUBSET Record
    OBVIOUS
  <2> QED  BY <2>1, <2>2, FlushFailsOK
<1>3. TypeOK'
  BY <1>1, <1>2, ProviderAssumption DEF IInv, TypeOK, AddProvFails, gcVars, Fails
<1>4. DeletableIsDead'
  BY <1>2 DEF IInv, TypeOK, DeletableIsDead, AddProvFails, gcVars
<1>5. DeadIsOld'
  BY <1>2 DEF DeadIsOld, AddProvFails
<1>6. DeadNotServed'
  BY <1>1 DEF IInv, TypeOK, DeadNotServed, AddProvFails
<1>7. CacheAgrees'
  <2> SUFFICES ASSUME NEW q \in Record, q \notin discord', IsCached(q[1])'
               PROVE  (Cached(q)' => q \in stored') /\ (q \in stored' \ expired' => Cached(q)')
    BY DEF CacheAgrees
  <2>1. IsCached(q[1]) /\ q # r /\ q \notin discord
    BY <1>1, <1>2, RecordParts
  <2> QED  BY <1>1, <1>2, <2>1 DEF IInv, CacheAgrees
<1> QED  BY <1>3, <1>4, <1>5, <1>6, <1>7 DEF IInv

LEMMA LoadStep ==
  ASSUME IInv, NEW k \in Key, GetProviders(k)
  PROVE  IInv'
<1>1. PICK unread, undeleted \in SUBSET (stored \cap RecordsOf(k)) :
        /\ undeleted \subseteq expired
        /\ faults' \in {faults, faults + 1} /\ (faults' = faults \/ faults < MaxFaults)
        /\ stored' = stored \ ((expired \cap RecordsOf(k)) \ (unread \cup undeleted))
        /\ expired' = expired \ ((expired \cap RecordsOf(k)) \ (unread \cup undeleted))
        /\ LET found == {r[2] : r \in ((stored \ expired) \cap RecordsOf(k)) \ unread}
           IN  IF found = {} THEN UNCHANGED cache ELSE CacheAdd(k, found)
        /\ unflushed' \subseteq expired \cap RecordsOf(k)
        /\ discord' = discord \cup unread
  BY DEF GetProviders, LoadProviderSet, Fails, Wait
<1> DEFINE found == {r[2] : r \in ((stored \ expired) \cap RecordsOf(k)) \ unread}
<1>2. found \in SUBSET Provider
  BY RecordParts DEF RecordsOf
<1>3. cache[k] = {} /\ UNCHANGED <<running, gcVars, dead>>
  BY DEF GetProviders, IsCached
<1>4. /\ cache' \in [Key -> SUBSET Provider]
      /\ cache'[k] = found
      /\ \A j \in Key : j # k => cache'[j] \in {{}, cache[j]}
  <2>1. CASE found = {}
    BY <1>1, <1>3, <2>1 DEF IInv, TypeOK
  <2>2. CASE found # {}
    <3>1. CacheAdd(k, found)
      BY <1>1, <2>2
    <3> HIDE DEF found
    <3> QED  BY <1>2, <3>1, CacheAddOK DEF IInv, TypeOK
  <2> QED  BY <2>1, <2>2
<1>5. /\ stored' \subseteq stored /\ expired' \subseteq expired /\ discord \subseteq discord'
      /\ stored' \cap expired \subseteq expired'
  BY <1>1
<1>6. \A r \in Record : r[1] # k => (r \in stored' <=> r \in stored) /\ (r \in expired' <=> r \in expired)
  <2> SUFFICES ASSUME NEW r \in Record, r[1] # k
               PROVE  (r \in stored' <=> r \in stored) /\ (r \in expired' <=> r \in expired)
    OBVIOUS
  <2>1. r \notin RecordsOf(k)
    BY DEF RecordsOf
  <2> QED  BY <1>1, <2>1
<1>7. TypeOK'
  <2>1. expired' \subseteq stored'
    BY <1>1 DEF IInv, TypeOK
  <2>2. faults' \in 0..MaxFaults
    BY <1>1, ProviderAssumption DEF IInv, TypeOK
  <2>3. discord' \subseteq Record /\ unflushed' \subseteq Record
    BY <1>1 DEF IInv, TypeOK
  <2> HIDE DEF found
  <2> QED  BY <1>3, <1>4, <1>5, <2>1, <2>2, <2>3 DEF IInv, TypeOK, gcVars
<1>8. DeletableIsDead' /\ DeadIsOld'
  BY <1>3, <1>5 DEF IInv, DeletableIsDead, DeadIsOld, gcVars
<1>9. \A r \in Record : r[1] = k => (Cached(r)' <=> r \in (stored \ expired) \ unread)
  <2> SUFFICES ASSUME NEW r \in Record, r[1] = k
               PROVE  r[2] \in found <=> r \in (stored \ expired) \ unread
    BY <1>4 DEF Cached
  <2>1. ASSUME NEW q \in RecordsOf(k), q[2] = r[2] PROVE q = r
    BY <2>1, ProviderAssumption DEF RecordsOf
  <2> QED  BY <2>1 DEF RecordsOf
<1>10. \A r \in Record : r[1] # k /\ IsCached(r[1])' => IsCached(r[1]) /\ (Cached(r)' <=> Cached(r))
  <2> HIDE DEF found
  <2> QED  BY <1>4, RecordParts DEF IsCached, Cached
<1>11. \A r \in Record : Cached(r)' => IsCached(r[1])'
  BY DEF Cached, IsCached
<1> HIDE DEF found
<1>12. DeadNotServed'
  <2> SUFFICES ASSUME NEW r \in dead, Cached(r)' PROVE FALSE
    BY <1>3 DEF DeadNotServed
  <2>1. r \in Record /\ ~ Cached(r) /\ (r \in stored => r \in expired)
    BY DEF IInv, TypeOK, DeadNotServed, DeadIsOld
  <2> QED  BY <1>9, <1>10, <1>11, <2>1
<1>13. CacheAgrees'
  <2> SUFFICES ASSUME NEW q \in Record, q \notin discord', IsCached(q[1])'
               PROVE  (Cached(q)' => q \in stored') /\ (q \in stored' \ expired' => Cached(q)')
    BY DEF CacheAgrees
  <2>1. q \notin discord /\ q \notin unread
    BY <1>1
  <2>2. CASE q[1] = k
    <3>1. q \in stored \ expired => q \in stored'
      BY <1>1
    <3> QED  BY <1>5, <1>9, <2>1, <2>2, <3>1
  <2>3. CASE q[1] # k
    BY <1>10, <1>6, <2>1, <2>3 DEF IInv, CacheAgrees
  <2> QED  BY <2>2, <2>3
<1> QED  BY <1>7, <1>8, <1>12, <1>13 DEF IInv

LEMMA BeginStep ==
  ASSUME IInv, GcBegins
  PROVE  IInv'
<1>1. /\ cache' = [k \in Key |-> {}] /\ dead' = expired /\ doomed' = expired
      /\ UNCHANGED storeVars
  BY DEF GcBegins
<1>2. TypeOK'
  BY DEF IInv, TypeOK, GcBegins, storeVars
<1>3. \A r \in Record : ~ Cached(r)' /\ ~ IsCached(r[1])'
  BY <1>1, RecordParts DEF Cached, IsCached
<1>4. DeletableIsDead' /\ DeadIsOld'
  BY <1>1 DEF DeletableIsDead, DeadIsOld, storeVars
<1>5. DeadNotServed' /\ CacheAgrees'
  BY <1>2, <1>3 DEF DeadNotServed, CacheAgrees, TypeOK
<1> QED  BY <1>2, <1>4, <1>5 DEF IInv

LEMMA QueryFailsStep ==
  ASSUME IInv, GcQueryFails
  PROVE  IInv'
<1>1. /\ stored' \subseteq Record /\ expired' \subseteq stored'
      /\ unflushed' \subseteq Record /\ discord' \subseteq Record
  <2>1. FlushFails({}, {}) /\ TypeOK
    BY DEF GcQueryFails, IInv
  <2> QED  BY <2>1, FlushFailsOK
<1>2. cache' = [k \in Key |-> {}] /\ gc' = "stuck" /\ dead' = expired'
  BY DEF GcQueryFails
<1>3. TypeOK'
  BY <1>1, <1>2, ProviderAssumption DEF IInv, TypeOK, GcQueryFails, Fails
<1>4. \A r \in Record : ~ Cached(r)' /\ ~ IsCached(r[1])'
  BY <1>2, RecordParts DEF Cached, IsCached
<1>5. DeletableIsDead' /\ DeadIsOld'
  BY <1>2 DEF DeletableIsDead, DeadIsOld
<1>6. DeadNotServed' /\ CacheAgrees'
  BY <1>3, <1>4 DEF DeadNotServed, CacheAgrees, TypeOK
<1> QED  BY <1>3, <1>5, <1>6 DEF IInv

LEMMA ResultStep ==
  ASSUME IInv, NEW r \in Record, GcResult(r)
  PROVE  IInv'
<1>1. TypeOK'
  BY DEF IInv, TypeOK, GcResult, Delete, storeVars, Wait
<1>2. DeletableIsDead' /\ DeadIsOld'
  BY DEF IInv, DeletableIsDead, DeadIsOld, GcResult, Delete, storeVars
<1>3. DeadNotServed'
  BY DEF IInv, DeadNotServed, GcResult, Cached
<1>4. CacheAgrees'
  <2>1. UNCHANGED <<cache, discord, dead>>
    BY DEF GcResult
  <2>2. CASE UNCHANGED storeVars
    BY <2>1, <2>2 DEF IInv, CacheAgrees, Cached, IsCached, storeVars
  <2>3. CASE r \in doomed \ gcSkip /\ Delete(r)
    <3>1. gc = "collecting"
      BY DEF GcResult, IInv, TypeOK
    <3>2. r \in discord \/ ~ Cached(r)
      BY <2>3, <3>1 DEF IInv, DeletableIsDead, DeadNotServed
    <3>3. \A q \in Record : q # r => (q \in stored' <=> q \in stored) /\ (q \in expired' <=> q \in expired)
      BY <2>3 DEF Delete
    <3>4. r \notin stored'
      BY <2>3 DEF Delete
    <3> QED  BY <2>1, <3>2, <3>3, <3>4 DEF IInv, CacheAgrees, Cached, IsCached
  <2> QED  BY <2>2, <2>3 DEF GcResult
<1> QED  BY <1>1, <1>2, <1>3, <1>4 DEF IInv

LEMMA ResultFailsStep ==
  ASSUME IInv, NEW r \in Record, GcResultFails(r)
  PROVE  IInv'
<1>1. /\ UNCHANGED <<cache, running, gc, doomed, gcSkip, dead>>
      /\ faults' \in 0..MaxFaults /\ pending' = pending \ {r}
  BY ProviderAssumption DEF GcResultFails, Fails, IInv, TypeOK
<1>2. CASE UNCHANGED <<storeVars, unflushed, discord>>
  BY <1>1, <1>2 DEF IInv, TypeOK, DeletableIsDead, DeadIsOld, DeadNotServed, CacheAgrees, Cached,
                    IsCached, storeVars
<1>3. CASE r \in doomed \ gcSkip /\ FlushFails({}, {r})
  <2>1. /\ stored' \subseteq Record /\ expired' \subseteq stored'
        /\ unflushed' \subseteq Record
        /\ discord' \subseteq Record /\ discord \subseteq discord'
        /\ \A q \in Record \ discord' :
             (q \in stored' <=> q \in stored \ {r}) /\ (q \in expired' <=> q \in expired \ {r})
        /\ dead \cap stored' \subseteq expired'
    <3>1. TypeOK /\ DeadIsOld
      BY DEF IInv
    <3> QED  BY <1>3, <3>1, FlushDeletes
  <2>2. TypeOK'
    BY <1>1, <2>1 DEF IInv, TypeOK
  <2>3. DeletableIsDead' /\ DeadIsOld' /\ DeadNotServed'
    BY <1>1, <2>1 DEF IInv, DeletableIsDead, DeadIsOld, DeadNotServed, Cached
  <2>4. r \in discord \/ ~ Cached(r)
    BY <1>3 DEF GcResultFails, IInv, TypeOK, DeletableIsDead, DeadNotServed
  <2>5. CacheAgrees'
    <3> SUFFICES ASSUME NEW q \in Record, q \notin discord', IsCached(q[1])'
                 PROVE  (Cached(q)' => q \in stored') /\ (q \in stored' \ expired' => Cached(q)')
      BY DEF CacheAgrees
    <3>1. IsCached(q[1]) /\ q \notin discord /\ (Cached(q)' <=> Cached(q))
      BY <1>1, <2>1 DEF IsCached, Cached
    <3>2. (Cached(q) => q \in stored) /\ (q \in stored \ expired => Cached(q))
      BY <3>1 DEF IInv, CacheAgrees
    <3> QED  BY <2>1, <2>4, <3>1, <3>2
  <2> QED  BY <2>2, <2>3, <2>5 DEF IInv
<1> QED  BY <1>2, <1>3 DEF GcResultFails

(* A load that fails, or run's end: the cache is left alone, and the store *)
(* too unless a flush fails.                                               *)
LEMMA FailStep ==
  ASSUME IInv, (\E k \in Key : GetProvidersFails(k)) \/ Close
  PROVE  IInv'
<1>1. /\ UNCHANGED <<cache, gcVars, dead>>
      /\ running' \in BOOLEAN
      /\ \/ Fails /\ FlushFails({}, {})
         \/ unflushed' = {} /\ UNCHANGED <<storeVars, faults, discord>>
  BY DEF GetProvidersFails, Close, IInv, TypeOK
<1>6. faults' \in 0..MaxFaults
  BY <1>1, ProviderAssumption DEF Fails, IInv, TypeOK
<1>2. /\ stored' \subseteq Record /\ expired' \subseteq stored'
      /\ unflushed' \subseteq Record
      /\ discord' \subseteq Record /\ discord \subseteq discord'
      /\ \A q \in Record \ discord' : (q \in stored' <=> q \in stored) /\ (q \in expired' <=> q \in expired)
      /\ dead \cap stored' \subseteq expired'
  <2>1. TypeOK /\ DeadIsOld
    BY DEF IInv
  <2>2. CASE FlushFails({}, {})
    BY <2>1, <2>2, FlushLoses
  <2>3. CASE unflushed' = {} /\ UNCHANGED <<storeVars, discord>>
    BY <2>1, <2>3 DEF TypeOK, DeadIsOld, storeVars
  <2> QED  BY <1>1, <2>2, <2>3
<1>3. TypeOK'
  BY <1>1, <1>2, <1>6 DEF IInv, TypeOK, gcVars
<1>4. DeletableIsDead' /\ DeadIsOld' /\ DeadNotServed'
  BY <1>1, <1>2 DEF IInv, DeletableIsDead, DeadIsOld, DeadNotServed, Cached, gcVars
<1>5. CacheAgrees'
  BY <1>1, <1>2 DEF IInv, CacheAgrees, Cached, IsCached
<1> QED  BY <1>3, <1>4, <1>5 DEF IInv

LEMMA ExpireStep ==
  ASSUME IInv, NEW r \in Record, Expire(r)
  PROVE  IInv'
BY DEF IInv, TypeOK, DeletableIsDead, DeadIsOld, DeadNotServed, CacheAgrees, Cached, IsCached, Expire, gcVars

(* The cache and the store are left alone.                                 *)
LEMMA OtherStep ==
  ASSUME IInv, GcEnds \/ UNCHANGED vars
  PROVE  IInv'
BY DEF IInv, TypeOK, DeletableIsDead, DeadIsOld, DeadNotServed, CacheAgrees, Cached, IsCached, GcEnds,
       vars, gcVars, storeVars

LEMMA Invariant == Spec => []IInv
<1>1. IInv /\ [Next]_vars => IInv'
  BY AddStep, AddFailsStep, LoadStep, BeginStep, QueryFailsStep, ResultStep, ResultFailsStep, FailStep,
     ExpireStep, OtherStep DEF Next, Collect
<1> QED  BY <1>1, InitOK, PTL DEF Spec

-----------------------------------------------------------------------------
(* Every variable keeps its type; a collection that ended leaves nothing.  *)
THEOREM TypeCorrect == Spec => []TypeOK
<1>1. IInv => TypeOK
  BY DEF IInv
<1> QED  BY <1>1, Invariant, PTL

(* Without failures a key's answer is what the store holds, cached or not  *)
(* (providers_manager.go:247, :311).                                       *)
THEOREM CacheIsStore == Spec => []CacheAgrees
<1>1. IInv => CacheAgrees
  BY DEF IInv
<1> QED  BY <1>1, Invariant, PTL

(* A record too old when the cache was last purged is not served           *)
(* (providers_manager.go:199).                                             *)
THEOREM DeadStaysOut == Spec => []DeadNotServed
<1>1. IInv => DeadNotServed
  BY DEF IInv
<1> QED  BY <1>1, Invariant, PTL

(* No collection deletes a record that was renewed while it ran            *)
(* (providers_manager.go:182); only a failed operation may lose another.   *)
THEOREM RenewedIsKept == Spec => OnlyExpiredCollected
<1>1. ASSUME IInv, [Next]_vars
      PROVE  [stored \ stored' \subseteq expired \cup discord']_vars
  <2> USE <1>1
  <2>0. TypeOK /\ DeadIsOld
    BY DEF IInv
  <2> SUFFICES ASSUME stored' # stored
               PROVE  stored \ stored' \subseteq expired \cup discord'
    OBVIOUS
  <2>1. ASSUME NEW r \in Record, AddProv(r) PROVE stored \subseteq stored'
    BY <2>1 DEF AddProv, Put
  <2>2. ASSUME NEW r \in Record, AddProvFails(r) PROVE stored \ stored' \subseteq discord'
    <3>1. FlushFails({r}, {}) /\ {r} \in SUBSET Record /\ {} \in SUBSET Record
      BY <2>2 DEF AddProvFails
    <3> QED  BY <2>0, <3>1, FlushFailsOK
  <2>3. ASSUME NEW k \in Key, GetProviders(k) PROVE stored \ stored' \subseteq expired
    BY <2>3 DEF GetProviders, LoadProviderSet
  <2>4. ASSUME NEW r \in Record, GcResult(r) PROVE stored \ stored' \subseteq expired \cup discord'
    <3>1. r \in doomed \ gcSkip /\ stored' = stored \ {r} /\ r \in stored /\ discord' = discord
      BY <2>4 DEF GcResult, Delete, storeVars
    <3>2. r \in dead \cup discord
      BY <2>4, <3>1 DEF GcResult, IInv, TypeOK, DeletableIsDead
    <3> QED  BY <3>1, <3>2 DEF IInv, DeadIsOld
  <2>5. ASSUME NEW r \in Record, GcResultFails(r) PROVE stored \ stored' \subseteq expired \cup discord'
    <3>1. r \in doomed \ gcSkip /\ FlushFails({}, {r})
      BY <2>5 DEF GcResultFails, storeVars
    <3>2. stored \ stored' \subseteq discord' \cup {r} /\ discord \subseteq discord'
      BY <2>0, <3>1, FlushDeletes
    <3>3. r \in dead \cup discord
      BY <2>5, <3>1 DEF GcResultFails, IInv, TypeOK, DeletableIsDead
    <3> QED  BY <3>2, <3>3 DEF IInv, DeadIsOld
  <2>6. ASSUME (\E k \in Key : GetProvidersFails(k)) \/ GcQueryFails \/ Close
        PROVE  stored \ stored' \subseteq discord'
    <3>1. FlushFails({}, {})
      BY <2>6 DEF GetProvidersFails, GcQueryFails, Close, storeVars
    <3> QED  BY <2>0, <3>1, FlushLoses DEF TypeOK
  <2>7. CASE (\E r \in Record : Expire(r)) \/ GcBegins \/ GcEnds \/ UNCHANGED vars
    BY <2>7 DEF Expire, GcBegins, GcEnds, storeVars, vars
  <2> QED  BY <2>1, <2>2, <2>3, <2>4, <2>5, <2>6, <2>7 DEF Next, Collect
<1> QED  BY <1>1, Invariant, PTL DEF Spec, OnlyExpiredCollected
=============================================================================
