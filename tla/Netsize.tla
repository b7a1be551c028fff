------------------------------ MODULE Netsize -------------------------------
(***************************************************************************)
(* The network size estimator (netsize/netsize.go): lookups that complete  *)
(* leave a measurement of how far the closest peers were; an estimate made *)
(* of the measurements of the last hours is cached.                        *)
(*                                                                         *)
(* Every rank gets one measurement from every lookup, so one sequence      *)
(* stands for all ranks.  A measurement is the time it was made; distance, *)
(* weight and regression are left out, and an estimate is known by the     *)
(* measurements it was made of.                                            *)
(***************************************************************************)
EXTENDS Integers, Sequences

CONSTANTS
  Caller,       (* concurrent calls of NetworkSize                         *)
  MaxAge,       (* MaxMeasurementAge: 2 hours                              *)
  Min, Most,    (* MinMeasurementsThreshold, MaxMeasurementsThreshold      *)
  MaxTime, MaxLookups    (* bounds: the clock, lookups tracked              *)

VARIABLES
  now,
  measurements, (* the times of the measurements, oldest first             *)
  cache,        (* netSizeCache: what the estimate was made of, or <<>>    *)
  tracked,      (* lookups tracked so far                                  *)
  at,           (* per caller: idle, locking, done                         *)
  seen,         (* per caller: lookups tracked when its call began         *)
  answer        (* per caller: the estimate it got, or <<>> for none       *)

vars == <<now, measurements, cache, tracked, at, seen, answer>>

Measurement == [made : 0..MaxTime, number : 1..MaxLookups]

TypeOK ==
  /\ now \in 0..MaxTime
  /\ measurements \in Seq(Measurement) /\ Len(measurements) <= Most
  /\ cache \in Seq(Measurement)
  /\ tracked \in 0..MaxLookups
  /\ at \in [Caller -> {"idle", "locking", "done"}]
  /\ seen \in [Caller -> 0..MaxLookups]
  /\ answer \in [Caller -> Seq(Measurement)]

Init ==
  /\ now = 0
  /\ measurements = <<>>
  /\ cache = <<>>
  /\ tracked = 0
  /\ at = [c \in Caller |-> "idle"]
  /\ seen = [c \in Caller |-> 0]
  /\ answer = [c \in Caller |-> <<>>]

-----------------------------------------------------------------------------
(* garbageCollect, and the same in Track: everything before the first      *)
(* young measurement goes.  sort.Search finds it by halving: what it       *)
(* returns has an old one before it and is not old itself.                 *)
Old(m) == m.made <= now - MaxAge

FirstYoung(ms) ==
  CHOOSE i \in 1 .. Len(ms) + 1 :
    (i > 1 => Old(ms[i - 1])) /\ (i <= Len(ms) => ~ Old(ms[i]))

Young(ms) == SubSeq(ms, FirstYoung(ms), Len(ms))

Newest(ms) == SubSeq(ms, IF Len(ms) > Most THEN Len(ms) - Most + 1 ELSE 1, Len(ms))

(* Track, under the lock; with another number of peers than bucketSize     *)
(* (of which GetClosestPeers only writes a log) nothing changes.           *)
Track_KeepsCache ==
  /\ tracked < MaxLookups
  /\ tracked' = tracked + 1
  /\ measurements' = Newest(Young(Append(measurements, [made |-> now, number |-> tracked'])))
  /\ UNCHANGED <<now, cache, at, seen, answer>>

Track ==
  /\ tracked < MaxLookups
  /\ tracked' = tracked + 1
  /\ cache' = <<>>
  /\ measurements' = Newest(Young(Append(measurements, [made |-> now, number |-> tracked'])))
  /\ UNCHANGED <<now, at, seen, answer>>

(* NetworkSize takes the cached estimate without the lock, if there is     *)
(* one, ...                                                                *)
NetworkSize(c) ==
  /\ at[c] = "idle"
  /\ seen' = [seen EXCEPT ![c] = tracked]
  /\ at' = [at EXCEPT ![c] = IF cache # <<>> THEN "done" ELSE "locking"]
  /\ answer' = [answer EXCEPT ![c] = cache]
  /\ UNCHANGED <<now, measurements, cache, tracked>>

(* ... or looks again once it has the lock and makes it.                   *)
Compute(c) ==
  /\ at[c] = "locking"
  /\ at' = [at EXCEPT ![c] = "done"]
  /\ IF cache # <<>>
     THEN answer' = [answer EXCEPT ![c] = cache] /\ UNCHANGED <<measurements, cache>>
     ELSE /\ measurements' = Young(measurements)
          /\ IF Len(measurements') < Min
             THEN UNCHANGED <<cache, answer>>
             ELSE /\ cache' = measurements'
                  /\ answer' = [answer EXCEPT ![c] = cache']
  /\ UNCHANGED <<now, tracked, seen>>

CallsAgain(c) ==
  /\ at[c] = "done"
  /\ at' = [at EXCEPT ![c] = "idle"]
  /\ answer' = [answer EXCEPT ![c] = <<>>]
  /\ UNCHANGED <<now, measurements, cache, tracked, seen>>

Tick ==
  /\ now < MaxTime
  /\ now' = now + 1
  /\ UNCHANGED <<measurements, cache, tracked, at, seen, answer>>

Next ==
  \/ Track
  \/ \E c \in Caller : NetworkSize(c) \/ Compute(c) \/ CallsAgain(c)
  \/ Tick

Spec == Init /\ [][Next]_vars
-----------------------------------------------------------------------------
(* An estimate rests on enough measurements, none of them counted twice or *)
(* MaxAge older than the newest, and on the measurement of every lookup    *)
(* tracked before the caller asked, although the cache is read without the *)
(* lock and checked again under it.  (How old a cached estimate is when it *)
(* is served is another matter: nothing but Track ever drops it.)          *)
AnswerIsCurrent ==
  \A c \in Caller : answer[c] # <<>> =>
    LET ms == answer[c] IN
    /\ Len(ms) \in Min..Most
    /\ ms[Len(ms)].number >= seen[c]
    /\ \A i \in 1 .. Len(ms) - 1 :
         /\ ms[i + 1].number = ms[i].number + 1
         /\ ms[i].made > ms[Len(ms)].made - MaxAge
=============================================================================
