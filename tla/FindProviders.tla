---------------------------- MODULE FindProviders ----------------------------
(***************************************************************************)
(* One search for the providers of a key (routing.go, FindProvidersAsync   *)
(* and findProvidersAsyncRoutine), composed with the lookup it runs.       *)
(*                                                                         *)
(* The routine offers the providers that this node's own store knows, and  *)
(* then runs a lookup whose query function asks a peer for providers and   *)
(* offers those of the answer.  An offer enters a map that all goroutines  *)
(* share (psTryAdd); an accepted one is sent to the caller's channel, a    *)
(* step of its own.  The lookup's stopFn compares the size of the map with *)
(* count: it is the variable stop of Lookup, which this module sets and    *)
(* Lookup leaves open.                                                     *)
(*                                                                         *)
(* out is the history of what was sent, so the channel holds the part of   *)
(* out that the caller has not taken.  The providers in one answer are     *)
(* offered in any order.                                                   *)
(***************************************************************************)
EXTENDS Integers, FiniteSets, Sequences, SequencesExt

CONSTANTS
  Peer, Dist, K, Alpha, Beta,   (* of the lookup                           *)
  Provider,                     (* the peers that provide the key          *)
  Count,                        (* the values of count; 0 asks for all     *)
  Routine                       (* the goroutine of the search             *)

ASSUME FindProvidersAssumption ==
  /\ IsFiniteSet(Peer)
  /\ Dist \in [Peer -> Nat]
  /\ \A p, q \in Peer : Dist[p] = Dist[q] => p = q
  /\ {K, Alpha, Beta} \subseteq Nat \ {0}
  /\ Count \subseteq Nat
  /\ Routine \notin Peer \cup Provider
  /\ IsFiniteSet(Provider)

VARIABLES
  pc, st, step, answer, cancelled, stop, reason, result, completed,
  asked, failed, evicted,       (* of the lookup                           *)
  count,      (* how many providers the caller wants                       *)
  phase,      (* of the routine: local, lookup, closed                     *)
  ps,         (* the map of providers: absent, bare (no addresses), full   *)
  todo,       (* per goroutine: providers of its answer not offered yet    *)
  got,        (* goroutines whose peer has answered                        *)
  sending,    (* per goroutine: the provider it is sending, if any         *)
  out,        (* everything sent to the caller, in order                   *)
  taken,      (* how much of it the caller has received                    *)
  refreshed   (* the key's bucket was marked as refreshed                  *)

lookupVars == <<pc, st, step, answer, cancelled, stop, reason, result, completed,
                asked, failed, evicted>>
callVars   == <<count, phase, taken, refreshed>>
offerVars  == <<ps, todo, got, sending, out>>
vars == <<lookupVars, callVars, offerVars>>

L == INSTANCE Lookup

Goroutine == Peer \cup {Routine}
Found     == [id : Provider, addrs : BOOLEAN]
Nothing   == [id |-> Routine, addrs |-> FALSE]
OnePerId(S) == \A r, s \in S : r.id = s.id => r = s

TypeOK ==
  /\ L!TypeOK
  /\ count \in Count
  /\ phase \in {"local", "lookup", "closed"}
  /\ ps \in [Provider -> {"absent", "bare", "full"}]
  /\ todo \in [Goroutine -> SUBSET Found]
  /\ got \subseteq Peer
  /\ sending \in [Goroutine -> Found \cup {Nothing}]
  /\ out \in Seq(Found)
  /\ taken \in 0 .. Len(out)
  /\ refreshed \in BOOLEAN

Init ==
  /\ L!Init
  /\ count \in Count
  /\ phase = "local"
  /\ ps = [r \in Provider |-> "absent"]
  /\ \E stored \in SUBSET Found :
       /\ OnePerId(stored)
       /\ todo = [g \in Goroutine |-> IF g = Routine THEN stored ELSE {}]
  /\ got = {}
  /\ sending = [g \in Goroutine |-> Nothing]
  /\ out = <<>>
  /\ taken = 0
  /\ refreshed = FALSE

-----------------------------------------------------------------------------
(* psTryAdd and the channel.                                               *)

findAll == count = 0
ChSize  == IF findAll THEN 1 ELSE count

Size(m)   == Cardinality({r \in Provider : m[r] # "absent"})
Enough(m) == ~ findAll /\ Size(m) >= count

Accepts_Always(r) == findAll \/ Size(ps) < count

Accepts(r) ==
  /\ ps[r.id] = "absent" \/ (ps[r.id] = "bare" /\ r.addrs)
  /\ findAll \/ Size(ps) < count

HasRoom == Len(out) - taken < ChSize

CtxDone_Never(g) == FALSE

(* The context of the goroutine's select.                                  *)
CtxDone(g) ==
  \/ cancelled
  \/ g # Routine /\ step[g] = "asking" /\ L!PathDone
  \/ g # Routine /\ step[g] = "following" /\ pc = "drain"

Busy(g) == todo[g] # {} \/ sending[g] # Nothing

(* The rest of an answer is dropped once there are enough.                 *)
Rest(g, r, m) == IF Enough(m) THEN {} ELSE todo[g] \ {r}

Offer(g, r) ==
  /\ sending[g] = Nothing
  /\ r \in todo[g]
  /\ IF Accepts(r)
     THEN /\ ps' = [ps EXCEPT ![r.id] = IF r.addrs THEN "full" ELSE "bare"]
          /\ sending' = [sending EXCEPT ![g] = r]
          /\ stop' = Enough(ps')
          /\ todo' = [todo EXCEPT ![g] = @ \ {r}]
     ELSE /\ todo' = [todo EXCEPT ![g] = Rest(g, r, ps)]
          /\ UNCHANGED <<ps, sending, stop>>
  /\ UNCHANGED <<pc, st, step, answer, cancelled, reason, result, completed,
                 asked, failed, evicted, callVars, got, out>>

Put(g) ==
  /\ sending[g] # Nothing
  /\ HasRoom
  /\ out' = Append(out, sending[g])
  /\ sending' = [sending EXCEPT ![g] = Nothing]
  /\ todo' = [todo EXCEPT ![g] = Rest(g, sending[g], ps)]
  /\ UNCHANGED <<lookupVars, callVars, ps, got>>

-----------------------------------------------------------------------------
(* The query function, in a goroutine of the lookup.                       *)

Reply(p, provs) ==
  /\ step[p] \in {"asking", "following"}
  /\ p \notin got
  /\ got' = got \cup {p}
  /\ todo' = [todo EXCEPT ![p] = provs]
  /\ UNCHANGED <<lookupVars, callVars, ps, sending, out>>

(* It returns the closer peers, or none when it found enough.              *)
QueryReturns(p) ==
  /\ p \in got
  /\ ~ Busy(p)
  /\ L!FollowUpReturns(p) \/ \E heard \in SUBSET Peer : L!Answer(p, heard)
  /\ got' = got \ {p}
  /\ UNCHANGED <<callVars, ps, todo, sending, out>>

QueryFails_Silent(p) ==
  /\ p \notin got
  /\ step[p] \in {"asking", "following"}
  /\ step' = [step EXCEPT ![p] = "none"]
  /\ UNCHANGED <<pc, st, answer, cancelled, stop, reason, result, completed,
                 asked, failed, evicted, callVars, offerVars>>

(* The dial or the request fails, or the context ends while it is sending. *)
QueryFails(p) ==
  /\ p \notin got \/ (sending[p] # Nothing /\ CtxDone(p))
  /\ L!FollowUpReturns(p) \/ L!Fail(p)
  /\ got' = got \ {p}
  /\ sending' = [sending EXCEPT ![p] = Nothing]
  /\ todo' = [todo EXCEPT ![p] = {}]
  /\ UNCHANGED <<callVars, ps, out>>

-----------------------------------------------------------------------------
(* The routine.                                                            *)

(* Its own store fails, or the context ends while it is sending.           *)
LocalFails ==
  /\ phase = "local"
  /\ ps = [r \in Provider |-> "absent"] \/ (sending[Routine] # Nothing /\ CtxDone(Routine))
  /\ phase' = "closed"
  /\ todo' = [todo EXCEPT ![Routine] = {}]
  /\ sending' = [sending EXCEPT ![Routine] = Nothing]
  /\ UNCHANGED <<lookupVars, count, taken, refreshed, ps, got, out>>

LocalEnds ==
  /\ phase = "local"
  /\ ~ Busy(Routine)
  /\ phase' = IF Enough(ps) THEN "closed" ELSE "lookup"
  /\ UNCHANGED <<lookupVars, count, taken, refreshed, offerVars>>

LookupSteps ==
  /\ phase = "lookup"
  /\ L!Loop
  /\ UNCHANGED <<callVars, offerVars>>

(* The routing table has no peer to start from.                            *)
NoSeeds ==
  /\ phase = "lookup"
  /\ pc = "start"
  /\ phase' = "closed"
  /\ UNCHANGED <<lookupVars, count, taken, refreshed, offerVars>>

(* refreshRTIfNoShortcut, and the channel is closed.                       *)
Close ==
  /\ phase = "lookup"
  /\ pc = "done"
  /\ phase' = "closed"
  /\ refreshed' = (completed /\ ~ cancelled)
  /\ UNCHANGED <<lookupVars, count, taken, offerVars>>

(* The caller.                                                             *)
Receive ==
  /\ taken < Len(out)
  /\ taken' = taken + 1
  /\ UNCHANGED <<lookupVars, count, phase, refreshed, offerVars>>

CancelSearch ==
  /\ phase # "closed"
  /\ L!CancelContext
  /\ UNCHANGED <<callVars, offerVars>>

Work(g) == Put(g) \/ \E r \in todo[g] : Offer(g, r)

Query(p) ==
  \/ Work(p)
  \/ \E provs \in SUBSET Found : OnePerId(provs) /\ Reply(p, provs)
  \/ QueryReturns(p)
  \/ QueryFails(p)

Search == Work(Routine) \/ LocalFails \/ LocalEnds \/ LookupSteps \/ NoSeeds \/ Close

Next == Search \/ Receive \/ CancelSearch \/ \E p \in Peer : Query(p)

Spec == Init /\ [][Next]_vars

(* The goroutines run and requests time out; nothing obliges the caller to *)
(* receive.                                                                *)
FairSpec == Spec /\ WF_vars(Search) /\ \A p \in Peer : WF_vars(Query(p))
-----------------------------------------------------------------------------
Sent == {out[i] : i \in DOMAIN out}

(* When the routine closes the channel, no goroutine is left that could    *)
(* send to it, which would panic: the lookup has waited for all of them,   *)
(* those of its follow-up included.                                        *)
NoSenderAfterClose ==
  phase = "closed" =>
    /\ \A g \in Goroutine : sending[g] = Nothing
    /\ \A p \in Peer : step[p] \notin {"asking", "following"}

(* Goroutines that offer at the same time send no provider twice in one    *)
(* form, and providers beyond count never.                                 *)
ResultsBounded ==
  /\ Cardinality(Sent) = Len(out)
  /\ ~ findAll => Cardinality({r.id : r \in Sent}) <= count

(* The search is a lookup as Lookup specifies it, whose stopFn sticks.     *)
LookupSpec == L!Spec /\ [][stop => stop']_vars

(* The channel is closed in the end, unless the caller stops receiving and *)
(* does not cancel either: cancelling always frees a blocked search.       *)
SearchEnds == <>(phase = "closed") \/ <>[](~ cancelled /\ ~ HasRoom)

(* Providers are passed to the caller when they are found: one that was    *)
(* counted is sent unless the caller cancels.                              *)
FoundIsSent ==
  phase = "closed" /\ ~ cancelled =>
    \A r \in Provider : ps[r] # "absent" => \E found \in Sent : found.id = r
=============================================================================
