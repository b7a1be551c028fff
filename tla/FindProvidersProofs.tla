------------------------ MODULE FindProvidersProofs ------------------------
(***************************************************************************)
(* Theorems about FindProviders: for any peers, distances, providers and   *)
(* counts, the search is a lookup as Lookup specifies it, the channel is   *)
(* closed when nobody can send to it any more, and the caller gets no      *)
(* provider twice in one form and none beyond count.                       *)
(*                                                                         *)
(* The search inherits the inductive invariant of LookupProofs: its steps  *)
(* are steps of a lookup.  To it are added where the goroutines that offer *)
(* providers are (Placed), what the shared map records about what they     *)
(* send (Booked), and that stopFn answers for the map (StopCounts).        *)
(***************************************************************************)
EXTENDS FindProviders, FiniteSetTheorems, TLAPS

P == INSTANCE LookupProofs

(* The routine works before its lookup starts.  A goroutine of the lookup  *)
(* holds an answer only while its query lasts, and offers and sends only   *)
(* what is in its answer.                                                  *)
Placed ==
  /\ phase = "local" => pc = "start"
  /\ phase = "closed" => pc \in {"start", "done"}
  /\ todo[Routine] # {} \/ sending[Routine] # Nothing => phase = "local"
  /\ \A p \in Peer :
       /\ todo[p] # {} \/ sending[p] # Nothing => p \in got
       /\ p \in got => step[p] \in {"asking", "following"}

(* Whatever was sent or is being sent is in the map, in that form or a     *)
(* better one; no two of these are equal.                                  *)
InMap(m, r) == m[r.id] # "absent" /\ (r.addrs => m[r.id] = "full")

Booked ==
  /\ \A i \in 1 .. Len(out) : InMap(ps, out[i])
  /\ \A i, j \in 1 .. Len(out) : out[i] = out[j] => i = j
  /\ \A g \in Goroutine : sending[g] # Nothing =>
       /\ InMap(ps, sending[g])
       /\ \A i \in 1 .. Len(out) : out[i] # sending[g]
       /\ \A h \in Goroutine : sending[h] = sending[g] => h = g

StopCounts ==
  /\ stop = Enough(ps)
  /\ ~ findAll => Size(ps) <= count

(* TypeOK without what the lookup's own invariant says.                    *)
OwnTypeOK ==
  /\ count \in Count
  /\ phase \in {"local", "lookup", "closed"}
  /\ ps \in [Provider -> {"absent", "bare", "full"}]
  /\ todo \in [Goroutine -> SUBSET Found]
  /\ got \subseteq Peer
  /\ sending \in [Goroutine -> Found \cup {Nothing}]
  /\ out \in Seq(Found)
  /\ taken \in 0 .. Len(out)
  /\ refreshed \in BOOLEAN

IInv ==
  /\ OwnTypeOK
  /\ P!IInv
  /\ Placed
  /\ Booked
  /\ StopCounts

-----------------------------------------------------------------------------
(* The lookup of the search is the lookup of LookupProofs.                 *)
LEMMA LookupAssumed ==
  /\ P!IsFiniteSet(Peer)
  /\ Dist \in [Peer -> Nat]
  /\ \A p, q \in Peer : Dist[p] = Dist[q] => p = q
  /\ {K, Alpha, Beta} \subseteq Nat \ {0}
BY FindProvidersAssumption DEF P!IsFiniteSet, IsFiniteSet

LEMMA SameInit == L!Init <=> P!Init
BY DEF L!Init, P!Init, L!NoUpdate, P!NoUpdate

LEMMA SameLoop == L!Loop <=> P!Loop
BY DEF L!Loop, P!Loop, L!Seed, P!Seed, L!ReceiveUpdate, P!ReceiveUpdate, L!CancelLoop,
       P!CancelLoop, L!EndRun, P!EndRun, L!ReceiveFollowUp, P!ReceiveFollowUp,
       L!CancelFollowUps, P!CancelFollowUps, L!Drained, P!Drained,
       L!Proceed, P!Proceed, L!Learned, P!Learned, L!Ready, P!Ready, L!ReasonFor, P!ReasonFor,
       L!IsLookupTermination, P!IsLookupTermination,
       L!IsStarvationTermination, P!IsStarvationTermination,
       L!PeersToQuery, P!PeersToQuery, L!UpToN, P!UpToN, L!Closest, P!Closest,
       L!Result, P!Result, L!FollowUps, P!FollowUps, L!Usable, P!Usable, L!In, P!In,
       L!At, P!At, L!NoUpdate, P!NoUpdate, L!outcomeVars, P!outcomeVars, L!netVars, P!netVars,
       L!Cardinality, P!Cardinality

LEMMA SameQuery ==
  ASSUME NEW p \in Peer
  PROVE  /\ \A heard : L!Answer(p, heard) <=> P!Answer(p, heard)
         /\ L!Fail(p) <=> P!Fail(p)
         /\ L!FollowUpReturns(p) <=> P!FollowUpReturns(p)
BY DEF L!Answer, P!Answer, L!Fail, P!Fail, L!FollowUpReturns, P!FollowUpReturns, L!Send,
       P!Send, L!ChannelHasRoom, P!ChannelHasRoom, L!PathDone, P!PathDone, L!At, P!At,
       L!outcomeVars, P!outcomeVars, L!Cardinality, P!Cardinality

LEMMA SameCaller ==
  /\ L!CancelContext <=> P!CancelContext
  /\ L!StopFnChanges <=> P!StopFnChanges
  /\ L!vars = P!vars
  /\ UNCHANGED P!vars <=> UNCHANGED lookupVars
BY DEF L!CancelContext, P!CancelContext, L!StopFnChanges, P!StopFnChanges, L!vars, P!vars,
       L!outcomeVars, P!outcomeVars, L!netVars, P!netVars, lookupVars

LEMMA SameType == P!IInv => L!TypeOK
BY DEF P!IInv, P!TypeOK, L!TypeOK, P!PeerState, L!PeerState, P!Update, L!Update,
       P!Cardinality, L!Cardinality

-----------------------------------------------------------------------------
(* A step of the loop leaves the queries that are under way alone.         *)
LEMMA LoopKeepsQueries ==
  ASSUME P!IInv, P!Loop, NEW p \in Peer, step[p] \in {"asking", "following"}
  PROVE  step'[p] = step[p]
<1>1. /\ step \in [Peer -> {"none", "asking", "sent", "following", "replied"}]
      /\ pc \in {"start", "run", "wait"} => step[p] # "following"
      /\ pc \notin {"start", "run", "wait"} => step[p] # "asking"
      /\ pc = "start" => step[p] # "asking"
      /\ pc \in {"drain", "done"} /\ completed => step[p] # "following"
  BY DEF P!IInv, P!TypeOK, P!InFlight, P!Looping, P!Received, P!Fresh, P!At, P!In
<1>2. ASSUME NEW s, NEW idle, P!Proceed(s, idle), idle[p] = step[p], step[p] = "asking"
      PROVE  step'[p] = step[p]
  BY <1>2 DEF P!Proceed
<1>3. ASSUME NEW seeds, P!Seed(seeds)  PROVE step'[p] = step[p]
  BY <1>1, <1>3 DEF P!Seed
<1>4. ASSUME NEW q \in Peer, P!ReceiveUpdate(q)  PROVE step'[p] = step[p]
  <2>1. q # p /\ step[p] = "asking" /\ [step EXCEPT ![q] = "none"][p] = step[p]
    BY <1>1, <1>4 DEF P!ReceiveUpdate
  <2> QED  BY <1>2, <1>4, <2>1 DEF P!ReceiveUpdate
<1>5. CASE P!CancelLoop \/ P!CancelFollowUps
  BY <1>5 DEF P!CancelLoop, P!CancelFollowUps
<1>6. CASE P!EndRun
  BY <1>1, <1>6 DEF P!EndRun, P!At
<1>7. ASSUME NEW q \in Peer, P!ReceiveFollowUp(q)  PROVE step'[p] = step[p]
  BY <1>1, <1>7 DEF P!ReceiveFollowUp
<1>8. CASE P!Drained
  BY <1>1, <1>8 DEF P!Drained, P!At
<1> QED  BY <1>3, <1>4, <1>5, <1>6, <1>7, <1>8 DEF P!Loop

LEMMA SizeIsNat ==
  ASSUME NEW m
  PROVE  /\ IsFiniteSet({r \in Provider : m[r] # "absent"})
         /\ Size(m) \in Nat
<1>1. IsFiniteSet({r \in Provider : m[r] # "absent"})
  BY FS_Subset, FindProvidersAssumption
<1> QED  BY <1>1, FS_CardinalityType DEF Size

(* Entering a provider counts it if it was absent.                         *)
LEMMA SizeGrows ==
  ASSUME OwnTypeOK, NEW x \in Provider, NEW f \in {"bare", "full"}
  PROVE  /\ Size([ps EXCEPT ![x] = f]) \in Nat
         /\ Size([ps EXCEPT ![x] = f]) = IF ps[x] = "absent" THEN Size(ps) + 1 ELSE Size(ps)
<1> DEFINE m == [ps EXCEPT ![x] = f]
           A == {r \in Provider : ps[r] # "absent"}
           B == {r \in Provider : m[r] # "absent"}
<1>1. B = A \cup {x}
  BY DEF OwnTypeOK
<1>2. x \in A <=> ps[x] # "absent"
  OBVIOUS
<1>3. IsFiniteSet(A)
  BY SizeIsNat
<1>4. Size(ps) = Cardinality(A) /\ Size(m) = Cardinality(B)
  BY DEF Size
<1>5. Size(m) \in Nat
  BY SizeIsNat
<1> HIDE DEF A, B, m
<1>6. Cardinality(B) = IF x \in A THEN Cardinality(A) ELSE Cardinality(A) + 1
  BY <1>1, <1>3, FS_AddElement
<1> QED  BY <1>2, <1>4, <1>5, <1>6 DEF m

-----------------------------------------------------------------------------
(* Where the lookup is when a goroutine works.                             *)
LEMMA WorkerIsAlive ==
  ASSUME IInv, NEW g \in Goroutine, todo[g] # {} \/ sending[g] # Nothing
  PROVE  /\ pc # "done"
         /\ phase # "closed"
         /\ g # Routine => g \in Peer /\ g \in got /\ step[g] \in {"asking", "following"}
<1>1. CASE g = Routine
  BY <1>1 DEF IInv, Placed
<1>2. CASE g # Routine
  <2>1. g \in Peer /\ g \in got /\ step[g] \in {"asking", "following"}
    BY <1>2 DEF IInv, Placed, Goroutine
  <2>2. pc # "done" /\ pc # "start"
    BY <2>1 DEF IInv, P!IInv, P!NoGoroutineLeft, P!InFlight, P!Looping, P!Fresh, P!At, P!In
  <2> QED  BY <2>1, <2>2 DEF IInv, Placed
<1> QED  BY <1>1, <1>2

(* An accepted offer may make stopFn answer yes, and never no again.       *)
LEMMA OfferStops ==
  ASSUME IInv, NEW g \in Goroutine, NEW r \in todo[g], Offer(g, r)
  PROVE  /\ stop => stop'
         /\ L!StopFnChanges \/ UNCHANGED lookupVars
<1>1. UNCHANGED <<pc, st, step, answer, cancelled, reason, result, completed,
                  asked, failed, evicted>>
  BY DEF Offer
<1>2. stop = Enough(ps) /\ pc # "done"
  BY WorkerIsAlive DEF IInv, StopCounts
<1>3. CASE Accepts(r)
  <2>1. ~ Enough(ps) /\ stop' = Enough(ps')
    <3>1. Size(ps) \in Nat /\ count \in Nat
      BY SizeIsNat, FindProvidersAssumption DEF IInv, OwnTypeOK
    <3> QED  BY <1>3, <3>1 DEF Offer, Accepts, Enough
  <2>2. stop = FALSE /\ stop' \in BOOLEAN
    BY <1>2, <2>1 DEF Enough
  <2>3. stop' = ~ stop \/ stop' = stop
    BY <2>2
  <2> QED  BY <1>1, <1>2, <2>2, <2>3 DEF L!StopFnChanges, L!outcomeVars, L!netVars, lookupVars
<1>4. CASE ~ Accepts(r)
  BY <1>1, <1>4 DEF Offer, lookupVars
<1> QED  BY <1>3, <1>4

(* The steps that are not of a goroutine which offers providers.           *)
OtherStep ==
  \/ LocalFails \/ LocalEnds \/ LookupSteps \/ NoSeeds \/ Close
  \/ Receive \/ CancelSearch \/ UNCHANGED vars

(* The cases of a step, which every proof about Next goes through.         *)
LEMMA Steps ==
  ASSUME [Next]_vars
  PROVE  \/ \E g \in Goroutine : \E r \in todo[g] : Offer(g, r)
         \/ \E g \in Goroutine : Put(g)
         \/ \E p \in Peer : \E provs \in SUBSET Found : Reply(p, provs)
         \/ \E p \in Peer : QueryReturns(p)
         \/ \E p \in Peer : QueryFails(p)
         \/ OtherStep
BY DEF Next, Search, Query, Work, Goroutine, OtherStep

(* What a step of the search is to the lookup.                             *)
LEMMA SearchIsLookup ==
  ASSUME IInv, [Next]_vars
  PROVE  /\ [L!Next]_(L!vars)
         /\ [P!Next]_(P!vars)
         /\ [stop => stop']_vars
<1> SUFFICES /\ L!Next \/ UNCHANGED lookupVars
             /\ stop => stop'
  <2>1. L!Next => P!Next
    <3>1. \A p \in Peer : L!Query(p) => P!Query(p)
      BY SameQuery DEF L!Query, P!Query
    <3> QED  BY <3>1, SameLoop, SameCaller DEF L!Next, P!Next
  <2> QED  BY <2>1, SameCaller DEF lookupVars, L!vars, L!outcomeVars, L!netVars
<1>1. CASE UNCHANGED lookupVars
  BY <1>1 DEF lookupVars
<1>2. ASSUME NEW g \in Goroutine, NEW r \in todo[g], Offer(g, r)
      PROVE  (L!Next \/ UNCHANGED lookupVars) /\ (stop => stop')
  BY <1>2, OfferStops DEF L!Next
<1>3. ASSUME NEW p \in Peer, QueryReturns(p) \/ QueryFails(p)
      PROVE  L!Next /\ (stop => stop')
  <2>1. L!Query(p)
    BY <1>3 DEF QueryReturns, QueryFails, L!Query
  <2>2. stop' = stop
    BY <1>3 DEF QueryReturns, QueryFails, L!Answer, L!Fail, L!FollowUpReturns
  <2> QED  BY <2>1, <2>2 DEF L!Next
<1>4. CASE LookupSteps
  <2>1. stop' = stop
    BY <1>4 DEF LookupSteps, L!Loop, L!Seed, L!ReceiveUpdate, L!CancelLoop, L!EndRun,
                L!ReceiveFollowUp, L!CancelFollowUps, L!Drained
  <2> QED  BY <1>4, <2>1 DEF LookupSteps, L!Next
<1>5. CASE CancelSearch
  BY <1>5 DEF CancelSearch, L!CancelContext, L!Next
<1>6. ASSUME NEW g \in Goroutine, Put(g)  PROVE UNCHANGED lookupVars
  BY <1>6 DEF Put
<1>7. ASSUME NEW p \in Peer, NEW provs \in SUBSET Found, Reply(p, provs)
      PROVE  UNCHANGED lookupVars
  BY <1>7 DEF Reply
<1>8. CASE LocalFails \/ LocalEnds \/ NoSeeds \/ Close \/ Receive \/ UNCHANGED vars
  BY <1>1, <1>8 DEF LocalFails, LocalEnds, NoSeeds, Close, Receive, vars
<1> QED  BY <1>1, <1>2, <1>3, <1>4, <1>5, <1>6, <1>7, <1>8, Steps DEF OtherStep

-----------------------------------------------------------------------------
LEMMA InitIInv == Init => IInv
<1> SUFFICES ASSUME Init PROVE IInv
  OBVIOUS
<1>1. P!IInv
  BY LookupAssumed, SameInit, P!InitIInv DEF Init
<1>2. OwnTypeOK
  <2>1. out = <<>> /\ Len(out) = 0 /\ out \in Seq(Found)
    BY DEF Init
  <2>2. taken \in 0 .. Len(out)
    BY <2>1 DEF Init
  <2>3. todo \in [Goroutine -> SUBSET Found] /\ sending \in [Goroutine -> Found \cup {Nothing}]
    BY DEF Init
  <2>4. /\ count \in Count /\ phase \in {"local", "lookup", "closed"}
        /\ ps \in [Provider -> {"absent", "bare", "full"}]
        /\ got \subseteq Peer /\ refreshed \in BOOLEAN
    BY DEF Init
  <2> QED  BY <2>1, <2>2, <2>3, <2>4 DEF OwnTypeOK
<1>3. Placed
  <2>1. Routine \notin Peer
    BY FindProvidersAssumption
  <2> QED  BY <2>1 DEF Init, Placed, L!Init, Goroutine
<1>4. Booked
  BY DEF Init, Booked, Goroutine
<1>5. StopCounts
  <2>1. {r \in Provider : ps[r] # "absent"} = {}
    BY DEF Init
  <2>2. Size(ps) = 0
    BY <2>1, FS_EmptySet DEF Size
  <2>3. stop = FALSE /\ count \in Nat
    BY FindProvidersAssumption DEF Init, L!Init
  <2>4. ~ Enough(ps) /\ 0 <= count
    BY <2>2, <2>3 DEF Enough, findAll
  <2>5. Enough(ps) = FALSE
    BY <2>4 DEF Enough
  <2> QED  BY <2>2, <2>3, <2>4, <2>5 DEF StopCounts
<1> QED  BY <1>1, <1>2, <1>3, <1>4, <1>5 DEF IInv

(* The search's own part of the invariant.                                 *)
Own == OwnTypeOK /\ Placed /\ Booked /\ StopCounts

(* An accepted provider was in the map in a lesser form or not at all, so  *)
(* nothing sent before or being sent equals it.                            *)
LEMMA AcceptedIsNew ==
  ASSUME IInv, NEW r \in Found, Accepts(r), NEW s \in Found, InMap(ps, s)
  PROVE  /\ s # r
         /\ InMap([ps EXCEPT ![r.id] = IF r.addrs THEN "full" ELSE "bare"], s)
BY DEF IInv, OwnTypeOK, Accepts, InMap, Found

LEMMA NothingIsNotFound == Nothing \notin Found
BY FindProvidersAssumption DEF Nothing, Found

LEMMA OfferOwn ==
  ASSUME IInv, NEW g \in Goroutine, NEW r \in todo[g], Offer(g, r)
  PROVE  Own'
<1>1. /\ sending[g] = Nothing
      /\ UNCHANGED <<pc, st, step, answer, cancelled, reason, result, completed,
                     asked, failed, evicted, callVars, got, out>>
  BY DEF Offer
<1>2. r \in Found
  BY DEF IInv, OwnTypeOK
<1>3. CASE ~ Accepts(r)
  <2>1. /\ UNCHANGED <<ps, sending, stop>>
        /\ todo' = [todo EXCEPT ![g] = Rest(g, r, ps)]
        /\ Rest(g, r, ps) \subseteq todo[g]
    BY <1>3 DEF Offer, Rest
  <2>2. /\ todo' \in [Goroutine -> SUBSET Found]
        /\ \A h \in Goroutine : todo'[h] \subseteq todo[h]
    BY <2>1 DEF IInv, OwnTypeOK
  <2>3. OwnTypeOK'
    BY <1>1, <2>1, <2>2 DEF IInv, OwnTypeOK, callVars
  <2>4. Placed'
    BY <1>1, <2>1, <2>2 DEF IInv, Placed, callVars, Goroutine
  <2>5. Booked' /\ StopCounts'
    BY <1>1, <2>1 DEF IInv, Booked, InMap, StopCounts, Enough, findAll, Size, callVars
  <2> QED  BY <2>3, <2>4, <2>5 DEF Own
<1>4. CASE Accepts(r)
  <2> DEFINE f == IF r.addrs THEN "full" ELSE "bare"
  <2>1. /\ ps' = [ps EXCEPT ![r.id] = f]
        /\ sending' = [sending EXCEPT ![g] = r]
        /\ stop' = Enough(ps')
        /\ todo' = [todo EXCEPT ![g] = @ \ {r}]
    BY <1>4 DEF Offer
  <2>2. /\ todo' \in [Goroutine -> SUBSET Found]
        /\ \A h \in Goroutine : todo'[h] \subseteq todo[h]
    BY <2>1 DEF IInv, OwnTypeOK
  <2>3. r.id \in Provider /\ f \in {"bare", "full"} /\ r.addrs \in BOOLEAN
    BY <1>2 DEF Found
  <2>4. ps' \in [Provider -> {"absent", "bare", "full"}]
    BY <2>1, <2>3 DEF IInv, OwnTypeOK
  <2>5. /\ sending' \in [Goroutine -> Found \cup {Nothing}]
        /\ sending'[g] = r /\ r # Nothing
        /\ \A h \in Goroutine : h # g => sending'[h] = sending[h]
    BY <1>2, <2>1, NothingIsNotFound DEF IInv, OwnTypeOK
  <2>6. OwnTypeOK'
    BY <1>1, <2>2, <2>4, <2>5 DEF IInv, OwnTypeOK, callVars
  <2>7. Placed'
    BY <1>1, <2>2, <2>5 DEF IInv, Placed, callVars, Goroutine
  <2>8. \A s \in Found : InMap(ps, s) => s # r /\ InMap(ps', s)
    BY <1>2, <1>4, <2>1, AcceptedIsNew DEF InMap
  <2>9. InMap(ps', r)
    BY <2>1, <2>3 DEF InMap, IInv, OwnTypeOK
  <2>10. /\ \A i \in 1 .. Len(out) : out[i] \in Found
         /\ \A h \in Goroutine : sending[h] # Nothing => sending[h] \in Found
    BY DEF IInv, OwnTypeOK
  <2>11. Booked'
    <3>1. /\ \A i \in 1 .. Len(out) : InMap(ps, out[i]) /\ InMap(ps', out[i]) /\ out[i] # r
          /\ \A i, j \in 1 .. Len(out) : out[i] = out[j] => i = j
      BY <2>8, <2>10 DEF IInv, Booked
    <3>2. ASSUME NEW h \in Goroutine, h # g, sending[h] # Nothing
          PROVE  /\ InMap(ps', sending[h]) /\ sending[h] # r
                 /\ \A i \in 1 .. Len(out) : out[i] # sending[h]
                 /\ \A k \in Goroutine : sending[k] = sending[h] => k = h
      BY <3>2, <2>8, <2>10 DEF IInv, Booked
    <3>3. out' = out
      BY <1>1
    <3>4. \A i \in 1 .. Len(out) : InMap(ps', out'[i])
      BY <3>1, <3>3 DEF InMap
    <3>5. ASSUME NEW h \in Goroutine, sending'[h] # Nothing
          PROVE  /\ InMap(ps', sending'[h])
                 /\ \A i \in 1 .. Len(out) : out[i] # sending'[h]
                 /\ \A k \in Goroutine : sending'[k] = sending'[h] => k = h
      <4>1. CASE h = g
        <5>1. \A k \in Goroutine : k # g => sending'[k] # r
          BY <2>5, <3>2
        <5> QED  BY <4>1, <2>5, <2>9, <3>1, <5>1 DEF InMap
      <4>2. CASE h # g
        <5>1. /\ sending'[h] = sending[h] /\ sending[h] # Nothing
              /\ InMap(ps', sending[h]) /\ sending[h] # r
          BY <4>2, <2>5, <3>2, <3>5
        <5>2. \A k \in Goroutine : sending'[k] = sending'[h] => k = h
          BY <4>2, <2>5, <3>2, <5>1
        <5> QED  BY <4>2, <5>1, <5>2, <3>2 DEF InMap
      <4> QED  BY <4>1, <4>2
    <3> QED  BY <3>1, <3>3, <3>4, <3>5 DEF Booked
  <2>12. StopCounts'
    <3>1. /\ Size(ps') \in Nat
          /\ Size(ps') = IF ps[r.id] = "absent" THEN Size(ps) + 1 ELSE Size(ps)
      BY <2>1, <2>3, SizeGrows DEF IInv
    <3>2. Size(ps) \in Nat /\ count \in Nat /\ count' = count
      BY <1>1, SizeIsNat, FindProvidersAssumption DEF IInv, OwnTypeOK, callVars
    <3>3. ~ findAll => Size(ps) < count
      BY <1>4 DEF Accepts
    <3>4. ~ findAll => Size(ps') <= count
      BY <3>1, <3>2, <3>3
    <3>5. Size(ps)' = Size(ps') /\ findAll' = findAll /\ Enough(ps)' = Enough(ps')
      BY <3>2 DEF Size, findAll, Enough
    <3> QED  BY <2>1, <3>2, <3>4, <3>5 DEF StopCounts
  <2> QED  BY <2>6, <2>7, <2>11, <2>12 DEF Own
<1> QED  BY <1>3, <1>4

LEMMA PutOwn ==
  ASSUME IInv, NEW g \in Goroutine, Put(g)
  PROVE  Own'
<1>1. /\ sending[g] # Nothing
      /\ out' = Append(out, sending[g])
      /\ sending' = [sending EXCEPT ![g] = Nothing]
      /\ todo' = [todo EXCEPT ![g] = Rest(g, sending[g], ps)]
      /\ UNCHANGED <<lookupVars, callVars, ps, got>>
  BY DEF Put
<1>2. /\ todo' \in [Goroutine -> SUBSET Found]
      /\ \A h \in Goroutine : todo'[h] \subseteq todo[h]
  BY <1>1 DEF IInv, OwnTypeOK, Rest
<1>3. /\ sending[g] \in Found
      /\ sending' \in [Goroutine -> Found \cup {Nothing}]
      /\ sending'[g] = Nothing
      /\ \A h \in Goroutine : h # g => sending'[h] = sending[h]
  BY <1>1 DEF IInv, OwnTypeOK
<1>4. /\ out \in Seq(Found) /\ Len(out) \in Nat
      /\ out' \in Seq(Found) /\ Len(out') = Len(out) + 1
      /\ out'[Len(out) + 1] = sending[g]
      /\ \A i \in 1 .. Len(out) : out'[i] = out[i]
  BY <1>1, <1>3 DEF IInv, OwnTypeOK
<1>5. OwnTypeOK'
  BY <1>1, <1>2, <1>3, <1>4 DEF IInv, OwnTypeOK, callVars
<1>6. Placed'
  <2>1. UNCHANGED <<pc, step, phase, got>>
    BY <1>1 DEF lookupVars, callVars
  <2>2. \A h \in Goroutine : sending'[h] # Nothing => sending[h] # Nothing
    BY <1>3
  <2> QED  BY <1>2, <2>1, <2>2 DEF IInv, Placed, Goroutine
<1>7. Booked'
  <2>1. /\ \A i \in 1 .. Len(out) : InMap(ps, out[i]) /\ out[i] # sending[g]
        /\ \A i, j \in 1 .. Len(out) : out[i] = out[j] => i = j
        /\ InMap(ps, sending[g])
    BY <1>1 DEF IInv, Booked
  <2>2. \A i \in 1 .. Len(out') : i \in 1 .. Len(out) \/ i = Len(out) + 1
    BY <1>4
  <2>3. \A i \in 1 .. Len(out') : InMap(ps', out'[i])
    BY <1>1, <1>4, <2>1, <2>2 DEF InMap
  <2>4. \A i, j \in 1 .. Len(out') : out'[i] = out'[j] => i = j
    BY <1>4, <2>1, <2>2
  <2>5. ASSUME NEW h \in Goroutine, sending'[h] # Nothing
        PROVE  /\ InMap(ps', sending'[h])
               /\ \A i \in 1 .. Len(out') : out'[i] # sending'[h]
               /\ \A k \in Goroutine : sending'[k] = sending'[h] => k = h
    <3>1. h # g /\ sending'[h] = sending[h] /\ sending[h] # Nothing
      BY <1>3, <2>5
    <3>2. /\ InMap(ps, sending[h])
          /\ \A i \in 1 .. Len(out) : out[i] # sending[h]
          /\ \A k \in Goroutine : sending[k] = sending[h] => k = h
      BY <3>1 DEF IInv, Booked
    <3>3. sending[g] # sending[h]
      BY <3>1, <3>2
    <3>4. InMap(ps', sending'[h])
      BY <1>1, <3>1, <3>2 DEF InMap
    <3>5. \A i \in 1 .. Len(out') : out'[i] # sending'[h]
      BY <1>4, <2>2, <3>1, <3>2, <3>3
    <3>6. \A k \in Goroutine : sending'[k] = sending'[h] => k = h
      BY <1>3, <3>1, <3>2
    <3> QED  BY <3>4, <3>5, <3>6
  <2> QED  BY <2>3, <2>4, <2>5 DEF Booked
<1>8. StopCounts'
  BY <1>1 DEF IInv, StopCounts, Enough, findAll, Size, callVars, lookupVars
<1> QED  BY <1>5, <1>6, <1>7, <1>8 DEF Own

(* A step that offers and sends nothing: at most goroutines give up what   *)
(* they have in hand, and queries end.                                     *)
LEMMA OtherOwn ==
  ASSUME IInv, UNCHANGED <<ps, out, count, stop>>,
         phase' \in {"local", "lookup", "closed"}, refreshed' \in BOOLEAN,
         taken' \in 0 .. Len(out),
         phase' = "local" => phase = "local" /\ pc' = "start",
         phase' = "closed" => pc' \in {"start", "done"},
         got' \subseteq Peer,
         todo' \in [Goroutine -> SUBSET Found],
         sending' \in [Goroutine -> Found \cup {Nothing}],
         \A g \in Goroutine : sending'[g] \in {sending[g], Nothing},
         todo'[Routine] # {} \/ sending'[Routine] # Nothing => phase' = "local",
         \A p \in Peer : /\ todo'[p] # {} \/ sending'[p] # Nothing => p \in got'
                         /\ p \in got' => step'[p] \in {"asking", "following"}
  PROVE  Own'
<1>1. OwnTypeOK'
  BY DEF IInv, OwnTypeOK
<1>2. Placed'
  BY DEF Placed
<1>3. StopCounts'
  BY DEF IInv, StopCounts, Enough, findAll, Size
<1>4. Booked'
  BY DEF IInv, Booked, InMap
<1> QED  BY <1>1, <1>2, <1>3, <1>4 DEF Own

LEMMA QueryOwn ==
  ASSUME IInv, NEW p \in Peer, QueryReturns(p) \/ QueryFails(p), P!IInv'
  PROVE  Own'
<1>1. p \in Goroutine /\ Routine \notin Peer /\ Peer \subseteq Goroutine
  BY FindProvidersAssumption DEF Goroutine
<1>2. /\ UNCHANGED <<pc, stop, ps, out, callVars>>
      /\ got' = got \ {p}
  BY DEF QueryReturns, QueryFails, L!Answer, L!Fail, L!FollowUpReturns
<1>3. \A q \in Peer : q # p => step'[q] = step[q]
  BY DEF QueryReturns, QueryFails, L!Answer, L!Fail, L!FollowUpReturns, L!Send,
         IInv, P!IInv, P!TypeOK
<1>4. /\ todo' \in [Goroutine -> SUBSET Found] /\ todo'[p] = {}
      /\ \A g \in Goroutine : g # p => todo'[g] = todo[g]
  BY <1>1 DEF QueryReturns, QueryFails, Busy, IInv, OwnTypeOK
<1>5. /\ sending' \in [Goroutine -> Found \cup {Nothing}] /\ sending'[p] = Nothing
      /\ \A g \in Goroutine : g # p => sending'[g] = sending[g]
  BY <1>1 DEF QueryReturns, QueryFails, Busy, IInv, OwnTypeOK
<1>6. /\ phase' \in {"local", "lookup", "closed"} /\ refreshed' \in BOOLEAN
      /\ taken' \in 0 .. Len(out) /\ got' \subseteq Peer
      /\ phase' = "local" => phase = "local" /\ pc' = "start"
      /\ phase' = "closed" => pc' \in {"start", "done"}
  BY <1>2 DEF IInv, OwnTypeOK, Placed, callVars
<1>7. todo'[Routine] # {} \/ sending'[Routine] # Nothing => phase' = "local"
  BY <1>1, <1>2, <1>4, <1>5 DEF IInv, Placed, callVars, Goroutine
<1>8. \A q \in Peer : /\ todo'[q] # {} \/ sending'[q] # Nothing => q \in got'
                      /\ q \in got' => step'[q] \in {"asking", "following"}
  BY <1>1, <1>2, <1>3, <1>4, <1>5 DEF IInv, Placed
<1>9. \A g \in Goroutine : sending'[g] \in {sending[g], Nothing}
  BY <1>5
<1> QED  BY <1>2, <1>4, <1>5, <1>6, <1>7, <1>8, <1>9, OtherOwn DEF callVars

LEMMA ReplyOwn ==
  ASSUME IInv, NEW p \in Peer, NEW provs \in SUBSET Found, Reply(p, provs)
  PROVE  Own'
<1>1. p \in Goroutine /\ p # Routine /\ Peer \subseteq Goroutine
  BY FindProvidersAssumption DEF Goroutine
<1>2. /\ step[p] \in {"asking", "following"}
      /\ got' = got \cup {p}
      /\ todo' = [todo EXCEPT ![p] = provs]
      /\ UNCHANGED <<lookupVars, callVars, ps, sending, out>>
  BY DEF Reply
<1>3. /\ todo' \in [Goroutine -> SUBSET Found]
      /\ \A g \in Goroutine : g # p => todo'[g] = todo[g]
  BY <1>1, <1>2 DEF IInv, OwnTypeOK
<1>4. UNCHANGED <<ps, out, count, stop, phase, refreshed, taken, pc, step, sending>>
  BY <1>2 DEF lookupVars, callVars
<1>5. /\ phase' \in {"local", "lookup", "closed"} /\ refreshed' \in BOOLEAN
      /\ taken' \in 0 .. Len(out) /\ got' \subseteq Peer
      /\ phase' = "local" => phase = "local" /\ pc' = "start"
      /\ phase' = "closed" => pc' \in {"start", "done"}
      /\ sending' \in [Goroutine -> Found \cup {Nothing}]
  BY <1>2, <1>4 DEF IInv, OwnTypeOK, Placed
<1>6. todo'[Routine] # {} \/ sending'[Routine] # Nothing => phase' = "local"
  BY <1>1, <1>3, <1>4 DEF IInv, Placed, Goroutine
<1>7. \A q \in Peer : /\ todo'[q] # {} \/ sending'[q] # Nothing => q \in got'
                      /\ q \in got' => step'[q] \in {"asking", "following"}
  BY <1>1, <1>2, <1>3, <1>4 DEF IInv, Placed
<1>8. \A g \in Goroutine : sending'[g] \in {sending[g], Nothing}
  BY <1>4
<1> QED  BY <1>3, <1>4, <1>5, <1>6, <1>7, <1>8, OtherOwn

(* The routine, the loop of the lookup and the caller.                     *)
LEMMA SearchOwn ==
  ASSUME IInv, OtherStep
  PROVE  Own'
<1>1. Routine \in Goroutine /\ Routine \notin Peer /\ Peer \subseteq Goroutine
  BY FindProvidersAssumption DEF Goroutine
<1>2. UNCHANGED <<ps, out, count, stop, got>>
  BY DEF OtherStep, LocalFails, LocalEnds, LookupSteps, NoSeeds, Close, Receive, CancelSearch, vars,
         lookupVars, callVars, offerVars, L!CancelContext, L!Loop, L!Seed, L!ReceiveUpdate,
         L!CancelLoop, L!EndRun, L!ReceiveFollowUp, L!CancelFollowUps, L!Drained
<1>3. /\ phase' \in {"local", "lookup", "closed"} /\ refreshed' \in BOOLEAN
      /\ taken' \in 0 .. Len(out)
  <2>1. /\ phase \in {"local", "lookup", "closed"} /\ refreshed \in BOOLEAN
        /\ taken \in 0 .. Len(out) /\ Len(out) \in Nat
    BY DEF IInv, OwnTypeOK
  <2>2. CASE Receive
    BY <2>1, <2>2 DEF Receive
  <2>3. completed \in BOOLEAN
    BY DEF IInv, P!IInv, P!TypeOK
  <2>4. CASE ~ Receive
    BY <2>1, <2>3, <2>4 DEF OtherStep, LocalFails, LocalEnds, LookupSteps, NoSeeds, Close, CancelSearch,
                      vars, callVars
  <2> QED  BY <2>2, <2>4
<1>4. /\ phase' = "local" => phase = "local" /\ pc' = "start"
      /\ phase' = "closed" => pc' \in {"start", "done"}
  BY DEF OtherStep, LocalFails, LocalEnds, LookupSteps, NoSeeds, Close, Receive, CancelSearch, vars,
         lookupVars, callVars, L!CancelContext, IInv, Placed
<1>5. /\ todo' \in [Goroutine -> SUBSET Found]
      /\ sending' \in [Goroutine -> Found \cup {Nothing}]
      /\ \A g \in Goroutine : todo'[g] \subseteq todo[g] /\ sending'[g] \in {sending[g], Nothing}
  BY DEF OtherStep, LocalFails, LocalEnds, LookupSteps, NoSeeds, Close, Receive, CancelSearch, vars,
         offerVars, IInv, OwnTypeOK
<1>6. todo'[Routine] # {} \/ sending'[Routine] # Nothing => phase' = "local"
  <2>1. CASE LocalFails
    BY <1>1, <2>1 DEF LocalFails, IInv, OwnTypeOK
  <2>2. CASE LocalEnds
    BY <1>1, <2>2 DEF LocalEnds, Busy, offerVars
  <2>3. CASE LookupSteps \/ NoSeeds \/ Close
    BY <1>1, <1>5, <2>3 DEF LookupSteps, NoSeeds, Close, IInv, Placed
  <2>4. CASE Receive \/ CancelSearch \/ UNCHANGED vars
    BY <1>1, <2>4 DEF Receive, CancelSearch, vars, callVars, offerVars, IInv, Placed
  <2> QED  BY <2>1, <2>2, <2>3, <2>4 DEF OtherStep
<1>7. \A p \in Peer : step[p] \in {"asking", "following"} => step'[p] = step[p]
  <2>1. CASE LookupSteps
    BY <2>1, SameLoop, LoopKeepsQueries DEF LookupSteps, IInv
  <2>2. CASE ~ LookupSteps
    BY <2>2 DEF OtherStep, LocalFails, LocalEnds, NoSeeds, Close, Receive, CancelSearch, vars,
                lookupVars, L!CancelContext
  <2> QED  BY <2>1, <2>2
<1>8. \A p \in Peer : /\ todo'[p] # {} \/ sending'[p] # Nothing => p \in got'
                      /\ p \in got' => step'[p] \in {"asking", "following"}
  BY <1>1, <1>2, <1>5, <1>7 DEF IInv, Placed
<1>9. got' \subseteq Peer
  BY <1>2 DEF IInv, OwnTypeOK
<1> QED  BY <1>2, <1>3, <1>4, <1>5, <1>6, <1>8, <1>9, OtherOwn

LEMMA NextIInv == IInv /\ [Next]_vars => IInv'
<1> SUFFICES ASSUME IInv, [Next]_vars PROVE IInv'
  OBVIOUS
<1>1. P!IInv'
  BY SearchIsLookup, LookupAssumed, P!NextIInv DEF IInv
<1>2. ASSUME NEW g \in Goroutine, NEW r \in todo[g], Offer(g, r)  PROVE Own'
  BY <1>2, OfferOwn
<1>3. ASSUME NEW g \in Goroutine, Put(g)  PROVE Own'
  BY <1>3, PutOwn
<1>4. ASSUME NEW p \in Peer, NEW provs \in SUBSET Found, Reply(p, provs)  PROVE Own'
  BY <1>4, ReplyOwn
<1>5. ASSUME NEW p \in Peer, QueryReturns(p) \/ QueryFails(p)  PROVE Own'
  BY <1>1, <1>5, QueryOwn
<1>6. ASSUME OtherStep  PROVE Own'
  BY <1>6, SearchOwn
<1>7. Own'
  BY <1>2, <1>3, <1>4, <1>5, <1>6, Steps
<1> QED  BY <1>1, <1>7 DEF IInv, Own

(* The invariant from which everything below follows.                      *)
THEOREM Inductive == Spec => []IInv
BY InitIInv, NextIInv, PTL DEF Spec

-----------------------------------------------------------------------------
(* Every variable of the search, and of the lookup in it, keeps its type.  *)
THEOREM TypeCorrect == Spec => []TypeOK
<1>1. IInv => TypeOK
  BY SameType DEF IInv, OwnTypeOK, TypeOK
<1> QED  BY <1>1, Inductive, PTL

(* The search is a lookup whose stopFn, the size of the shared map, never  *)
(* changes its mind: initial states are a lookup's, and every step of any  *)
(* goroutine is one of the lookup or none.                                 *)
THEOREM SearchRefinesLookup == Spec => LookupSpec
<1>1. Init => L!Init
  BY DEF Init
<1>2. IInv /\ [Next]_vars => [L!Next]_(L!vars) /\ [stop => stop']_vars
  BY SearchIsLookup
<1> QED  BY <1>1, <1>2, Inductive, PTL DEF Spec, LookupSpec, L!Spec

(* Whenever the routine closes the channel, whichever way the search ends, *)
(* no goroutine of the lookup or its follow-up is left to send to it.      *)
THEOREM ClosedWhenSilent == Spec => []NoSenderAfterClose
<1>1. IInv => NoSenderAfterClose
  <2> SUFFICES ASSUME IInv, phase = "closed"
               PROVE  /\ \A g \in Goroutine : sending[g] = Nothing
                      /\ \A p \in Peer : step[p] \notin {"asking", "following"}
    BY DEF NoSenderAfterClose
  <2>1. pc \in {"start", "done"}
    BY DEF IInv, Placed
  <2>2. \A p \in Peer : step[p] \notin {"asking", "following"}
    BY <2>1 DEF IInv, P!IInv, P!NoGoroutineLeft, P!InFlight, P!Looping, P!Fresh, P!At, P!In
  <2> QED  BY <2>2, WorkerIsAlive
<1> QED  BY <1>1, Inductive, PTL

(* The caller gets no provider twice in one form, and none beyond count,   *)
(* in whatever order the goroutines offer and send them.                   *)
THEOREM NoneTwiceNoneTooMany == Spec => []ResultsBounded
<1>1. IInv => ResultsBounded
  <2> SUFFICES ASSUME IInv PROVE ResultsBounded
    OBVIOUS
  <2>1. /\ out \in Seq(Found) /\ Len(out) \in Nat /\ DOMAIN out = 1 .. Len(out)
        /\ \A i \in 1 .. Len(out) : out[i] \in Found /\ InMap(ps, out[i])
        /\ \A i, j \in 1 .. Len(out) : out[i] = out[j] => i = j
    BY DEF IInv, OwnTypeOK, Booked
  <2>2. Cardinality(Sent) = Len(out)
    <3> DEFINE f == [i \in 1 .. Len(out) |-> out[i]]
    <3>1. f \in Bijection(1 .. Len(out), Sent)
      BY <2>1 DEF Bijection, Injection, Surjection, IsInjective, Sent
    <3>2. ExistsBijection(1 .. Len(out), Sent)
      BY <3>1 DEF ExistsBijection
    <3> QED  BY <2>1, <3>2, FS_CountingElements
  <2>3. ASSUME ~ findAll  PROVE Cardinality({r.id : r \in Sent}) <= count
    <3> DEFINE A == {r \in Provider : ps[r] # "absent"}
               B == {r.id : r \in Sent}
    <3>1. B \subseteq A
      BY <2>1 DEF Sent, InMap, Found
    <3>2. IsFiniteSet(A) /\ Cardinality(A) \in Nat /\ Cardinality(A) <= count
      BY <2>3, SizeIsNat DEF IInv, StopCounts, Size
    <3>3. count \in Nat
      BY FindProvidersAssumption DEF IInv, OwnTypeOK
    <3> HIDE DEF A, B
    <3>4. IsFiniteSet(B) /\ Cardinality(B) <= Cardinality(A)
      BY <3>1, <3>2, FS_Subset
    <3>5. Cardinality(B) \in Nat
      BY <3>4, FS_CardinalityType
    <3>6. Cardinality(B) <= count
      BY <3>2, <3>3, <3>4, <3>5
    <3> QED  BY <3>6 DEF B
  <2> QED  BY <2>2, <2>3 DEF ResultsBounded
<1> QED  BY <1>1, Inductive, PTL
=============================================================================
