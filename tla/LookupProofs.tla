---------------------------- MODULE LookupProofs ----------------------------
(***************************************************************************)
(* Theorems about Lookup: for any peers and distances, and any K, Alpha    *)
(* and Beta, a lookup keeps to Alpha queries, its goroutines find room in  *)
(* the channel, and what it reports and evicts is justified.               *)
(*                                                                         *)
(* The inductive invariant says where the goroutines are in each phase of  *)
(* the lookup (InFlight, FollowingUp, Ending), and why a completed result  *)
(* has been asked (Counted, ToCome).                                       *)
(***************************************************************************)
EXTENDS Lookup, FiniteSetTheorems, TLAPS

Looping == {"start", "run", "wait"}
Ending  == {"follow", "drain", "done"}
Step    == {"none", "asking", "sent", "following", "replied"}

(* While the loop runs, and until its goroutines are waited for, a peer is *)
(* waited for exactly while a goroutine asks it or its update is pending.  *)
InFlight ==
  IF pc \in Looping
  THEN /\ At({"asking", "sent"}) = In(st, {"Waiting"})
       /\ At({"following", "replied"}) = {}
  ELSE At({"asking", "sent"}) = {}

Fresh == pc = "start" => \A p \in Peer : st[p] = "Unknown"

(* A peer taken for queried, now or by an update under way, was asked.     *)
Counted ==
  \A p \in Peer :
    st[p] = "Queried" \/ (step[p] = "sent" /\ answer[p].state = "Queried") => p \in asked

FollowingUp ==
  \A p \in Peer : step[p] \in {"following", "replied"} => st[p] \in {"Heard", "Waiting"}

(* What a completed lookup returns has been asked or is being asked.       *)
ToCome ==
  pc \in Ending /\ completed => \A p \in result : p \in asked \/ step[p] = "following"

(* A lookup that completes has received every follow-up.                   *)
Received == pc \in {"drain", "done"} /\ completed => At({"following", "replied"}) = {}

IInv ==
  /\ TypeOK
  /\ InFlight
  /\ AtMostAlphaInFlight
  /\ Fresh
  /\ Counted
  /\ OnlyFailuresEvict
  /\ FollowingUp
  /\ ToCome
  /\ Received
  /\ NoGoroutineLeft

-----------------------------------------------------------------------------
(* There are at most n peers with fewer than n peers closer than them: two *)
(* peers at different distances have different numbers of closer peers.    *)
LEMMA ClosestAreFew ==
  ASSUME NEW S \in SUBSET Peer, NEW n \in Nat
  PROVE  /\ IsFiniteSet(Closest(S, n))
         /\ Cardinality(Closest(S, n)) \in Nat
         /\ Cardinality(Closest(S, n)) <= n
<1> DEFINE Closer(p) == {q \in S : Dist[q] < Dist[p]}
           C == Closest(S, n)
           rank == [p \in C |-> Cardinality(Closer(p))]
<1>1. IsFiniteSet(S) /\ IsFiniteSet(C) /\ Cardinality(C) \in Nat
  <2>1. C \in SUBSET S
    BY DEF Closest
  <2>2. IsFiniteSet(S)
    BY FS_Subset, LookupAssumption
  <2> QED  BY <2>1, <2>2, FS_Subset, FS_CardinalityType
<1>2. ASSUME NEW p \in S
      PROVE  IsFiniteSet(Closer(p)) /\ Cardinality(Closer(p)) \in Nat
  <2>1. Closer(p) \in SUBSET S
    OBVIOUS
  <2> QED  BY <1>1, <2>1, FS_Subset, FS_CardinalityType
<1>3. ASSUME NEW p \in S, NEW q \in S, Dist[p] < Dist[q]
      PROVE  Cardinality(Closer(p)) # Cardinality(Closer(q))
  <2>1. Dist[p] \in Nat /\ Dist[q] \in Nat /\ \A x \in S : Dist[x] \in Nat
    BY LookupAssumption
  <2>2. Closer(p) \in SUBSET Closer(q) /\ p \in Closer(q) /\ p \notin Closer(p)
    BY <1>3, <2>1
  <2>3. IsFiniteSet(Closer(q))
    BY <1>2
  <2> HIDE DEF Closer
  <2>4. Closer(p) # Closer(q)
    BY <2>2
  <2> QED  BY <2>2, <2>3, <2>4, FS_Subset
<1>4. C \subseteq S /\ \A p \in C : Cardinality(Closer(p)) < n
  BY DEF Closest
<1>5. rank \in [C -> 0..(n - 1)]
  <2> HIDE DEF C, Closer
  <2>1. ASSUME NEW p \in C  PROVE Cardinality(Closer(p)) \in 0..(n - 1)
    <3>1. p \in S /\ Cardinality(Closer(p)) < n
      BY <1>4
    <3>2. Cardinality(Closer(p)) \in Nat
      BY <1>2, <3>1
    <3> QED  BY <3>1, <3>2
  <2> QED  BY <2>1
<1>6. IsFiniteSet(0..(n - 1)) /\ Cardinality(0..(n - 1)) = n
  BY FS_Interval
<1>7. ASSUME Cardinality(C) > n  PROVE FALSE
  <2> HIDE DEF C, rank
  <2>1. PICK x, y \in C : x # y /\ rank[x] = rank[y]
    BY <1>1, <1>5, <1>6, <1>7, FS_PigeonHole
  <2>2. Dist[x] < Dist[y] \/ Dist[y] < Dist[x]
    <3>1. x \in Peer /\ y \in Peer
      BY <1>4
    <3> QED  BY <2>1, <3>1, LookupAssumption
  <2>3. rank[x] = Cardinality(Closer(x)) /\ rank[y] = Cardinality(Closer(y))
    BY DEF rank
  <2>4. x \in S /\ y \in S
    BY <1>4
  <2> HIDE DEF Closer
  <2> QED  BY <1>3, <2>1, <2>2, <2>3, <2>4
<1> HIDE DEF C
<1>8. Cardinality(C) <= n
  BY <1>1, <1>7
<1> QED  BY <1>1, <1>8 DEF C

(* Every set of peers is finite.                                           *)
LEMMA PeersFinite ==
  ASSUME NEW S \in SUBSET Peer
  PROVE  IsFiniteSet(S) /\ Cardinality(S) \in Nat
BY FS_Subset, FS_CardinalityType, LookupAssumption

-----------------------------------------------------------------------------
(* An iteration of the loop that starts with a place to spare: peers are   *)
(* waited for exactly while asked, and at most Alpha of them.              *)
LEMMA Iteration ==
  ASSUME NEW s \in [Peer -> PeerState], NEW idle \in [Peer -> Step],
         \A p \in Peer : idle[p] \in {"asking", "sent"} <=> s[p] = "Waiting",
         \A p \in Peer : idle[p] \notin {"following", "replied"},
         Cardinality(In(s, {"Waiting"})) < Alpha,
         Proceed(s, idle)
  PROVE  /\ pc' \in {"run", "wait"}
         /\ st' \in [Peer -> PeerState]
         /\ step' \in [Peer -> Step]
         /\ reason' \in {reason, "Stopped", "Starvation", "Completed"}
         /\ \A p \in Peer : step'[p] \in {"asking", "sent"} <=> st'[p] = "Waiting"
         /\ \A p \in Peer : step'[p] \notin {"following", "replied"}
         /\ Cardinality(In(st', {"Waiting"})) <= Alpha
         /\ \A p \in Peer : st'[p] = "Queried" <=> s[p] = "Queried"
         /\ \A p \in Peer : step'[p] = "sent" => idle[p] = "sent"
         /\ \A p \in Peer : s[p] \in {"Queried", "Unreachable"} => step'[p] = idle[p]
<1> DEFINE Q == PeersToQuery(s)
           W == In(s, {"Waiting"})
<1>1. CASE Ready(s)
  <2>1. pc' = "wait" /\ st' = s /\ step' = idle /\ reason' = ReasonFor(s)
    BY <1>1 DEF Proceed
  <2>2. Cardinality(In(st', {"Waiting"})) <= Alpha
    <3>1. W \in SUBSET Peer /\ Alpha \in Nat
      BY LookupAssumption DEF In
    <3>2. Cardinality(W) \in Nat
      BY <3>1, PeersFinite
    <3> QED  BY <2>1, <3>1, <3>2
  <2>3. reason' \in {"Stopped", "Starvation", "Completed"}
    BY <2>1 DEF ReasonFor
  <2> QED  BY <2>1, <2>2, <2>3
<1>2. CASE ~ Ready(s)
  <2>1. /\ pc' = "run"
        /\ st' = [p \in Peer |-> IF p \in Q THEN "Waiting" ELSE s[p]]
        /\ step' = [p \in Peer |-> IF p \in Q THEN "asking" ELSE idle[p]]
        /\ reason' = reason
    BY <1>2 DEF Proceed
  <2>2. Alpha \in Nat /\ W \in SUBSET Peer /\ IsFiniteSet(W) /\ Cardinality(W) \in Nat
    <3>1. W \in SUBSET Peer
      BY DEF In
    <3> HIDE DEF W
    <3> QED  BY <3>1, PeersFinite, LookupAssumption
  <2>3. /\ Q \in SUBSET In(s, {"Heard"})
        /\ Cardinality(Q) <= Alpha - Cardinality(W)
    <3>1. Alpha - Cardinality(W) \in Nat /\ Alpha - Cardinality(W) >= 1
      BY <2>2
    <3>2. Q = Closest(In(s, {"Heard"}), Alpha - Cardinality(W))
      BY <3>1 DEF PeersToQuery, UpToN
    <3>3. In(s, {"Heard"}) \in SUBSET Peer
      BY DEF In
    <3> HIDE DEF W, Q
    <3>4. Cardinality(Q) <= Alpha - Cardinality(W)
      BY <3>1, <3>2, <3>3, ClosestAreFew
    <3>5. Q \in SUBSET In(s, {"Heard"})
      BY <3>2 DEF Closest
    <3> QED  BY <3>4, <3>5
  <2>4. \A p \in Q : p \in Peer /\ s[p] = "Heard"
    BY <2>3 DEF In
  <2>5. In(st', {"Waiting"}) = W \cup Q
    <3> HIDE DEF Q
    <3> QED  BY <2>1, <2>4 DEF In
  <2>6. Cardinality(In(st', {"Waiting"})) <= Alpha
    <3>1. IsFiniteSet(Q) /\ Cardinality(Q) \in Nat
      <4>1. Q \in SUBSET Peer
        BY <2>4
      <4> HIDE DEF Q
      <4> QED  BY <4>1, PeersFinite
    <3> HIDE DEF Q, W
    <3>2. W \cap Q \in SUBSET Q /\ Cardinality(W \cap Q) \in Nat
      BY <3>1, FS_Subset, FS_CardinalityType
    <3>3. Cardinality(W \cup Q) = Cardinality(W) + Cardinality(Q) - Cardinality(W \cap Q)
      BY <2>2, <3>1, FS_Union
    <3>4. Cardinality(W) + Cardinality(Q) <= Alpha
      BY <2>2, <2>3, <3>1
    <3>5. Cardinality(W \cup Q) <= Alpha
      BY <2>2, <3>1, <3>2, <3>3, <3>4
    <3> QED  BY <2>5, <3>5
  <2>7. st' \in [Peer -> PeerState] /\ step' \in [Peer -> Step]
    <3> HIDE DEF Q
    <3> QED  BY <2>1 DEF PeerState, Step
  <2> HIDE DEF Q, W
  <2>8. \A p \in Peer : step'[p] \in {"asking", "sent"} <=> st'[p] = "Waiting"
    BY <2>1, <2>4
  <2>9. /\ \A p \in Peer : step'[p] \notin {"following", "replied"}
        /\ \A p \in Peer : st'[p] = "Queried" <=> s[p] = "Queried"
        /\ \A p \in Peer : step'[p] = "sent" => idle[p] = "sent"
        /\ \A p \in Peer : s[p] \in {"Queried", "Unreachable"} => step'[p] = idle[p]
    BY <2>1, <2>4
  <2>10. pc' = "run" /\ reason' = reason
    BY <2>1
  <2> QED  BY <2>6, <2>7, <2>8, <2>9, <2>10
<1> QED  BY <1>1, <1>2

-----------------------------------------------------------------------------
(* InFlight and the facts about goroutines, peer by peer.                  *)
LEMMA InFlightPointwise ==
  /\ InFlight <=>
       \A p \in Peer :
         IF pc \in Looping
         THEN /\ step[p] \in {"asking", "sent"} <=> st[p] = "Waiting"
              /\ step[p] \notin {"following", "replied"}
         ELSE step[p] \notin {"asking", "sent"}
  /\ Received <=>
       (pc \in {"drain", "done"} /\ completed =>
          \A p \in Peer : step[p] \notin {"following", "replied"})
  /\ NoGoroutineLeft <=>
       (pc = "done" => \A p \in Peer : step[p] \notin {"asking", "following", "replied"})
BY DEF InFlight, Received, NoGoroutineLeft, At, In

LEMMA InitIInv == Init => IInv
<1> SUFFICES ASSUME Init PROVE IInv
  OBVIOUS
<1>1. TypeOK
  <2>1. Cardinality({}) = 0 /\ K \in Nat
    BY FS_EmptySet, LookupAssumption
  <2>2. NoUpdate \in Update
    BY DEF NoUpdate, Update
  <2>3. /\ st \in [Peer -> PeerState]
        /\ step \in [Peer -> {"none", "asking", "sent", "following", "replied"}]
        /\ answer \in [Peer -> Update]
    BY <2>2 DEF Init, PeerState
  <2>4. Cardinality(result) <= K
    <3>1. result = {}
      BY DEF Init
    <3>2. 0 <= K
      BY <2>1
    <3> QED  BY <2>1, <3>1, <3>2
  <2> QED  BY <2>3, <2>4 DEF Init, TypeOK
<1>2. InFlight /\ Received /\ NoGoroutineLeft
  BY InFlightPointwise DEF Init, Looping
<1>3. AtMostAlphaInFlight
  <2>1. In(st, {"Waiting"}) = {}
    BY DEF Init, In
  <2> QED  BY <2>1, FS_EmptySet, LookupAssumption DEF AtMostAlphaInFlight
<1>4. Fresh /\ Counted /\ OnlyFailuresEvict /\ FollowingUp /\ ToCome
  BY DEF Init, Fresh, Counted, OnlyFailuresEvict, FollowingUp, ToCome, Ending
<1> QED  BY <1>1, <1>2, <1>3, <1>4 DEF IInv

(* What an iteration leaves to be shown.                                   *)
LEMMA IterationIInv ==
  ASSUME IInv, pc \in {"start", "run"},
         NEW s \in [Peer -> PeerState], NEW idle \in [Peer -> Step],
         \A p \in Peer : idle[p] \in {"asking", "sent"} <=> s[p] = "Waiting",
         \A p \in Peer : idle[p] \notin {"following", "replied"},
         Cardinality(In(s, {"Waiting"})) < Alpha,
         \A p \in Peer : s[p] = "Queried" => p \in asked,
         \A p \in Peer : idle[p] = "sent" => step[p] = "sent" /\ answer'[p] = answer[p],
         Proceed(s, idle),
         answer' \in [Peer -> Update],
         UNCHANGED <<cancelled, stop, result, completed, netVars>>
  PROVE  IInv'
<1>1. /\ pc' \in {"run", "wait"}
      /\ st' \in [Peer -> PeerState]
      /\ step' \in [Peer -> Step]
      /\ reason' \in {reason, "Stopped", "Starvation", "Completed"}
      /\ Cardinality(In(st', {"Waiting"})) <= Alpha
  BY Iteration
<1>2. \A p \in Peer : /\ step'[p] \in {"asking", "sent"} <=> st'[p] = "Waiting"
                      /\ step'[p] \notin {"following", "replied"}
  BY Iteration
<1>3. \A p \in Peer : /\ st'[p] = "Queried" <=> s[p] = "Queried"
                      /\ step'[p] = "sent" => idle[p] = "sent"
  BY Iteration
<1>4. TypeOK'
  BY <1>1 DEF IInv, TypeOK, netVars, Step
<1>5. InFlight' /\ Received' /\ NoGoroutineLeft'
  BY <1>1, <1>2 DEF InFlight, Received, NoGoroutineLeft, At, In, Looping
<1>6. AtMostAlphaInFlight'
  BY <1>1 DEF AtMostAlphaInFlight, In
<1>7. Fresh' /\ FollowingUp' /\ ToCome'
  BY <1>1, <1>2 DEF Fresh, FollowingUp, ToCome, Ending
<1>8. Counted'
  BY <1>3 DEF IInv, Counted, netVars
<1>9. OnlyFailuresEvict'
  BY DEF IInv, OnlyFailuresEvict, netVars
<1> QED  BY <1>4, <1>5, <1>6, <1>7, <1>8, <1>9 DEF IInv

LEMMA SeedIInv ==
  ASSUME IInv, NEW seeds \in SUBSET Peer, Seed(seeds)
  PROVE  IInv'
<1> DEFINE s == Learned(st, seeds)
<1>1. pc = "start" /\ Proceed(s, step)
      /\ UNCHANGED <<answer, cancelled, stop, result, completed, netVars>>
  BY DEF Seed
<1>2. /\ s \in [Peer -> PeerState] /\ step \in [Peer -> Step] /\ answer \in [Peer -> Update]
      /\ \A p \in Peer : s[p] \in {"Unknown", "Heard"}
  BY <1>1 DEF IInv, TypeOK, Fresh, Learned, PeerState, Step
<1>3. \A p \in Peer : step[p] \notin {"asking", "sent", "following", "replied"}
  BY <1>1, InFlightPointwise DEF IInv, Fresh, Looping
<1> HIDE DEF s
<1>4. In(s, {"Waiting"}) = {}
  BY <1>2 DEF In
<1>5. Cardinality(In(s, {"Waiting"})) < Alpha
  BY <1>4, FS_EmptySet, LookupAssumption
<1> QED
  BY <1>1, <1>2, <1>3, <1>5, IterationIInv

LEMMA ReceiveUpdateIInv ==
  ASSUME IInv, NEW p \in Peer, ReceiveUpdate(p)
  PROVE  IInv'
<1> DEFINE s    == [Learned(st, answer[p].heard) EXCEPT ![p] = answer[p].state]
           idle == [step EXCEPT ![p] = "none"]
<1>1. /\ pc = "run" /\ step[p] = "sent" /\ Proceed(s, idle)
      /\ answer' = [answer EXCEPT ![p] = NoUpdate]
      /\ UNCHANGED <<cancelled, stop, result, completed, netVars>>
  BY DEF ReceiveUpdate
<1>2. /\ answer[p].state \in {"Queried", "Unreachable"} /\ answer[p].heard \subseteq Peer
      /\ answer' \in [Peer -> Update]
      /\ s \in [Peer -> PeerState] /\ idle \in [Peer -> Step]
  BY <1>1 DEF IInv, TypeOK, Learned, PeerState, Step, Update, NoUpdate
<1>3. /\ idle[p] = "none" /\ s[p] = answer[p].state
      /\ \A q \in Peer \ {p} : /\ idle[q] = step[q]
                               /\ answer'[q] = answer[q]
                               /\ s[q] = "Waiting" <=> st[q] = "Waiting"
                               /\ s[q] = "Queried" <=> st[q] = "Queried"
  BY <1>1, <1>2 DEF IInv, TypeOK, Learned
<1>4. /\ st[p] = "Waiting"
      /\ \A q \in Peer : /\ step[q] \in {"asking", "sent"} <=> st[q] = "Waiting"
                         /\ step[q] \notin {"following", "replied"}
  BY <1>1, InFlightPointwise DEF IInv, Looping
<1> HIDE DEF s, idle
<1>5. \A q \in Peer : /\ idle[q] \in {"asking", "sent"} <=> s[q] = "Waiting"
                      /\ idle[q] \notin {"following", "replied"}
                      /\ idle[q] = "sent" => step[q] = "sent" /\ answer'[q] = answer[q]
  BY <1>2, <1>3, <1>4
<1>6. \A q \in Peer : s[q] = "Queried" => q \in asked
  BY <1>1, <1>3 DEF IInv, Counted
<1>7. Cardinality(In(s, {"Waiting"})) < Alpha
  <2>1. In(s, {"Waiting"}) = In(st, {"Waiting"}) \ {p} /\ p \in In(st, {"Waiting"})
    BY <1>2, <1>3, <1>4 DEF In
  <2>2. IsFiniteSet(In(st, {"Waiting"})) /\ Cardinality(In(st, {"Waiting"})) \in Nat
    <3>1. In(st, {"Waiting"}) \in SUBSET Peer
      BY DEF In
    <3> QED  BY <3>1, PeersFinite
  <2>3. Cardinality(In(s, {"Waiting"})) = Cardinality(In(st, {"Waiting"})) - 1
    BY <2>1, <2>2, FS_RemoveElement
  <2> QED  BY <2>2, <2>3, LookupAssumption DEF IInv, AtMostAlphaInFlight
<1> QED
  BY <1>1, <1>2, <1>5, <1>6, <1>7, IterationIInv

LEMMA CancelLoopIInv == IInv /\ CancelLoop => IInv'
<1> SUFFICES ASSUME IInv, CancelLoop PROVE IInv'
  OBVIOUS
<1>1. /\ pc \in {"start", "run"} /\ pc' = "wait" /\ reason' = "Cancelled"
      /\ UNCHANGED <<st, step, answer, cancelled, stop, result, completed, netVars>>
  BY DEF CancelLoop
<1>2. TypeOK' /\ AtMostAlphaInFlight'
  BY <1>1 DEF IInv, TypeOK, netVars, AtMostAlphaInFlight, In
<1>3. InFlight' /\ Received' /\ NoGoroutineLeft'
  BY <1>1 DEF IInv, InFlight, Received, NoGoroutineLeft, At, In, Looping
<1>4. Fresh' /\ Counted' /\ OnlyFailuresEvict' /\ FollowingUp' /\ ToCome'
  BY <1>1 DEF IInv, Fresh, Counted, OnlyFailuresEvict, FollowingUp, ToCome, Ending, netVars
<1> QED  BY <1>2, <1>3, <1>4 DEF IInv

(* A goroutine sends its update, whatever it is.                           *)
LEMMA SendIInv ==
  ASSUME IInv, NEW p \in Peer, step[p] = "asking",
         NEW update \in Update, Send(p, update),
         UNCHANGED <<pc, st, cancelled, stop, outcomeVars>>,
         asked' \in SUBSET Peer, asked \subseteq asked',
         update.state = "Queried" => p \in asked',
         failed' \in SUBSET Peer, evicted' \subseteq failed'
  PROVE  IInv'
<1>1. /\ step' = [step EXCEPT ![p] = "sent"]
      /\ answer' = [answer EXCEPT ![p] = update]
  BY DEF Send
<1>2. /\ step'[p] = "sent" /\ answer'[p] = update
      /\ \A q \in Peer \ {p} : step'[q] = step[q] /\ answer'[q] = answer[q]
  BY <1>1 DEF IInv, TypeOK
<1>3. TypeOK' /\ AtMostAlphaInFlight'
  BY <1>1 DEF IInv, TypeOK, outcomeVars, AtMostAlphaInFlight, In
<1>4. pc \in Looping /\ pc' = pc /\ st' = st /\ completed' = completed /\ result' = result
  BY InFlightPointwise DEF IInv, outcomeVars
<1>5. \A q \in Peer : step[q] \in {"asking", "sent"} <=> st[q] = "Waiting"
  BY <1>4, InFlightPointwise DEF IInv
<1>6. \A q \in Peer : step[q] \notin {"following", "replied"}
  BY <1>4, InFlightPointwise DEF IInv
<1>7. /\ \A q \in Peer : step'[q] \in {"asking", "sent"} <=> st'[q] = "Waiting"
      /\ \A q \in Peer : step'[q] \notin {"following", "replied"}
  BY <1>2, <1>4, <1>5, <1>6
<1>8. InFlight' /\ Received' /\ NoGoroutineLeft'
  BY <1>4, <1>7 DEF InFlight, Received, NoGoroutineLeft, At, In, Looping
<1>9. Fresh' /\ FollowingUp' /\ ToCome'
  BY <1>4, <1>7 DEF IInv, Fresh, FollowingUp, ToCome, Looping, Ending
<1>10. Counted'
  BY <1>2, <1>4 DEF IInv, Counted
<1>11. OnlyFailuresEvict'
  BY DEF OnlyFailuresEvict
<1> QED  BY <1>3, <1>8, <1>9, <1>10, <1>11 DEF IInv

LEMMA AnswerIInv ==
  ASSUME IInv, NEW p \in Peer, NEW heard \in SUBSET Peer, Answer(p, heard)
  PROVE  IInv'
<1>1. /\ step[p] = "asking"
      /\ Send(p, [state |-> "Queried", heard |-> heard])
      /\ UNCHANGED <<pc, st, cancelled, stop, outcomeVars>>
      /\ asked' = asked \cup {p} /\ failed' = failed /\ evicted' = evicted
  BY DEF Answer
<1>2. [state |-> "Queried", heard |-> heard] \in Update
  BY DEF Update
<1>3. /\ asked' \in SUBSET Peer /\ asked \subseteq asked' /\ p \in asked'
      /\ failed' \in SUBSET Peer /\ evicted' \subseteq failed'
  BY <1>1 DEF IInv, TypeOK, OnlyFailuresEvict
<1> QED  BY <1>1, <1>2, <1>3, SendIInv

LEMMA FailIInv ==
  ASSUME IInv, NEW p \in Peer, Fail(p)
  PROVE  IInv'
<1> DEFINE update == [state |-> "Unreachable", heard |-> {}]
<1>1. /\ step[p] = "asking"
      /\ Send(p, update)
      /\ UNCHANGED <<pc, st, cancelled, stop, outcomeVars, asked>>
      /\ failed' = failed \cup {p} \/ (PathDone /\ failed' = failed)
      /\ evicted' = IF PathDone THEN evicted ELSE evicted \cup {p}
  BY DEF Fail
<1>2. update \in Update /\ update.state # "Queried"
  BY DEF Update
<1>3. asked' \in SUBSET Peer /\ failed' \in SUBSET Peer /\ evicted' \subseteq failed'
  BY <1>1 DEF IInv, TypeOK, OnlyFailuresEvict
<1> HIDE DEF update
<1> QED  BY <1>1, <1>2, <1>3, SendIInv

-----------------------------------------------------------------------------
(* The end of the loop: whoever is in the result and was not asked is      *)
(* followed up, or the lookup does not claim to be complete.               *)
LEMMA EndRunIInv == IInv /\ EndRun => IInv'
<1> SUFFICES ASSUME IInv, EndRun PROVE IInv'
  OBVIOUS
<1> DEFINE ended == FollowUps = {} \/ cancelled \/ stop
<1>1. /\ pc = "wait" /\ At({"asking"}) = {}
      /\ result' = Result
      /\ completed' \in BOOLEAN
      /\ completed' => FollowUps = {} \/ ~ ended
      /\ pc' = IF ended THEN "done" ELSE "follow"
      /\ step' = [p \in Peer |-> IF ~ ended /\ p \in FollowUps THEN "following" ELSE "none"]
      /\ answer' = [p \in Peer |-> NoUpdate]
      /\ UNCHANGED <<st, cancelled, stop, reason, netVars>>
  BY DEF EndRun
<1>2. /\ Result \in SUBSET Peer
      /\ Cardinality(Result) <= K
      /\ \A p \in Result : st[p] \in {"Heard", "Waiting", "Queried"}
  <2>1. Usable(st) \in SUBSET Peer /\ K \in Nat
    BY LookupAssumption DEF Usable, In
  <2>2. Cardinality(Result) <= K
    BY <2>1, ClosestAreFew DEF Result
  <2>3. \A p \in Result : p \in Peer /\ st[p] \in {"Heard", "Waiting", "Queried"}
    BY DEF Result, Closest, Usable, In
  <2> QED  BY <2>2, <2>3
<1>3. \A p \in Peer : p \in FollowUps <=> p \in Result /\ st[p] \in {"Heard", "Waiting"}
  BY DEF FollowUps
<1> HIDE DEF ended
<1>4. TypeOK'
  <2>1. NoUpdate \in Update
    BY DEF NoUpdate, Update
  <2>2. /\ step' \in [Peer -> {"none", "asking", "sent", "following", "replied"}]
        /\ answer' \in [Peer -> Update]
        /\ pc' \in {"start", "run", "wait", "follow", "drain", "done"}
    BY <1>1, <2>1
  <2>3. Cardinality(result') <= K /\ result' \in SUBSET Peer
    BY <1>1, <1>2
  <2> QED  BY <1>1, <2>2, <2>3 DEF IInv, TypeOK, netVars
<1>5. InFlight' /\ Received' /\ NoGoroutineLeft'
  <2>1. pc' \in {"done", "follow"} /\ (pc' = "done" => ended)
    BY <1>1
  <2>2. \A p \in Peer : step'[p] \in {"none", "following"} /\ (ended => step'[p] = "none")
    BY <1>1
  <2> QED  BY <2>1, <2>2 DEF InFlight, Received, NoGoroutineLeft, At, Looping
<1>6. AtMostAlphaInFlight' /\ Fresh' /\ OnlyFailuresEvict'
  BY <1>1 DEF IInv, AtMostAlphaInFlight, In, Fresh, OnlyFailuresEvict, netVars
<1>7. Counted'
  BY <1>1 DEF IInv, Counted, netVars
<1>8. FollowingUp'
  BY <1>1, <1>3 DEF FollowingUp
<1>9. ToCome'
  <2> SUFFICES ASSUME completed', NEW p \in Result  PROVE p \in asked \/ step'[p] = "following"
    BY <1>1 DEF ToCome, netVars
  <2>1. CASE p \in FollowUps
    BY <1>1, <1>2, <2>1
  <2>2. CASE p \notin FollowUps
    BY <1>2, <1>3, <2>2 DEF IInv, Counted
  <2> QED  BY <2>1, <2>2
<1> QED  BY <1>4, <1>5, <1>6, <1>7, <1>8, <1>9 DEF IInv

(* Once the loop has ended, only the follow-ups move: what has to be shown *)
(* of a step that touches neither the states nor the result.               *)
LEMMA EndingIInv ==
  ASSUME IInv, pc \in Ending,
         pc' \in Ending,
         completed' \in BOOLEAN, completed' => completed,
         step' \in [Peer -> Step],
         \A p \in Peer : step'[p] \in {"none", step[p], "replied"},
         \A p \in Peer : step'[p] = "replied" => step[p] \in {"following", "replied"},
         \A p \in Peer : step[p] = "following" => step'[p] = "following" \/ p \in asked',
         asked' \in SUBSET Peer, asked \subseteq asked',
         Received', NoGoroutineLeft',
         UNCHANGED <<st, answer, cancelled, stop, reason, result, failed, evicted>>
  PROVE  IInv'
<1>1. TypeOK'
  BY DEF IInv, TypeOK, Step, Ending
<1>2. \A p \in Peer : step[p] \notin {"asking", "sent"}
  BY InFlightPointwise DEF IInv, Looping, Ending
<1>3. \A p \in Peer : step'[p] \notin {"asking", "sent"}
  BY <1>2
<1>4. InFlight'
  BY <1>3 DEF InFlight, At, Looping, Ending
<1>5. AtMostAlphaInFlight' /\ Fresh' /\ OnlyFailuresEvict'
  BY DEF IInv, AtMostAlphaInFlight, In, Fresh, Ending, OnlyFailuresEvict
<1>6. Counted'
  BY <1>3 DEF IInv, Counted
<1>7. FollowingUp'
  BY DEF IInv, FollowingUp
<1>8. ToCome'
  BY DEF IInv, TypeOK, ToCome
<1> QED  BY <1>1, <1>4, <1>5, <1>6, <1>7, <1>8 DEF IInv

LEMMA FollowUpReturnsIInv ==
  ASSUME IInv, NEW p \in Peer, FollowUpReturns(p)
  PROVE  IInv'
<1>1. /\ step[p] = "following" /\ step' = [step EXCEPT ![p] = "replied"]
      /\ asked' = asked \cup {p}
      /\ UNCHANGED <<pc, st, answer, cancelled, stop, outcomeVars, failed, evicted>>
  BY DEF FollowUpReturns
<1>2. pc \in Ending /\ pc # "done"
  BY <1>1, InFlightPointwise DEF IInv, TypeOK, Looping, Ending
<1>3. /\ step \in [Peer -> Step] /\ step' \in [Peer -> Step]
      /\ step'[p] = "replied" /\ \A q \in Peer \ {p} : step'[q] = step[q]
  BY <1>1 DEF IInv, TypeOK, Step
<1>4. Received' /\ NoGoroutineLeft'
  <2>1. ~ (pc \in {"drain", "done"} /\ completed)
    BY <1>1, InFlightPointwise DEF IInv
  <2> QED  BY <1>1, <1>2, <2>1 DEF Received, NoGoroutineLeft, outcomeVars
<1>5. completed' = completed /\ completed \in BOOLEAN /\ asked \in SUBSET Peer
  BY <1>1 DEF IInv, TypeOK, outcomeVars
<1> QED  BY <1>1, <1>2, <1>3, <1>4, <1>5, EndingIInv DEF outcomeVars

LEMMA ReceiveFollowUpIInv ==
  ASSUME IInv, NEW p \in Peer, ReceiveFollowUp(p)
  PROVE  IInv'
<1> DEFINE isLast == At({"following", "replied"}) = {p}
<1>1. /\ pc = "follow" /\ step[p] = "replied" /\ step' = [step EXCEPT ![p] = "none"]
      /\ pc' = IF stop \/ isLast THEN "drain" ELSE "follow"
      /\ completed' = (completed /\ (stop => isLast))
      /\ UNCHANGED <<st, answer, cancelled, stop, reason, result, netVars>>
  BY DEF ReceiveFollowUp
<1>2. /\ step \in [Peer -> Step] /\ step' \in [Peer -> Step]
      /\ step'[p] = "none" /\ \A q \in Peer \ {p} : step'[q] = step[q]
  BY <1>1 DEF IInv, TypeOK, Step
<1>3. Received' /\ NoGoroutineLeft'
  <2>1. CASE isLast
    <3>1. \A q \in Peer : step'[q] \notin {"following", "replied"}
      BY <1>2, <2>1 DEF At
    <3> QED  BY <1>1, <3>1 DEF Received, NoGoroutineLeft, At
  <2>2. CASE ~ isLast
    BY <1>1, <2>2 DEF Received, NoGoroutineLeft
  <2> QED  BY <2>1, <2>2
<1>4. pc \in Ending /\ pc' \in Ending
  BY <1>1 DEF Ending
<1>5. completed' \in BOOLEAN /\ (completed' => completed)
  BY <1>1 DEF IInv, TypeOK
<1>6. asked' = asked /\ asked \in SUBSET Peer /\ failed' = failed /\ evicted' = evicted
  BY <1>1 DEF IInv, TypeOK, netVars
<1>7. step[p] # "following"
  BY <1>1
<1> QED  BY <1>1, <1>2, <1>3, <1>4, <1>5, <1>6, <1>7, EndingIInv

LEMMA CancelFollowUpsIInv == IInv /\ CancelFollowUps => IInv'
<1> SUFFICES ASSUME IInv, CancelFollowUps PROVE IInv'
  OBVIOUS
<1>1. /\ pc = "follow" /\ pc' = "drain" /\ completed' = FALSE
      /\ UNCHANGED <<st, step, answer, cancelled, stop, reason, result, netVars>>
  BY DEF CancelFollowUps
<1>2. pc \in Ending /\ pc' \in Ending /\ step' \in [Peer -> Step] /\ asked \in SUBSET Peer
  BY <1>1 DEF IInv, TypeOK, Step, Ending
<1>3. Received' /\ NoGoroutineLeft'
  BY <1>1 DEF Received, NoGoroutineLeft
<1>4. asked' = asked /\ failed' = failed /\ evicted' = evicted /\ step' = step
  BY <1>1 DEF netVars
<1> QED  BY <1>1, <1>2, <1>3, <1>4, EndingIInv

LEMMA DrainedIInv == IInv /\ Drained => IInv'
<1> SUFFICES ASSUME IInv, Drained PROVE IInv'
  OBVIOUS
<1>1. /\ pc = "drain" /\ pc' = "done"
      /\ completed \/ At({"following"}) = {}
      /\ step' = [p \in Peer |-> IF step[p] = "replied" THEN "none" ELSE step[p]]
      /\ UNCHANGED <<st, answer, cancelled, stop, outcomeVars, netVars>>
  BY DEF Drained
<1>2. /\ pc \in Ending /\ pc' \in Ending /\ asked \in SUBSET Peer /\ completed \in BOOLEAN
      /\ step \in [Peer -> Step] /\ step' \in [Peer -> Step]
  BY <1>1 DEF IInv, TypeOK, Step, Ending
<1>3. \A p \in Peer : step[p] \notin {"asking", "sent", "following"}
  <2>1. \A p \in Peer : step[p] \notin {"asking", "sent"}
    BY <1>1, InFlightPointwise DEF IInv, Looping
  <2>2. At({"following"}) = {}
    BY <1>1, InFlightPointwise DEF IInv, At
  <2> QED  BY <2>1, <2>2 DEF At
<1>4. \A p \in Peer : step'[p] = "none"
  BY <1>1, <1>2, <1>3 DEF Step
<1>5. Received' /\ NoGoroutineLeft'
  BY <1>4 DEF Received, NoGoroutineLeft, At
<1>6. asked' = asked /\ failed' = failed /\ evicted' = evicted /\ completed' = completed
      /\ UNCHANGED <<st, answer, cancelled, stop, reason, result>>
  BY <1>1 DEF netVars, outcomeVars
<1> QED  BY <1>2, <1>3, <1>4, <1>5, <1>6, EndingIInv

(* The caller changes only what IInv says nothing about.                   *)
LEMMA CallerIInv == IInv /\ (CancelContext \/ StopFnChanges \/ UNCHANGED vars) => IInv'
<1> SUFFICES ASSUME IInv, CancelContext \/ StopFnChanges \/ UNCHANGED vars PROVE IInv'
  OBVIOUS
<1>1. /\ UNCHANGED <<pc, st, step, answer, outcomeVars, netVars>>
      /\ cancelled' \in BOOLEAN /\ stop' \in BOOLEAN
  BY DEF CancelContext, StopFnChanges, vars, IInv, TypeOK
<1>2. UNCHANGED <<pc, st, step, answer, reason, result, completed, asked, failed, evicted>>
  BY <1>1 DEF outcomeVars, netVars
<1>3. TypeOK'
  BY <1>1, <1>2 DEF IInv, TypeOK
<1>4. InFlight' /\ Received' /\ NoGoroutineLeft' /\ AtMostAlphaInFlight'
  BY <1>2 DEF IInv, InFlight, Received, NoGoroutineLeft, AtMostAlphaInFlight, At, In
<1>5. Fresh' /\ Counted' /\ OnlyFailuresEvict' /\ FollowingUp' /\ ToCome'
  BY <1>2 DEF IInv, Fresh, Counted, OnlyFailuresEvict, FollowingUp, ToCome
<1> QED  BY <1>3, <1>4, <1>5 DEF IInv

-----------------------------------------------------------------------------
(* The cases of a step, which every proof about Next goes through.         *)
LEMMA Steps ==
  ASSUME [Next]_vars
  PROVE  \/ \E seeds \in SUBSET Peer : Seed(seeds)
         \/ \E p \in Peer : ReceiveUpdate(p)
         \/ CancelLoop
         \/ EndRun
         \/ \E p \in Peer : ReceiveFollowUp(p)
         \/ CancelFollowUps
         \/ Drained
         \/ \E p \in Peer, heard \in SUBSET Peer : Answer(p, heard)
         \/ \E p \in Peer : Fail(p)
         \/ \E p \in Peer : FollowUpReturns(p)
         \/ CancelContext \/ StopFnChanges \/ UNCHANGED vars
BY DEF Next, Loop, Query

LEMMA NextIInv == IInv /\ [Next]_vars => IInv'
<1> SUFFICES ASSUME IInv, [Next]_vars PROVE IInv'
  OBVIOUS
<1>1. ASSUME NEW seeds \in SUBSET Peer, Seed(seeds)  PROVE IInv'
  BY <1>1, SeedIInv
<1>2. ASSUME NEW p \in Peer, ReceiveUpdate(p)  PROVE IInv'
  BY <1>2, ReceiveUpdateIInv
<1>3. ASSUME NEW p \in Peer, NEW heard \in SUBSET Peer, Answer(p, heard)  PROVE IInv'
  BY <1>3, AnswerIInv
<1>4. ASSUME NEW p \in Peer, Fail(p)  PROVE IInv'
  BY <1>4, FailIInv
<1>5. ASSUME NEW p \in Peer, FollowUpReturns(p)  PROVE IInv'
  BY <1>5, FollowUpReturnsIInv
<1>6. ASSUME NEW p \in Peer, ReceiveFollowUp(p)  PROVE IInv'
  BY <1>6, ReceiveFollowUpIInv
<1>7. CASE CancelLoop
  BY <1>7, CancelLoopIInv
<1>8. CASE EndRun
  BY <1>8, EndRunIInv
<1>9. CASE CancelFollowUps \/ Drained
  BY <1>9, CancelFollowUpsIInv, DrainedIInv
<1>10. CASE CancelContext \/ StopFnChanges \/ UNCHANGED vars
  BY <1>10, CallerIInv
<1> QED
  BY <1>1, <1>2, <1>3, <1>4, <1>5, <1>6, <1>7, <1>8, <1>9, <1>10, Steps

(* The invariant from which everything below follows.                      *)
THEOREM Inductive == Spec => []IInv
BY InitIInv, NextIInv, PTL DEF Spec

-----------------------------------------------------------------------------
(* Every variable of a lookup keeps its type, and it never returns more    *)
(* than K peers.                                                           *)
THEOREM TypeCorrect == Spec => []TypeOK
<1>1. IInv => TypeOK
  BY DEF IInv
<1> QED  BY <1>1, Inductive, PTL

(* At most Alpha peers are waited for, whatever arrives in whatever order: *)
(* isReadyToTerminate, which would ask every known peer if its limit came  *)
(* to 0, is called only after an update has made room for one more.        *)
THEOREM BoundedQueries == Spec => []AtMostAlphaInFlight
<1>1. IInv => AtMostAlphaInFlight
  BY DEF IInv
<1> QED  BY <1>1, Inductive, PTL

(* A query goroutine always finds room in the channel of capacity Alpha,   *)
(* also when the loop has ended and nobody reads it: the updates that wait *)
(* there and the goroutine itself are among the at most Alpha in flight.   *)
THEOREM GoroutinesNeverBlock == Spec => []SendNeverBlocks
<1>1. IInv => SendNeverBlocks
  <2> SUFFICES ASSUME IInv, NEW p \in Peer, step[p] = "asking"  PROVE ChannelHasRoom
    BY DEF SendNeverBlocks, At
  <2>1. pc \in Looping /\ At({"asking", "sent"}) = In(st, {"Waiting"})
    BY InFlightPointwise DEF IInv, InFlight
  <2>2. Cardinality(At({"asking", "sent"})) <= Alpha
    BY <2>1 DEF IInv, AtMostAlphaInFlight
  <2>3. At({"sent"}) \in SUBSET At({"asking", "sent"}) /\ At({"asking", "sent"}) \in SUBSET Peer
    BY DEF At
  <2>4. p \in At({"asking", "sent"}) /\ p \notin At({"sent"})
    BY DEF At
  <2>5. IsFiniteSet(At({"asking", "sent"})) /\ Cardinality(At({"asking", "sent"})) \in Nat
    BY <2>3, PeersFinite
  <2>6. /\ Cardinality(At({"sent"})) <= Cardinality(At({"asking", "sent"}))
        /\ Cardinality(At({"sent"})) # Cardinality(At({"asking", "sent"}))
    BY <2>3, <2>4, <2>5, FS_Subset
  <2>7. Cardinality(At({"sent"})) \in Nat
    BY <2>3, PeersFinite
  <2> QED  BY <2>2, <2>5, <2>6, <2>7, LookupAssumption DEF ChannelHasRoom
<1> QED  BY <1>1, Inductive, PTL

(* updateState never meets a report it panics about.                       *)
THEOREM NoPanic == Spec => []UpdatesExpected
<1>1. IInv => UpdatesExpected
  BY DEF IInv, InFlight, UpdatesExpected, Looping
<1> QED  BY <1>1, Inductive, PTL

(* Cancelling a lookup, or ending it, evicts nobody from the routing table *)
(* that did not fail.                                                      *)
THEOREM EvictionsJustified == Spec => []OnlyFailuresEvict
<1>1. IInv => OnlyFailuresEvict
  BY DEF IInv
<1> QED  BY <1>1, Inductive, PTL

(* A lookup that has returned leaves no goroutine behind.                  *)
THEOREM NothingLeftBehind == Spec => []NoGoroutineLeft
<1>1. IInv => NoGoroutineLeft
  BY DEF IInv
<1> QED  BY <1>1, Inductive, PTL

(* A completed lookup has asked every peer it returns.                     *)
THEOREM CompletedAsked == Spec => []CompletedMeansAsked
<1>1. IInv => CompletedMeansAsked
  <2> SUFFICES ASSUME IInv, pc = "done", completed, NEW p \in result  PROVE p \in asked
    BY DEF CompletedMeansAsked
  <2>1. p \in Peer
    BY DEF IInv, TypeOK
  <2>2. step[p] # "following"
    BY <2>1, InFlightPointwise DEF IInv
  <2> QED  BY <2>2 DEF IInv, ToCome, Ending
<1> QED  BY <1>1, Inductive, PTL

(* A peer the lookup is done with has no goroutine, and an iteration gives *)
(* it none, whoever names it.                                              *)
LEMMA Settled ==
  ASSUME IInv, NEW p \in Peer, st[p] \in {"Queried", "Unreachable"}
  PROVE  step[p] = "none"
<1>1. step[p] \in Step
  BY DEF IInv, TypeOK, Step
<1>2. CASE pc \in Looping
  BY <1>1, <1>2, InFlightPointwise DEF IInv, Step
<1>3. CASE pc \notin Looping
  BY <1>1, <1>3, InFlightPointwise DEF IInv, FollowingUp, Step
<1> QED  BY <1>2, <1>3

LEMMA SettledStaysSo ==
  ASSUME IInv, NEW q \in Peer, ReceiveUpdate(q),
         NEW p \in Peer, st[p] \in {"Queried", "Unreachable"}
  PROVE  step'[p] = "none"
<1> DEFINE s    == [Learned(st, answer[q].heard) EXCEPT ![q] = answer[q].state]
           idle == [step EXCEPT ![q] = "none"]
<1>1. pc = "run" /\ step[q] = "sent" /\ Proceed(s, idle)
  BY DEF ReceiveUpdate
<1>2. step[p] = "none" /\ p # q
  BY <1>1, Settled
<1>3. idle[p] = "none"
  BY <1>2
<1>4. s[p] = st[p]
  BY <1>2 DEF Learned
<1> HIDE DEF s, idle
<1>5. p \notin PeersToQuery(s)
  <2>1. p \notin In(s, {"Heard"})
    BY <1>4 DEF In
  <2> QED  BY <2>1 DEF PeersToQuery, UpToN, Closest
<1>6. CASE Ready(s)
  BY <1>1, <1>3, <1>6 DEF Proceed
<1>7. CASE ~ Ready(s)
  BY <1>1, <1>3, <1>5, <1>7 DEF Proceed
<1> QED  BY <1>6, <1>7

(* Queried and unreachable peers are not contacted again, neither by the   *)
(* loop, when another peer names them, nor by the follow-ups.              *)
THEOREM ContactedOnce == Spec => NotContactedAgain
<1>1. IInv /\ [Next]_vars =>
        [\A p \in Peer : st[p] \in {"Queried", "Unreachable"} => step'[p] = "none"]_vars
  <2> SUFFICES ASSUME IInv, [Next]_vars,
                      NEW p \in Peer, st[p] \in {"Queried", "Unreachable"}
               PROVE  step'[p] = "none"
    OBVIOUS
  <2>1. step[p] = "none" /\ step \in [Peer -> Step]
    BY Settled DEF IInv, TypeOK, Step
  <2>2. ASSUME NEW seeds \in SUBSET Peer, Seed(seeds)  PROVE step'[p] = "none"
    BY <2>2 DEF Seed, IInv, Fresh
  <2>3. ASSUME NEW q \in Peer, ReceiveUpdate(q)  PROVE step'[p] = "none"
    BY <2>3, SettledStaysSo
  <2>4. CASE EndRun
    <3>1. p \notin FollowUps
      BY DEF FollowUps
    <3> QED  BY <2>4, <3>1 DEF EndRun
  <2>5. ASSUME NEW q \in Peer, NEW heard \in SUBSET Peer, Answer(q, heard)
        PROVE  step'[p] = "none"
    BY <2>1, <2>5 DEF Answer, Send, Step
  <2>6. ASSUME NEW q \in Peer, Fail(q) \/ FollowUpReturns(q) \/ ReceiveFollowUp(q)
        PROVE  step'[p] = "none"
    BY <2>1, <2>6 DEF Fail, Send, FollowUpReturns, ReceiveFollowUp, Step
  <2>7. CASE CancelLoop \/ CancelFollowUps \/ Drained \/ CancelContext \/ StopFnChanges
               \/ UNCHANGED vars
    BY <2>1, <2>7 DEF CancelLoop, CancelFollowUps, Drained, CancelContext, StopFnChanges, vars
  <2> QED  BY <2>2, <2>3, <2>4, <2>5, <2>6, <2>7, Steps
<1> QED  BY <1>1, Inductive, PTL DEF Spec, NotContactedAgain
=============================================================================
