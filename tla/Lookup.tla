------------------------------- MODULE Lookup -------------------------------
(***************************************************************************)
(* One Kademlia lookup (query.go, qpeerset/qpeerset.go): runQuery's loop,  *)
(* the query goroutines it spawns, and the follow-up queries of            *)
(* runLookupWithFollowup.                                                  *)
(*                                                                         *)
(* The loop owns the state of every peer.  A query goroutine dials and     *)
(* asks one peer and sends one update to the loop, over a channel of       *)
(* capacity Alpha.  When the loop ends it cancels the queries in flight,   *)
(* waits for their goroutines, and asks those of the K closest peers that  *)
(* have not answered yet once more.                                        *)
(*                                                                         *)
(* An iteration of the loop is one action: only the loop touches the peer  *)
(* states.  step[p] is where p's goroutine is; an update that waits in the *)
(* channel is one of a peer at "sent", with answer[p] what it carries.     *)
(* The order of the channel is left open: the goroutines send in any order *)
(* anyway.  Events, tracing, the addresses learned and LastUsefulAt, which *)
(* is written at the end of a lookup and never read, are left out.         *)
(***************************************************************************)
EXTENDS Integers, FiniteSets

CONSTANTS
  Peer,   (* the peers that can be learned of, this node excluded          *)
  Dist,   (* Dist[p]: XOR distance from p's key to the target              *)
  K,      (* bucketSize, the number of closest peers looked for            *)
  Alpha,  (* queries in flight                                             *)
  Beta    (* closest peers that must have answered                         *)

ASSUME LookupAssumption ==
  /\ IsFiniteSet(Peer)
  /\ Dist \in [Peer -> Nat]
  /\ \A p, q \in Peer : Dist[p] = Dist[q] => p = q
  /\ {K, Alpha, Beta} \subseteq Nat \ {0}

VARIABLES
  pc,         (* the lookup: start, run, wait, follow, drain, done         *)
  st,         (* queryPeers: the state of each peer                        *)
  step,       (* each peer's goroutine                                     *)
  answer,     (* the update a goroutine sent                               *)
  cancelled,  (* the caller's context is cancelled                         *)
  stop,       (* what stopFn answers, which need not stay true             *)
  reason,     (* why the loop ended                                        *)
  result,     (* lookupRes.peers                                           *)
  completed,  (* lookupRes.completed                                       *)
  asked,      (* peers on which the query function has returned            *)
  failed,     (* peers that refused a dial or failed to answer             *)
  evicted     (* peers reported to the routing table as stopped            *)

outcomeVars == <<reason, result, completed>>
netVars     == <<asked, failed, evicted>>
vars == <<pc, st, step, answer, cancelled, stop, outcomeVars, netVars>>

PeerState == {"Unknown", "Heard", "Waiting", "Queried", "Unreachable"}
Update    == [state : {"Queried", "Unreachable"}, heard : SUBSET Peer]
NoUpdate  == [state |-> "Unreachable", heard |-> {}]

TypeOK ==
  /\ pc \in {"start", "run", "wait", "follow", "drain", "done"}
  /\ st \in [Peer -> PeerState]
  /\ step \in [Peer -> {"none", "asking", "sent", "following", "replied"}]
  /\ answer \in [Peer -> Update]
  /\ {cancelled, stop, completed} \subseteq BOOLEAN
  /\ reason \in {"", "Stopped", "Starvation", "Completed", "Cancelled"}
  /\ {result, asked, failed, evicted} \subseteq SUBSET Peer
  /\ Cardinality(result) <= K

Init ==
  /\ pc = "start"
  /\ st = [p \in Peer |-> "Unknown"]
  /\ step = [p \in Peer |-> "none"]
  /\ answer = [p \in Peer |-> NoUpdate]
  /\ cancelled = FALSE
  /\ stop = FALSE
  /\ reason = ""
  /\ result = {}
  /\ completed = FALSE
  /\ asked = {} /\ failed = {} /\ evicted = {}

-----------------------------------------------------------------------------
In(s, states) == {p \in Peer : s[p] \in states}
At(steps)     == {p \in Peer : step[p] \in steps}

(* GetClosestNInStates, as a set.                                          *)
Closest(S, n) == {p \in S : Cardinality({q \in S : Dist[q] < Dist[p]}) < n}

Usable(s) == In(s, {"Heard", "Waiting", "Queried"})

IsLookupTermination(s) == \A p \in Closest(Usable(s), Beta) : s[p] = "Queried"

IsStarvationTermination(s) == In(s, {"Heard", "Waiting"}) = {}

Ready(s) == stop \/ IsStarvationTermination(s) \/ IsLookupTermination(s)

ReasonFor(s) ==
  IF stop THEN "Stopped"
  ELSE IF IsStarvationTermination(s) THEN "Starvation" ELSE "Completed"

(* The loop of isReadyToTerminate stops when its count equals n, which it  *)
(* never does if n is not positive.                                        *)
UpToN(S, n) == IF n >= 1 THEN Closest(S, n) ELSE S

PeersToQuery_Alpha(s) == UpToN(In(s, {"Heard"}), Alpha)

PeersToQuery(s) == UpToN(In(s, {"Heard"}), Alpha - Cardinality(In(s, {"Waiting"})))

(* pathCtx and followUpCtx.                                                *)
PathDone   == cancelled \/ pc \notin {"start", "run"}

ChannelHasRoom == Cardinality(At({"sent"})) < Alpha

-----------------------------------------------------------------------------
(* The loop.                                                               *)

(* The rest of an iteration, after an update has made s of the states.     *)
Proceed(s, idle) ==
  IF Ready(s)
  THEN /\ pc' = "wait"
       /\ st' = s
       /\ step' = idle
       /\ reason' = ReasonFor(s)
  ELSE /\ pc' = "run"
       /\ st' = [p \in Peer |-> IF p \in PeersToQuery(s) THEN "Waiting" ELSE s[p]]
       /\ step' = [p \in Peer |-> IF p \in PeersToQuery(s) THEN "asking" ELSE idle[p]]
       /\ UNCHANGED reason

Learned(s, heard) ==
  [p \in Peer |-> IF p \in heard /\ s[p] = "Unknown" THEN "Heard" ELSE s[p]]

(* The first update, of the seeds, which NearestPeers returned.            *)
Seed(seeds) ==
  /\ pc = "start"
  /\ Proceed(Learned(st, seeds), step)
  /\ UNCHANGED <<answer, cancelled, stop, result, completed, netVars>>

ReceiveUpdate(p) ==
  /\ pc = "run"
  /\ step[p] = "sent"
  /\ Proceed([Learned(st, answer[p].heard) EXCEPT ![p] = answer[p].state],
             [step EXCEPT ![p] = "none"])
  /\ answer' = [answer EXCEPT ![p] = NoUpdate]
  /\ UNCHANGED <<cancelled, stop, result, completed, netVars>>

(* select may take pathCtx.Done() although an update is waiting.           *)
CancelLoop ==
  /\ pc \in {"start", "run"}
  /\ cancelled
  /\ pc' = "wait"
  /\ reason' = "Cancelled"
  /\ UNCHANGED <<st, step, answer, cancelled, stop, result, completed, netVars>>

-----------------------------------------------------------------------------
(* A query goroutine: dialPeer, queryFn and the update it sends.           *)

Send(p, update) ==
  /\ ChannelHasRoom
  /\ step' = [step EXCEPT ![p] = "sent"]
  /\ answer' = [answer EXCEPT ![p] = update]

Answer(p, heard) ==
  /\ step[p] = "asking"
  /\ Send(p, [state |-> "Queried", heard |-> heard])
  /\ asked' = asked \cup {p}
  /\ UNCHANGED <<pc, st, cancelled, stop, outcomeVars, failed, evicted>>

Fail_Evicts(p) ==
  /\ step[p] = "asking"
  /\ Send(p, [state |-> "Unreachable", heard |-> {}])
  /\ \/ failed' = failed \cup {p}
     \/ PathDone /\ UNCHANGED failed
  /\ evicted' = evicted \cup {p}
  /\ UNCHANGED <<pc, st, cancelled, stop, outcomeVars, asked>>

Fail_Silent(p) ==
  /\ step[p] = "asking"
  /\ step' = [step EXCEPT ![p] = "none"]
  /\ \/ failed' = failed \cup {p}
     \/ PathDone /\ UNCHANGED failed
  /\ evicted' = IF PathDone THEN evicted ELSE evicted \cup {p}
  /\ UNCHANGED <<pc, st, answer, cancelled, stop, outcomeVars, asked>>

(* The peer failed, or the context was cancelled while it was asked.       *)
Fail(p) ==
  /\ step[p] = "asking"
  /\ Send(p, [state |-> "Unreachable", heard |-> {}])
  /\ \/ failed' = failed \cup {p}
     \/ PathDone /\ UNCHANGED failed
  /\ evicted' = IF PathDone THEN evicted ELSE evicted \cup {p}
  /\ UNCHANGED <<pc, st, cancelled, stop, outcomeVars, asked>>

-----------------------------------------------------------------------------
(* runLookupWithFollowup.                                                  *)

Result == Closest(Usable(st), K)

FollowUps == {p \in Result : st[p] \in {"Heard", "Waiting"}}

(* The loop's goroutines have ended: the result, and the follow-ups unless *)
(* there are none or the lookup was stopped from outside.                  *)
EndRun ==
  /\ pc = "wait"
  /\ At({"asking"}) = {}
  /\ result' = Result
  /\ LET ended == FollowUps = {} \/ cancelled \/ stop IN
     /\ completed' = /\ IsLookupTermination(st) \/ IsStarvationTermination(st)
                     /\ FollowUps = {} \/ ~ ended
     /\ pc' = IF ended THEN "done" ELSE "follow"
     /\ step' = [p \in Peer |-> IF ~ ended /\ p \in FollowUps THEN "following" ELSE "none"]
  /\ answer' = [p \in Peer |-> NoUpdate]
  /\ UNCHANGED <<st, cancelled, stop, reason, netVars>>

(* A follow-up query returns and signals doneCh, which has room for all.   *)
FollowUpReturns(p) ==
  /\ step[p] = "following"
  /\ step' = [step EXCEPT ![p] = "replied"]
  /\ asked' = asked \cup {p}
  /\ UNCHANGED <<pc, st, answer, cancelled, stop, outcomeVars, failed, evicted>>

ReceiveFollowUp_KeepsCompleted(p) ==
  /\ pc = "follow"
  /\ step[p] = "replied"
  /\ step' = [step EXCEPT ![p] = "none"]
  /\ pc' = IF stop \/ At({"following", "replied"}) = {p} THEN "drain" ELSE "follow"
  /\ UNCHANGED <<st, answer, cancelled, stop, reason, result, completed, netVars>>

ReceiveFollowUp(p) ==
  /\ pc = "follow"
  /\ step[p] = "replied"
  /\ step' = [step EXCEPT ![p] = "none"]
  /\ LET isLast == At({"following", "replied"}) = {p} IN
     /\ pc' = IF stop \/ isLast THEN "drain" ELSE "follow"
     /\ completed' = (completed /\ (stop => isLast))
  /\ UNCHANGED <<st, answer, cancelled, stop, reason, result, netVars>>

CancelFollowUps ==
  /\ pc = "follow"
  /\ cancelled
  /\ pc' = "drain"
  /\ completed' = FALSE
  /\ UNCHANGED <<st, step, answer, cancelled, stop, reason, result, netVars>>

Drained_Early ==
  /\ pc = "drain"
  /\ pc' = "done"
  /\ step' = [p \in Peer |-> IF step[p] = "replied" THEN "none" ELSE step[p]]
  /\ UNCHANGED <<st, answer, cancelled, stop, outcomeVars, netVars>>

(* Only an incomplete lookup waits for the follow-ups that are left.       *)
Drained ==
  /\ pc = "drain"
  /\ completed \/ At({"following"}) = {}
  /\ pc' = "done"
  /\ step' = [p \in Peer |-> IF step[p] = "replied" THEN "none" ELSE step[p]]
  /\ UNCHANGED <<st, answer, cancelled, stop, outcomeVars, netVars>>

-----------------------------------------------------------------------------
(* The caller.                                                             *)
CancelContext ==
  /\ pc # "done"
  /\ ~ cancelled
  /\ cancelled' = TRUE
  /\ UNCHANGED <<pc, st, step, answer, stop, outcomeVars, netVars>>

StopFnChanges ==
  /\ pc # "done"
  /\ stop' = ~ stop
  /\ UNCHANGED <<pc, st, step, answer, cancelled, outcomeVars, netVars>>

Loop ==
  \/ \E seeds \in SUBSET Peer \ {{}} : Cardinality(seeds) <= K /\ Seed(seeds)
  \/ \E p \in Peer : ReceiveUpdate(p)
  \/ CancelLoop
  \/ EndRun
  \/ \E p \in Peer : ReceiveFollowUp(p)
  \/ CancelFollowUps
  \/ Drained

Query(p) ==
  \/ \E heard \in SUBSET Peer : Answer(p, heard)
  \/ Fail(p)
  \/ FollowUpReturns(p)

Next ==
  \/ Loop
  \/ \E p \in Peer : Query(p)
  \/ CancelContext
  \/ StopFnChanges

Spec == Init /\ [][Next]_vars

(* The goroutines are scheduled, and every dial and every request returns: *)
(* both are bounded by timeouts.                                           *)
FairSpec == Spec /\ WF_vars(Loop) /\ \A p \in Peer : WF_vars(Query(p))
-----------------------------------------------------------------------------
(* No more than Alpha peers are waited for at any time.  Were Alpha of     *)
(* them waited for when an iteration picks peers to ask, it would ask all  *)
(* that are known (see UpToN); only receiving an update first avoids it.   *)
AtMostAlphaInFlight == Cardinality(In(st, {"Waiting"})) <= Alpha

(* A goroutine never blocks on the channel, although nobody reads it once  *)
(* the loop has ended and the lookup then waits for every goroutine.       *)
SendNeverBlocks == At({"asking"}) # {} => ChannelHasRoom

(* updateState panics if a peer that is not waited for reports.            *)
UpdatesExpected == pc \in {"start", "run"} => At({"asking", "sent"}) = In(st, {"Waiting"})

(* Queries fail when a lookup ends and cancels them.  No peer is evicted   *)
(* from the routing table for that, only for a failure of its own.         *)
OnlyFailuresEvict == evicted \subseteq failed

(* When the lookup returns, none of its goroutines is left behind.         *)
NoGoroutineLeft == pc = "done" => At({"asking", "following", "replied"}) = {}

(* A lookup reported as completed has asked every peer it returns, in its  *)
(* loop or in the follow-up.                                               *)
CompletedMeansAsked == pc = "done" /\ completed => result \subseteq asked

(* A peer whose answer or failure the lookup has taken note of is not      *)
(* contacted again, not even when other peers name it once more.           *)
NotContactedAgain ==
  [][\A p \in Peer : st[p] \in {"Queried", "Unreachable"} => step'[p] = "none"]_vars

(* Every lookup returns, whatever the peers answer and stopFn says.        *)
LookupReturns == <>(pc = "done")
=============================================================================
