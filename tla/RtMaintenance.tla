---------------------------- MODULE RtMaintenance ----------------------------
(***************************************************************************)
(* Who gets into the routing table, and when it is repaired (dht.go,       *)
(* dht_bootstrap.go, subscriber_notifee.go), over the refresh manager as   *)
(* RefreshCycle describes it.                                              *)
(*                                                                         *)
(* Four goroutines run until the DHT is closed: rtPeerLoop, which adds     *)
(* peers; the one that fixes a table with few peers; the subscriber to     *)
(* events; and the manager's.  Peers that are found are probed by          *)
(* goroutines of their own, which hand those that answer to rtPeerLoop; so *)
(* do the goroutines of lookups.                                           *)
(*                                                                         *)
(* Buckets are left out: a peer may be refused, or come in place of a      *)
(* replaceable one, at any time.                                           *)
(***************************************************************************)
EXTENDS RefreshCycle, Integers, FiniteSets

CONSTANTS
  Peer,
  Goroutine,       (* probes and queries under way at once: a bound        *)
  Concurrency,     (* LookupCheckConcurrency                               *)
  Threshold,       (* minRTRefreshThreshold                                *)
  Nobody

ASSUME MaintenanceAssumption ==
  /\ Concurrency \in Nat
  /\ Threshold \in Nat
  /\ Nobody \notin Peer
  /\ IsFiniteSet(Goroutine)

CountCap == 2      (* bootstrapCount matters up to 2: a bound              *)

VARIABLES
  table, replaceable,          (* the table and its replaceable peers      *)
  isBootstrapping, bootstrapCount, timer, lstep,      (* rtPeerLoop        *)
  fixLowPeersChan, fstep, fixing,                     (* runFixLowPeersLoop *)
  capacity, gstep, target,     (* lookupCheckCapacity; each goroutine and  *)
                               (* its peer                                 *)
  supports,                    (* peers validRTPeer accepts                 *)
  events,                      (* peers with a change not handled yet      *)
  sstep,                       (* the subscriber                           *)
  cstep,                       (* Close                                    *)
  unfixed                      (* the table changed since fixLowPeers last *)
                               (* looked at it                             *)

tableVars == <<table, replaceable>>
loopVars  == <<isBootstrapping, bootstrapCount, timer, lstep>>
fixVars   == <<fstep, fixing>>
probeVars == <<capacity, gstep, target>>
eventVars == <<supports, events, sstep>>
wishVars  == <<fixLowPeersChan, unfixed>>
vars == <<cycleVars, tableVars, loopVars, fixVars, probeVars, eventVars, wishVars, cstep>>

TypeOK ==
  /\ CycleTypeOK
  /\ replaceable \subseteq table
  /\ table \subseteq Peer
  /\ isBootstrapping \in BOOLEAN
  /\ bootstrapCount \in 0..CountCap
  /\ timer \in BOOLEAN
  /\ lstep \in {"select", "kick", "done"}
  /\ fixLowPeersChan \in BOOLEAN
  /\ fstep \in {"begin", "fixing", "select", "done"}
  /\ fixing \subseteq Peer
  /\ capacity \in 0..Concurrency
  /\ gstep \in [Goroutine -> {"none", "check", "send"}]
  /\ target \in [Goroutine -> Peer \cup {Nobody}]
  /\ supports \subseteq Peer
  /\ events \subseteq Peer
  /\ sstep \in {"run", "done"}
  /\ cstep \in {"open", "cancelled", "stopping", "closed"}
  /\ unfixed \in BOOLEAN

Init ==
  /\ CycleInit
  /\ table = {} /\ replaceable = {}
  /\ isBootstrapping = FALSE /\ bootstrapCount = 0 /\ timer = FALSE /\ lstep = "select"
  /\ fixLowPeersChan = FALSE /\ fstep = "begin" /\ fixing = {}
  /\ capacity = Concurrency
  /\ gstep = [g \in Goroutine |-> "none"]
  /\ target = [g \in Goroutine |-> Nobody]
  /\ supports = {} /\ events = {} /\ sstep = "run"
  /\ cstep = "open"
  /\ unfixed = FALSE

Cancelled == cstep # "open"

-----------------------------------------------------------------------------
(* fixRTIfNeeded: a signal in a channel with room for one.                 *)
FixRTIfNeeded_Unbuffered ==
  /\ fixLowPeersChan' = (fixLowPeersChan \/ fstep = "select")
  /\ unfixed' = TRUE

FixRTIfNeeded ==
  /\ fixLowPeersChan' = TRUE
  /\ unfixed' = TRUE

(* The manager hears RefreshNoWait only while it waits.                    *)
RefreshNoWait ==
  /\ phase' = IF phase = "idle" THEN "waking" ELSE phase
  /\ UNCHANGED <<req, closing>>

(* RemovePeer with its callback PeerRemoved.                               *)
RemovePeer(p) ==
  IF p \in table
  THEN table' = table \ {p} /\ replaceable' = replaceable \ {p} /\ FixRTIfNeeded
  ELSE UNCHANGED <<tableVars, wishVars>>

(* peerFound: a probe is started for a peer that speaks the protocol and   *)
(* would be useful, unless too many are under way.                         *)
PeerFound(p) ==
  \/ UNCHANGED probeVars
  \/ /\ p \in supports \ table
     /\ capacity > 0
     /\ capacity' = capacity - 1
     /\ \E g \in Goroutine :
          /\ gstep[g] = "none"
          /\ gstep' = [gstep EXCEPT ![g] = "check"]
          /\ target' = [target EXCEPT ![g] = p]

-----------------------------------------------------------------------------
(* Probes.                                                                 *)

(* lookupCheck returns: the peer answers or it does not.  Whether it still *)
(* speaks the protocol is not looked at again, here or below.              *)
CheckDone(g) ==
  /\ gstep[g] = "check"
  /\ capacity' = capacity + 1
  /\ \/ gstep' = [gstep EXCEPT ![g] = "send"] /\ UNCHANGED target
     \/ gstep' = [gstep EXCEPT ![g] = "none"] /\ target' = [target EXCEPT ![g] = Nobody]
  /\ UNCHANGED <<cycleVars, tableVars, loopVars, fixVars, eventVars, wishVars, cstep>>

(* A peer answers a lookup's query and goes to validPeerFound directly.    *)
QueryAnswered(g, p) ==
  /\ gstep[g] = "none"
  /\ gstep' = [gstep EXCEPT ![g] = "send"]
  /\ target' = [target EXCEPT ![g] = p]
  /\ UNCHANGED <<cycleVars, tableVars, loopVars, fixVars, capacity, eventVars, wishVars, cstep>>

Ends(g) ==
  /\ gstep' = [gstep EXCEPT ![g] = "none"]
  /\ target' = [target EXCEPT ![g] = Nobody]
  /\ UNCHANGED capacity

GiveUp_Never(g) ==
  /\ gstep[g] = "send"
  /\ Cancelled
  /\ lstep # "done"
  /\ Ends(g)
  /\ UNCHANGED <<cycleVars, tableVars, loopVars, fixVars, eventVars, wishVars, cstep>>

(* validPeerFound gives up when the DHT is closed.                         *)
GiveUp(g) ==
  /\ gstep[g] = "send"
  /\ Cancelled
  /\ Ends(g)
  /\ UNCHANGED <<cycleVars, tableVars, loopVars, fixVars, eventVars, wishVars, cstep>>

-----------------------------------------------------------------------------
(* rtPeerLoop.                                                             *)

Bootstraps_KeepsTimer ==
  IF table = {}
  THEN isBootstrapping' = TRUE /\ bootstrapCount' = 0 /\ UNCHANGED timer
  ELSE UNCHANGED <<isBootstrapping, bootstrapCount, timer>>

(* An empty table bootstraps (again).                                      *)
Bootstraps ==
  IF table = {}
  THEN isBootstrapping' = TRUE /\ bootstrapCount' = 0 /\ timer' = FALSE
  ELSE UNCHANGED <<isBootstrapping, bootstrapCount, timer>>

(* TryAddPeer: refused, known, added, or added in place of another.        *)
TryAddPeer(p) ==
  \/ UNCHANGED <<tableVars, wishVars>>
  \/ /\ p \notin table
     /\ \E removed \in {{}} \cup {{r} : r \in replaceable} :
          /\ table' = (table \ removed) \cup {p}
          /\ replaceable' = (replaceable \ removed) \cup (IF isBootstrapping' THEN {p} ELSE {})
     /\ FixRTIfNeeded

AddPeer(g) ==
  /\ lstep = "select"
  /\ gstep[g] = "send"
  /\ Bootstraps
  /\ TryAddPeer(target[g])
  /\ Ends(g)
  /\ UNCHANGED <<cycleVars, lstep, fixVars, eventVars, cstep>>

RefreshFinished ==
  /\ lstep = "select"
  /\ SignalTaken
  /\ bootstrapCount' = IF bootstrapCount < CountCap THEN bootstrapCount + 1 ELSE bootstrapCount
  /\ timer' = (timer \/ bootstrapCount = 1)
  /\ isBootstrapping' = FALSE
  /\ lstep' = IF isBootstrapping THEN "kick" ELSE "select"
  /\ UNCHANGED <<tableVars, fixVars, probeVars, eventVars, wishVars, cstep>>

Kick_Waits ==
  /\ lstep = "kick"
  /\ phase = "idle"
  /\ RefreshNoWait
  /\ lstep' = "select"
  /\ UNCHANGED <<isBootstrapping, bootstrapCount, timer, tableVars, fixVars, probeVars, eventVars,
                 wishVars, cstep>>

(* The second refresh of a bootstrap, if the manager waits by now.         *)
Kick ==
  /\ lstep = "kick"
  /\ RefreshNoWait
  /\ lstep' = "select"
  /\ UNCHANGED <<isBootstrapping, bootstrapCount, timer, tableVars, fixVars, probeVars, eventVars,
                 wishVars, cstep>>

MarkAllPeersIrreplaceable ==
  /\ lstep = "select"
  /\ timer
  /\ timer' = FALSE
  /\ replaceable' = {}
  /\ UNCHANGED <<cycleVars, table, isBootstrapping, bootstrapCount, lstep, fixVars, probeVars,
                 eventVars, wishVars, cstep>>

LoopStops ==
  /\ lstep = "select"
  /\ Cancelled
  /\ lstep' = "done"
  /\ UNCHANGED <<cycleVars, tableVars, isBootstrapping, bootstrapCount, timer, fixVars, probeVars,
                 eventVars, wishVars, cstep>>

-----------------------------------------------------------------------------
(* runFixLowPeersLoop.                                                     *)

FixSignalled ==
  /\ fstep = "select"
  /\ fixLowPeersChan
  /\ fixLowPeersChan' = FALSE
  /\ fstep' = "begin"
  /\ UNCHANGED <<cycleVars, tableVars, loopVars, fixing, probeVars, eventVars, unfixed, cstep>>

FixTick ==
  /\ fstep = "select"
  /\ fstep' = "begin"
  /\ UNCHANGED <<cycleVars, tableVars, loopVars, fixing, probeVars, eventVars, wishVars, cstep>>

(* fixLowPeers: all connected peers are found again if there are few.      *)
FixBegins ==
  /\ fstep = "begin"
  /\ unfixed' = FALSE
  /\ IF Cardinality(table) > Threshold
     THEN fstep' = "select" /\ UNCHANGED fixing
     ELSE fstep' = "fixing" /\ \E connected \in SUBSET Peer : fixing' = connected
  /\ UNCHANGED <<cycleVars, tableVars, loopVars, probeVars, eventVars, fixLowPeersChan, cstep>>

FixPeer(p) ==
  /\ fstep = "fixing"
  /\ p \in fixing
  /\ fixing' = fixing \ {p}
  /\ PeerFound(p)
  /\ UNCHANGED <<cycleVars, tableVars, loopVars, fstep, eventVars, wishVars, cstep>>

FixEnds ==
  /\ fstep = "fixing"
  /\ fixing = {}
  /\ IF table # {} /\ AutoRefresh THEN RefreshNoWait ELSE UNCHANGED cycleVars
  /\ fstep' = "select"
  /\ UNCHANGED <<tableVars, loopVars, fixing, probeVars, eventVars, wishVars, cstep>>

FixStops ==
  /\ fstep = "select"
  /\ Cancelled
  /\ fstep' = "done"
  /\ UNCHANGED <<cycleVars, tableVars, loopVars, fixing, probeVars, eventVars, wishVars, cstep>>

-----------------------------------------------------------------------------
(* The subscriber.                                                         *)

(* Identify, or a change of protocols, after the peerstore was updated.    *)
PeerChanges(p) ==
  /\ supports' \in {supports \cup {p}, supports \ {p}}
  /\ events' = events \cup {p}
  /\ UNCHANGED <<cycleVars, tableVars, loopVars, fixVars, probeVars, sstep, wishVars, cstep>>

(* A peerstore that fails to say what the peer speaks changes nothing.     *)
HandlePeerChange(p) ==
  /\ sstep = "run"
  /\ p \in events
  /\ events' = events \ {p}
  /\ \/ UNCHANGED <<tableVars, wishVars, probeVars>>
     \/ p \in supports /\ PeerFound(p) /\ UNCHANGED <<tableVars, wishVars>>
     \/ p \notin supports /\ RemovePeer(p) /\ UNCHANGED probeVars
  /\ UNCHANGED <<cycleVars, loopVars, fixVars, supports, sstep, cstep>>

AddressesUpdated ==
  /\ sstep = "run"
  /\ AutoRefresh
  /\ RefreshNoWait
  /\ UNCHANGED <<tableVars, loopVars, fixVars, probeVars, eventVars, wishVars, cstep>>

SubscriberStops ==
  /\ sstep = "run"
  /\ Cancelled
  /\ sstep' = "done"
  /\ UNCHANGED <<cycleVars, tableVars, loopVars, fixVars, probeVars, supports, events,
                 wishVars, cstep>>

-----------------------------------------------------------------------------
(* A lookup, or a ping of the manager, finds that a peer does not answer.  *)
PeerFails(p) ==
  /\ p \in table
  /\ RemovePeer(p)
  /\ UNCHANGED <<cycleVars, loopVars, fixVars, probeVars, eventVars, cstep>>

Bootstrap ==
  /\ FixRTIfNeeded
  /\ RefreshNoWait
  /\ UNCHANGED <<tableVars, loopVars, fixVars, probeVars, eventVars, cstep>>

Cancel ==
  /\ cstep = "open"
  /\ cstep' = "cancelled"
  /\ UNCHANGED <<cycleVars, tableVars, loopVars, fixVars, probeVars, eventVars, wishVars>>

(* wg.Wait, then the manager is closed.                                    *)
CloseCycle ==
  /\ cstep = "cancelled"
  /\ lstep = "done" /\ fstep = "done" /\ sstep = "done"
  /\ cstep' = "stopping"
  /\ CloseManager
  /\ UNCHANGED <<tableVars, loopVars, fixVars, probeVars, eventVars, wishVars>>

Closed ==
  /\ cstep = "stopping"
  /\ phase = "stopped"
  /\ cstep' = "closed"
  /\ UNCHANGED <<cycleVars, tableVars, loopVars, fixVars, probeVars, eventVars, wishVars>>

Manager ==
  /\ \/ BeginRefresh({})
     \/ EndQueries \/ SignalDropped \/ AnswerServed \/ StopManager
  /\ UNCHANGED <<tableVars, loopVars, fixVars, probeVars, eventVars, wishVars, cstep>>

(* The manager's ticker, or a call of Refresh: its answer is a matter of   *)
(* RtRefresh.                                                              *)
WakeManager ==
  /\ Wake
  /\ UNCHANGED <<tableVars, loopVars, fixVars, probeVars, eventVars, wishVars, cstep>>

Next ==
  \/ \E g \in Goroutine : CheckDone(g) \/ GiveUp(g) \/ AddPeer(g)
  \/ \E g \in Goroutine, p \in Peer : QueryAnswered(g, p)
  \/ RefreshFinished \/ Kick \/ MarkAllPeersIrreplaceable \/ LoopStops
  \/ FixSignalled \/ FixTick \/ FixBegins \/ FixEnds \/ FixStops
  \/ \E p \in Peer : FixPeer(p) \/ PeerChanges(p) \/ HandlePeerChange(p) \/ PeerFails(p)
  \/ AddressesUpdated \/ SubscriberStops \/ Bootstrap
  \/ Cancel \/ CloseCycle \/ Closed \/ Manager \/ WakeManager

Spec == Init /\ [][Next]_vars

(* What Close waits for: the four goroutines are scheduled, a refresh ends *)
(* and probes are left alone.  A select that is reached again and again    *)
(* chooses each of its ready cases some time.                              *)
LoopsFair ==
  /\ WF_vars(Kick) /\ SF_vars(LoopStops)
  /\ WF_vars(FixBegins) /\ WF_vars(FixEnds) /\ SF_vars(FixStops)
  /\ \A p \in Peer : WF_vars(FixPeer(p))
  /\ SF_vars(SubscriberStops)
  /\ WF_vars(Manager) /\ SF_vars(Manager /\ StopManager)
  /\ WF_vars(CloseCycle) /\ WF_vars(Closed)

(* What a probe and a change of the table wait for: probes and queries     *)
(* end, a channel serves those who wait in order, and a select chooses     *)
(* each of its ready cases some time.  No ticker has to fire, and the      *)
(* manager may be stuck.                                                   *)
HandoverFair ==
  /\ \A g \in Goroutine : WF_vars(CheckDone(g)) /\ WF_vars(GiveUp(g)) /\ SF_vars(AddPeer(g))
  /\ WF_vars(Kick)
  /\ SF_vars(FixSignalled) /\ WF_vars(FixBegins) /\ WF_vars(FixEnds)
  /\ \A p \in Peer : WF_vars(FixPeer(p))

HandoverSpec == Spec /\ HandoverFair
CloseSpec    == Spec /\ LoopsFair
FairSpec     == HandoverSpec /\ LoopsFair
-----------------------------------------------------------------------------
(* lookupCheckCapacity counts the probes that may still be started, over   *)
(* all ways a probe can end.                                               *)
ProbesAccounted ==
  capacity + Cardinality({g \in Goroutine : gstep[g] = "check"}) = Concurrency

(* The table changed, and fixLowPeers has not looked at it since: then it  *)
(* will, without waiting for its ticker, however busy its loop was.        *)
ChangeNoticed == unfixed => fixLowPeersChan \/ fstep \in {"begin", "done"}

(* Once the timer has frozen the table no peer in it is replaceable, until *)
(* the table was empty.                                                    *)
FrozenTable == bootstrapCount >= 2 /\ ~ timer => replaceable = {}

(* Peers stop to be replaceable only after two refreshes were counted      *)
(* since the table was last empty.                                         *)
NotFrozenEarly ==
  [][table' = table /\ replaceable' # replaceable => bootstrapCount >= 2 /\ ~ isBootstrapping]_vars

(* A probe, or a query that found a peer, ends: it has handed the peer     *)
(* over, or the DHT is closed.                                             *)
PeersHandedOver == \A g \in Goroutine : gstep[g] # "none" ~> gstep[g] = "none"

(* A table that changed is looked at again, unless the DHT is closed.      *)
ChangeLookedAt == unfixed ~> ~ unfixed \/ Cancelled

(* Close returns.                                                          *)
CloseReturns == Cancelled ~> cstep = "closed"
=============================================================================
