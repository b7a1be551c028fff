------------------------- MODULE RtMaintenanceProofs -------------------------
(***************************************************************************)
(* Theorems about the maintenance of the routing table, for any number of  *)
(* peers, probes under way and requests.                                   *)
(***************************************************************************)
EXTENDS RtMaintenance, FiniteSetTheorems, TLAPS

Checking == {g \in Goroutine : gstep[g] = "check"}

(* Every goroutine under way serves a peer.                                *)
Serving == \A g \in Goroutine : gstep[g] # "none" => target[g] \in Peer

(* Refreshes are counted from the last bootstrap on, which ends with the   *)
(* first of them; the timer runs from the second on.                       *)
Counting ==
  /\ isBootstrapping => bootstrapCount = 0
  /\ timer => bootstrapCount >= 2

IInv ==
  /\ TypeOK
  /\ Serving
  /\ ProbesAccounted
  /\ ChangeNoticed
  /\ Counting
  /\ FrozenTable

-----------------------------------------------------------------------------
(* The manager's steps keep their types, whatever else the step does.      *)
LEMMA CycleTypes ==
  ASSUME CycleTypeOK, [CycleNext]_cycleVars
  PROVE  CycleTypeOK'
<1> USE DEF CycleTypeOK, cycleVars
<1>1. CASE UNCHANGED cycleVars
  BY <1>1
<1>2. ASSUME NEW q \in Request, Ask(q) \/ CancelAsked(q) PROVE CycleTypeOK'
  BY <1>2 DEF Ask, CancelAsked
<1>3. ASSUME NEW served \in SUBSET Request, BeginRefresh(served) PROVE CycleTypeOK'
  BY <1>3 DEF BeginRefresh
<1>4. CASE Wake \/ EndQueries \/ SignalTaken \/ AnswerServed \/ CloseManager \/ StopManager
  BY <1>4 DEF Wake, EndQueries, SignalTaken, AnswerServed, CloseManager, StopManager
<1> QED  BY <1>1, <1>2, <1>3, <1>4 DEF CycleNext

LEMMA NoWaitIsWake == RefreshNoWait => [CycleNext]_cycleVars
BY DEF RefreshNoWait, CycleNext, Wake, cycleVars

LEMMA ManagerSteps == Manager => CycleNext
BY DEF Manager, CycleNext, SignalDropped

-----------------------------------------------------------------------------
(* Probes.  A step of goroutine g away from or to its probe changes their  *)
(* number by one.                                                          *)

LEMMA FiniteChecking == IsFiniteSet(Checking)
BY MaintenanceAssumption, FS_Subset DEF Checking

LEMMA CheckBegins ==
  ASSUME TypeOK, ProbesAccounted, NEW g \in Goroutine, gstep[g] = "none", capacity > 0,
         capacity' = capacity - 1, gstep' = [gstep EXCEPT ![g] = "check"]
  PROVE  ProbesAccounted'
<1>1. Checking' = Checking \cup {g} /\ g \notin Checking
  BY DEF Checking, TypeOK
<1>2. Cardinality(Checking') = Cardinality(Checking) + 1
  BY <1>1, FiniteChecking, FS_AddElement
<1>3. Cardinality(Checking) \in Nat
  BY FiniteChecking, FS_CardinalityType
<1> QED  BY <1>2, <1>3, MaintenanceAssumption DEF ProbesAccounted, Checking, TypeOK

LEMMA CheckEnds ==
  ASSUME TypeOK, ProbesAccounted, NEW g \in Goroutine, gstep[g] = "check",
         capacity' = capacity + 1, gstep' \in {[gstep EXCEPT ![g] = s] : s \in {"none", "send"}}
  PROVE  ProbesAccounted' /\ capacity' \in 0..Concurrency
<1>1. Checking' = Checking \ {g} /\ g \in Checking
  BY DEF Checking, TypeOK
<1>2. Cardinality(Checking') = Cardinality(Checking) - 1
  BY <1>1, FiniteChecking, FS_RemoveElement
<1>3. Cardinality(Checking) \in Nat /\ Cardinality(Checking') \in Nat
  BY <1>1, FiniteChecking, FS_CardinalityType, FS_RemoveElement
<1> QED  BY <1>2, <1>3, MaintenanceAssumption DEF ProbesAccounted, Checking, TypeOK

LEMMA NoCheck ==
  ASSUME TypeOK, ProbesAccounted, NEW g \in Goroutine, gstep[g] # "check",
         UNCHANGED capacity, gstep' \in {[gstep EXCEPT ![g] = s] : s \in {"none", "send"}}
  PROVE  ProbesAccounted'
<1>1. Checking' = Checking
  BY DEF Checking, TypeOK
<1> QED  BY <1>1 DEF ProbesAccounted, Checking

(* What a probe that begins preserves.                                     *)
ProbesInv == ProbesAccounted /\ Serving /\ capacity \in 0..Concurrency
             /\ gstep \in [Goroutine -> {"none", "check", "send"}]
             /\ target \in [Goroutine -> Peer \cup {Nobody}]

LEMMA ProbesKept ==
  ASSUME TypeOK, Serving, ProbesAccounted, UNCHANGED probeVars
  PROVE  ProbesInv'
BY DEF TypeOK, Serving, ProbesAccounted, probeVars, ProbesInv

LEMMA FoundPeer ==
  ASSUME TypeOK, Serving, ProbesAccounted, NEW p \in Peer, PeerFound(p)
  PROVE  ProbesInv'
<1>1. CASE UNCHANGED probeVars
  BY <1>1, ProbesKept
<1>2. CASE ~ UNCHANGED probeVars
  <2>1. PICK g \in Goroutine : /\ capacity > 0 /\ capacity' = capacity - 1
                               /\ gstep[g] = "none"
                               /\ gstep' = [gstep EXCEPT ![g] = "check"]
                               /\ target' = [target EXCEPT ![g] = p]
    BY <1>2 DEF PeerFound
  <2>2. ProbesAccounted'
    BY <2>1, CheckBegins
  <2>3. Serving'
    BY <2>1 DEF Serving, TypeOK
  <2> QED  BY <2>1, <2>2, <2>3, MaintenanceAssumption DEF ProbesInv, TypeOK
<1> QED  BY <1>1, <1>2

LEMMA GoroutineEnds ==
  ASSUME TypeOK, Serving, ProbesAccounted, NEW g \in Goroutine, gstep[g] # "check", Ends(g)
  PROVE  ProbesInv'
<1>1. ProbesAccounted'
  BY NoCheck DEF Ends
<1> QED  BY <1>1 DEF Ends, Serving, TypeOK, ProbesInv
-----------------------------------------------------------------------------
(* One lemma per part of the code.  Each gives the whole invariant for the *)
(* steps of that part.                                                     *)

LEMMA InitOK == Init => IInv
<1> SUFFICES ASSUME Init PROVE IInv
  OBVIOUS
<1>1. Checking = {}
  BY DEF Init, Checking
<1>2. ProbesAccounted
  BY <1>1, FS_EmptySet, MaintenanceAssumption DEF Init, ProbesAccounted, Checking
<1>3. CycleTypeOK
  BY DEF Init, CycleInit, CycleTypeOK
<1>4. capacity \in 0..Concurrency /\ bootstrapCount \in 0..CountCap
  BY MaintenanceAssumption DEF Init, CountCap
<1>5. TypeOK
  BY <1>3, <1>4 DEF Init, TypeOK
<1> QED  BY <1>2, <1>5 DEF IInv, Init, Serving, ChangeNoticed, Counting, FrozenTable

LEMMA GoroutineSteps ==
  ASSUME IInv, NEW g \in Goroutine,
         CheckDone(g) \/ GiveUp(g) \/ \E p \in Peer : QueryAnswered(g, p)
  PROVE  IInv'
<1> USE DEF IInv, cycleVars, tableVars, loopVars, fixVars, eventVars, wishVars
<1>1. ProbesInv'
  <2>1. CASE CheckDone(g)
    <3>1. ProbesAccounted' /\ capacity' \in 0..Concurrency
      BY <2>1, CheckEnds DEF CheckDone
    <3> QED  BY <2>1, <3>1 DEF CheckDone, Serving, TypeOK, ProbesInv
  <2>2. CASE GiveUp(g)
    BY <2>2, GoroutineEnds DEF GiveUp
  <2>3. ASSUME NEW p \in Peer, QueryAnswered(g, p) PROVE ProbesInv'
    <3>1. ProbesAccounted'
      BY <2>3, NoCheck DEF QueryAnswered
    <3> QED  BY <2>3, <3>1 DEF QueryAnswered, Serving, TypeOK, ProbesInv
  <2> QED  BY <2>1, <2>2, <2>3
<1>2. UNCHANGED <<cycleVars, tableVars, loopVars, fixVars, eventVars, wishVars, cstep>>
  BY DEF CheckDone, GiveUp, QueryAnswered
<1>3. TypeOK'
  BY <1>1, <1>2 DEF TypeOK, CycleTypeOK, ProbesInv
<1> QED  BY <1>1, <1>2, <1>3 DEF ProbesInv, ChangeNoticed, Counting, FrozenTable

LEMMA AddPeerSteps ==
  ASSUME IInv, NEW g \in Goroutine, AddPeer(g)
  PROVE  IInv'
<1> USE DEF IInv
<1>1. ProbesInv'
  BY GoroutineEnds DEF AddPeer
<1>2. target[g] \in Peer
  BY DEF AddPeer, Serving
<1>3. UNCHANGED <<cycleVars, lstep, fixVars, eventVars, cstep>> /\ lstep = "select"
  BY DEF AddPeer
<1>4. /\ isBootstrapping' \in BOOLEAN /\ timer' \in BOOLEAN /\ bootstrapCount' \in 0..CountCap
      /\ Counting'
      /\ bootstrapCount' >= 2 /\ ~ timer' => replaceable = {} /\ ~ isBootstrapping'
  <2>1. CASE table = {}
    <3>1. isBootstrapping' = TRUE /\ bootstrapCount' = 0 /\ timer' = FALSE
      BY <2>1 DEF AddPeer, Bootstraps
    <3>2. Counting'
      BY <3>1, Zenon DEF Counting
    <3>3. bootstrapCount' \in 0..CountCap /\ ~ bootstrapCount' >= 2
      BY <3>1 DEF CountCap
    <3> QED  BY <3>1, <3>2, <3>3
  <2>2. CASE table # {}
    <3>1. UNCHANGED <<isBootstrapping, bootstrapCount, timer>>
      BY <2>2 DEF AddPeer, Bootstraps
    <3>2. bootstrapCount >= 2 => ~ isBootstrapping
      BY DEF Counting
    <3> QED  BY <3>1, <3>2 DEF Counting, FrozenTable, TypeOK
  <2> QED  BY <2>1, <2>2
<1>5. replaceable' \subseteq table' /\ table' \subseteq Peer /\ fixLowPeersChan' \in BOOLEAN
      /\ unfixed' \in BOOLEAN
  BY <1>2 DEF AddPeer, TryAddPeer, TypeOK, tableVars, wishVars, FixRTIfNeeded
<1>6. ChangeNoticed'
  <2>1. UNCHANGED wishVars \/ FixRTIfNeeded
    BY DEF AddPeer, TryAddPeer
  <2> QED  BY <1>3, <2>1 DEF wishVars, fixVars, FixRTIfNeeded, ChangeNoticed
<1>7. FrozenTable'
  BY <1>4 DEF AddPeer, TryAddPeer, tableVars, FrozenTable
<1>8. TypeOK'
  BY <1>1, <1>3, <1>4, <1>5 DEF TypeOK, CycleTypeOK, cycleVars, fixVars, eventVars, ProbesInv
<1> QED  BY <1>1, <1>4, <1>6, <1>7, <1>8 DEF ProbesInv

LEMMA LoopSteps ==
  ASSUME IInv, RefreshFinished \/ Kick \/ MarkAllPeersIrreplaceable \/ LoopStops
  PROVE  IInv'
<1> USE DEF IInv, tableVars, fixVars, eventVars, wishVars
<1>1. ProbesInv'
  BY ProbesKept DEF RefreshFinished, Kick, MarkAllPeersIrreplaceable, LoopStops
<1>2. CycleTypeOK'
  BY CycleTypes, NoWaitIsWake
     DEF RefreshFinished, Kick, MarkAllPeersIrreplaceable, LoopStops, TypeOK, CycleNext
<1>3. CASE RefreshFinished
  <2>1. UNCHANGED <<tableVars, fixVars, eventVars, wishVars, cstep>>
    BY <1>3 DEF RefreshFinished
  <2>2. bootstrapCount' \in 0..CountCap /\ bootstrapCount' >= bootstrapCount
    BY <1>3 DEF RefreshFinished, TypeOK, CountCap
  <2>3. timer' \in BOOLEAN /\ isBootstrapping' \in BOOLEAN /\ lstep' \in {"select", "kick", "done"}
    BY <1>3 DEF RefreshFinished, TypeOK
  <2>4. Counting'
    <3>1. ~ isBootstrapping'
      BY <1>3 DEF RefreshFinished
    <3>2. ASSUME timer' PROVE bootstrapCount' >= 2
      <4>1. CASE timer
        BY <2>2, <4>1 DEF Counting, TypeOK, CountCap
      <4>2. CASE ~ timer
        <5>1. bootstrapCount = 1
          BY <1>3, <3>2, <4>2 DEF RefreshFinished
        <5> QED  BY <1>3, <5>1 DEF RefreshFinished, CountCap
      <4> QED  BY <4>1, <4>2
    <3> QED  BY <3>1, <3>2 DEF Counting
  <2>5. FrozenTable'
    <3> SUFFICES ASSUME bootstrapCount' >= 2, ~ timer' PROVE replaceable' = {}
      BY DEF FrozenTable
    <3>1. ~ timer /\ bootstrapCount # 1
      BY <1>3 DEF RefreshFinished
    <3>2. bootstrapCount >= 2
      BY <1>3, <3>1 DEF RefreshFinished, TypeOK, CountCap
    <3> QED  BY <2>1, <3>1, <3>2 DEF FrozenTable
  <2>6. TypeOK'
    BY <1>1, <1>2, <2>1, <2>2, <2>3 DEF TypeOK, ProbesInv
  <2> QED  BY <1>1, <2>1, <2>4, <2>5, <2>6 DEF ProbesInv, ChangeNoticed
<1>4. CASE Kick \/ LoopStops
  BY <1>1, <1>2, <1>4 DEF Kick, LoopStops, TypeOK, ProbesInv, ChangeNoticed, Counting, FrozenTable
<1>5. CASE MarkAllPeersIrreplaceable
  BY <1>1, <1>2, <1>5 DEF MarkAllPeersIrreplaceable, TypeOK, ProbesInv, ChangeNoticed, Counting,
                          FrozenTable
<1> QED  BY <1>3, <1>4, <1>5

LEMMA FixSteps ==
  ASSUME IInv, FixSignalled \/ FixTick \/ FixBegins \/ FixEnds \/ FixStops
  PROVE  IInv'
<1> USE DEF IInv, tableVars, loopVars, eventVars, wishVars
<1>1. ProbesInv'
  BY ProbesKept DEF FixSignalled, FixTick, FixBegins, FixEnds, FixStops
<1>2. CycleTypeOK'
  BY CycleTypes, NoWaitIsWake DEF FixSignalled, FixTick, FixBegins, FixEnds, FixStops, TypeOK
<1>3. UNCHANGED <<tableVars, loopVars, eventVars, cstep>>
  BY DEF FixSignalled, FixTick, FixBegins, FixEnds, FixStops
<1>4. /\ fstep' \in {"begin", "fixing", "select", "done"} /\ fixing' \subseteq Peer
      /\ fixLowPeersChan' \in BOOLEAN /\ unfixed' \in BOOLEAN
  BY DEF FixSignalled, FixTick, FixBegins, FixEnds, FixStops, TypeOK
<1>5. ChangeNoticed'
  BY DEF FixSignalled, FixTick, FixBegins, FixEnds, FixStops, ChangeNoticed
<1>6. TypeOK'
  BY <1>1, <1>2, <1>3, <1>4 DEF TypeOK, ProbesInv
<1> QED  BY <1>1, <1>3, <1>5, <1>6 DEF ProbesInv, Counting, FrozenTable

(* RemovePeer leaves word for the loop that fixes the table.               *)
LEMMA Removed ==
  ASSUME IInv, NEW p \in Peer, RemovePeer(p), UNCHANGED <<loopVars, fixVars>>
  PROVE  /\ replaceable' \subseteq table' /\ table' \subseteq Peer
         /\ fixLowPeersChan' \in BOOLEAN /\ unfixed' \in BOOLEAN
         /\ ChangeNoticed' /\ FrozenTable' /\ Counting'
BY DEF IInv, TypeOK, RemovePeer, FixRTIfNeeded, tableVars, wishVars, loopVars, fixVars,
       ChangeNoticed, FrozenTable, Counting

LEMMA PeerSteps ==
  ASSUME IInv, NEW p \in Peer, FixPeer(p) \/ PeerChanges(p) \/ HandlePeerChange(p) \/ PeerFails(p)
  PROVE  IInv'
<1> USE DEF IInv
<1>1. CASE FixPeer(p)
  <2>1. ProbesInv'
    BY <1>1, FoundPeer DEF FixPeer
  <2> QED
    BY <1>1, <2>1 DEF FixPeer, TypeOK, CycleTypeOK, cycleVars, tableVars, loopVars, eventVars,
                      wishVars, ProbesInv, ChangeNoticed, Counting, FrozenTable
<1>2. CASE PeerChanges(p)
  <2>1. ProbesInv'
    BY <1>2, ProbesKept DEF PeerChanges
  <2> QED
    BY <1>2, <2>1 DEF PeerChanges, TypeOK, CycleTypeOK, cycleVars, tableVars, loopVars, fixVars,
                      wishVars, ProbesInv, ChangeNoticed, Counting, FrozenTable
<1>3. CASE HandlePeerChange(p)
  <2>1. ProbesInv'
    BY <1>3, FoundPeer, ProbesKept DEF HandlePeerChange
  <2>2. UNCHANGED <<cycleVars, loopVars, fixVars, supports, sstep, cstep>>
    BY <1>3 DEF HandlePeerChange
  <2>3. /\ replaceable' \subseteq table' /\ table' \subseteq Peer
        /\ fixLowPeersChan' \in BOOLEAN /\ unfixed' \in BOOLEAN
        /\ ChangeNoticed' /\ FrozenTable' /\ Counting'
    <3>1. CASE UNCHANGED <<tableVars, wishVars>>
      BY <1>3, <2>2, <3>1 DEF HandlePeerChange, TypeOK, tableVars, wishVars, loopVars, fixVars,
                              ChangeNoticed, FrozenTable, Counting
    <3>2. CASE RemovePeer(p)
      BY <2>2, <3>2, Removed
    <3> QED  BY <1>3, <3>1, <3>2 DEF HandlePeerChange
  <2>4. events' \subseteq Peer
    BY <1>3 DEF HandlePeerChange, TypeOK
  <2> QED
    BY <2>1, <2>2, <2>3, <2>4 DEF TypeOK, CycleTypeOK, cycleVars, loopVars, fixVars, ProbesInv
<1>4. CASE PeerFails(p)
  <2>1. ProbesInv'
    BY <1>4, ProbesKept DEF PeerFails
  <2>2. UNCHANGED <<cycleVars, loopVars, fixVars, eventVars, cstep>> /\ RemovePeer(p)
    BY <1>4 DEF PeerFails
  <2> QED
    BY <2>1, <2>2, Removed DEF TypeOK, CycleTypeOK, cycleVars, loopVars, fixVars, eventVars, ProbesInv
<1> QED  BY <1>1, <1>2, <1>3, <1>4

LEMMA OtherSteps ==
  ASSUME IInv, \/ AddressesUpdated \/ SubscriberStops \/ Bootstrap
               \/ Cancel \/ CloseCycle \/ Closed \/ Manager \/ WakeManager
  PROVE  IInv'
<1> USE DEF IInv
<1>1. ProbesInv'
  BY ProbesKept DEF AddressesUpdated, SubscriberStops, Bootstrap, Cancel, CloseCycle, Closed, Manager,
                    WakeManager
<1>2. CycleTypeOK'
  BY CycleTypes, NoWaitIsWake, ManagerSteps
     DEF AddressesUpdated, SubscriberStops, Bootstrap, Cancel, CloseCycle, Closed, WakeManager,
         CycleNext, TypeOK
<1>3. UNCHANGED <<tableVars, loopVars, fixVars, supports, events>>
  BY DEF AddressesUpdated, SubscriberStops, Bootstrap, Cancel, CloseCycle, Closed, Manager,
         WakeManager, eventVars
<1>4. /\ cstep' \in {"open", "cancelled", "stopping", "closed"} /\ sstep' \in {"run", "done"}
      /\ fixLowPeersChan' \in BOOLEAN /\ unfixed' \in BOOLEAN
  BY DEF AddressesUpdated, SubscriberStops, Bootstrap, Cancel, CloseCycle, Closed, Manager,
         WakeManager, FixRTIfNeeded, eventVars, wishVars, TypeOK
<1>5. ChangeNoticed'
  BY <1>3 DEF AddressesUpdated, SubscriberStops, Bootstrap, Cancel, CloseCycle, Closed, Manager,
              WakeManager, FixRTIfNeeded, wishVars, fixVars, ChangeNoticed
<1>6. TypeOK'
  BY <1>1, <1>2, <1>3, <1>4 DEF TypeOK, tableVars, loopVars, fixVars, ProbesInv
<1> QED
  BY <1>1, <1>3, <1>5, <1>6 DEF ProbesInv, tableVars, loopVars, Counting, FrozenTable

LEMMA StutterStep == IInv /\ UNCHANGED vars => IInv'
<1> SUFFICES ASSUME IInv, UNCHANGED vars PROVE IInv'
  OBVIOUS
<1>1. ProbesInv'
  BY ProbesKept DEF IInv, vars
<1> QED
  BY <1>1 DEF IInv, vars, cycleVars, tableVars, loopVars, fixVars, eventVars, wishVars, TypeOK,
              CycleTypeOK, ProbesInv, ChangeNoticed, Counting, FrozenTable

LEMMA Inductive == IInv /\ [Next]_vars => IInv'
BY GoroutineSteps, AddPeerSteps, LoopSteps, FixSteps, PeerSteps, OtherSteps, StutterStep DEF Next

LEMMA Invariant == Spec => []IInv
BY InitOK, Inductive, PTL DEF Spec

-----------------------------------------------------------------------------
(* Every variable keeps its type: no probe is started that the bound does  *)
(* not allow.                                                              *)
THEOREM TypeCorrect == Spec => []TypeOK
BY Invariant, PTL DEF IInv

(* However probes end, the places for them add up.                         *)
THEOREM ProbesAddUp == Spec => []ProbesAccounted
BY Invariant, PTL DEF IInv

(* No change of the table is lost on the loop that fixes it.               *)
THEOREM ChangesNoticed == Spec => []ChangeNoticed
BY Invariant, PTL DEF IInv

(* After the timer of a bootstrap no peer is replaceable ...               *)
THEOREM StaysFrozen == Spec => []FrozenTable
BY Invariant, PTL DEF IInv

(* ... and before two refreshes were counted none stops to be.             *)
THEOREM FreezesLate == Spec => NotFrozenEarly
<1> DEFINE Step == table' = table /\ replaceable' # replaceable
                     => bootstrapCount >= 2 /\ ~ isBootstrapping
<1>1. IInv /\ [Next]_vars => [Step]_vars
  <2> SUFFICES ASSUME IInv, Next, table' = table, replaceable' # replaceable
               PROVE  bootstrapCount >= 2 /\ ~ isBootstrapping
    OBVIOUS
  <2> USE DEF tableVars
  <2>1. ASSUME NEW g \in Goroutine, CheckDone(g) \/ GiveUp(g) \/ AddPeer(g) PROVE FALSE
    BY <2>1 DEF CheckDone, GiveUp, AddPeer, TryAddPeer
  <2>2. ASSUME NEW g \in Goroutine, NEW p \in Peer, QueryAnswered(g, p) PROVE FALSE
    BY <2>2 DEF QueryAnswered
  <2>3. ASSUME NEW p \in Peer, FixPeer(p) \/ PeerChanges(p) \/ HandlePeerChange(p) \/ PeerFails(p)
        PROVE FALSE
    BY <2>3 DEF FixPeer, PeerChanges, HandlePeerChange, PeerFails, RemovePeer
  <2>4. ~ RefreshFinished /\ ~ Kick /\ ~ LoopStops
    BY DEF RefreshFinished, Kick, LoopStops
  <2>5. ~ FixSignalled /\ ~ FixTick /\ ~ FixBegins /\ ~ FixEnds /\ ~ FixStops
    BY DEF FixSignalled, FixTick, FixBegins, FixEnds, FixStops
  <2>6. ~ AddressesUpdated /\ ~ SubscriberStops /\ ~ Bootstrap /\ ~ Cancel /\ ~ CloseCycle /\ ~ Closed
        /\ ~ Manager /\ ~ WakeManager
    BY DEF AddressesUpdated, SubscriberStops, Bootstrap, Cancel, CloseCycle, Closed, Manager,
           WakeManager
  <2>7. MarkAllPeersIrreplaceable
    BY <2>1, <2>2, <2>3, <2>4, <2>5, <2>6 DEF Next
  <2> QED  BY <2>7 DEF MarkAllPeersIrreplaceable, IInv, Counting, TypeOK, CountCap
<1> QED  BY <1>1, Invariant, PTL DEF Spec, NotFrozenEarly
=============================================================================
