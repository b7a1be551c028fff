--------------------------- MODULE RtRefreshProofs ---------------------------
(***************************************************************************)
(* Theorems about the refresh manager, for any peers, requests and longest *)
(* prefix: refreshes look up what they promise, and the manager implements *)
(* RefreshCycle.                                                           *)
(***************************************************************************)
EXTENDS RtRefresh, TLAPS

(* The first n cpls were dealt with: those that were due looked up, and    *)
(* all of them if the refresh is forced.                                   *)
Covered(n) ==
  /\ \A c \in queried : c < n
  /\ \A c \in due : c < n => c \in queried
  /\ force => \A c \in Cpl : c < n => c \in queried

(* How far the refresh is at each step.                                    *)
Progress ==
  /\ rstep \in {"idle", "done", "self", "plan"} \cup Collecting => queried = {}
  /\ rstep \notin {"gap", "answer"} => gap = NoGap
  /\ rstep = "cpl"    => cur <= upto + 1 /\ Covered(cur)
  /\ rstep = "check"  => cur <= upto /\ Covered(cur + 1)
  /\ rstep = "gap"    => gap \in Cpl /\ gap <= upto /\ cur <= LastCpl + 1 /\ Covered(cur)
  /\ rstep = "signal" => cur = upto + 1 /\ Covered(cur)
  /\ rstep = "answer" => /\ gap = NoGap => cur = upto + 1
                         /\ gap # NoGap => gap \in Cpl /\ gap <= upto /\ cur = LastCpl + 1
                         /\ Covered(cur)

(* Requests wait for an answer only while a refresh is under way, and one  *)
(* of them that forces it is remembered.                                   *)
Remembered ==
  /\ rstep \in {"idle", "done"} => Waiting = {}
  /\ Waiting \cap Forced # {} => force

IInv == TypeOK /\ Progress /\ Remembered

-----------------------------------------------------------------------------
LEMMA InitOK == Init => IInv
<1> SUFFICES ASSUME Init PROVE IInv
  OBVIOUS
<1> USE ManagerAssumption DEF Init
<1>1. TypeOK
  <2>1. upto \in Cpl /\ cur \in 0..MaxCpl + 1
    BY DEF Cpl
  <2>2. rstep \in {"self", "idle"} /\ force \in BOOLEAN
    OBVIOUS
  <2> QED  BY <2>1, <2>2 DEF TypeOK, Refreshing
<1>2. Progress
  BY DEF Progress, Collecting
<1>3. Remembered
  BY DEF Remembered, Waiting
<1> QED  BY <1>1, <1>2, <1>3 DEF IInv

(* Cpls stay in range: a refresh ends before it passes the last one.       *)
LEMMA Advance ==
  ASSUME IInv, rstep \in {"cpl", "check", "gap"}, rstep = "cpl" => cur <= upto,
         rstep = "gap" => cur <= LastCpl
  PROVE  cur \in Cpl /\ cur + 1 \in 0..MaxCpl + 1 /\ cur <= upto
<1>1. upto \in 0..MaxCpl /\ cur \in Nat
  BY ManagerAssumption DEF IInv, TypeOK, Cpl
<1>2. cur <= upto
  <2>1. CASE rstep = "gap"
    <3>1. gap \in 0..MaxCpl
      BY <2>1 DEF IInv, Progress, Cpl
    <3> QED  BY <1>1, <2>1, <3>1, ManagerAssumption DEF LastCpl
  <2>2. CASE rstep # "gap"
    BY <2>2 DEF IInv, Progress
  <2> QED  BY <2>1, <2>2
<1> QED  BY <1>1, <1>2, ManagerAssumption DEF Cpl

LEMMA TypeStep == IInv /\ [Next]_vars => TypeOK'
<1> SUFFICES ASSUME IInv, [Next]_vars PROVE TypeOK'
  OBVIOUS
<1>0. TypeOK
  BY DEF IInv
<1> USE <1>0, ManagerAssumption DEF TypeOK, Collecting, Refreshing, Goto, Becomes, planVars
<1>1. ASSUME NEW q \in Request, Refresh(q) \/ Offer(q) \/ Abort(q) \/ Accept(q) PROVE TypeOK'
  BY <1>1 DEF Refresh, Offer, Abort, Accept
<1>2. CASE Close \/ Tick \/ RefreshNoWait \/ Stop \/ EndBatch \/ AllPinged
  BY <1>2 DEF Close, Tick, RefreshNoWait, Stop, EndBatch, AllPinged
<1>3. ASSUME NEW p \in Peer, PingDone(p) \/ TableChanges(p) PROVE TypeOK'
  BY <1>3 DEF PingDone, TableChanges
<1>4. CASE QuerySelf
  BY <1>4 DEF QuerySelf
<1>5. CASE Plan
  <2>1. upto' \in Cpl /\ cur' \in 0..MaxCpl + 1
    BY <1>5 DEF Plan, Tracked
  <2> QED  BY <1>5, <2>1 DEF Plan
<1>6. ASSUME NEW step \in {"cpl", "check", "gap"}, NEW other \in {"cpl", "gap"},
             cur \in Cpl, cur + 1 \in 0..MaxCpl + 1,
             Rfnc(Goto(step) /\ cur' \in {cur, cur + 1}, NextCpl(other)),
             UNCHANGED <<table, force, pinging, due, upto, gap, requested, closing>>
      PROVE  TypeOK'
  <2>1. queried' \subseteq Cpl /\ failed' \in BOOLEAN
    BY <1>6 DEF Rfnc
  <2>2. cur' \in 0..MaxCpl + 1 /\ rstep' \in {"cpl", "check", "gap"}
    BY <1>6 DEF Rfnc, NextCpl
  <2> QED  BY <1>6, <2>1, <2>2
<1>7. CASE RefreshCpl
  <2>1. cur \in Cpl /\ cur + 1 \in 0..MaxCpl + 1
    BY <1>7, Advance DEF RefreshCpl
  <2>2. Rfnc(Goto("check") /\ cur' \in {cur, cur + 1}, NextCpl("cpl"))
    BY <1>7 DEF RefreshCpl, Rfnc
  <2> QED  BY <1>6, <1>7, <2>1, <2>2 DEF RefreshCpl
<1>8. CASE RefreshGap
  <2>1. cur \in Cpl /\ cur + 1 \in 0..MaxCpl + 1
    BY <1>8, Advance DEF RefreshGap
  <2>2. Rfnc(Goto("gap") /\ cur' \in {cur, cur + 1}, NextCpl("gap"))
    BY <1>8 DEF RefreshGap, Rfnc, NextCpl
  <2> QED  BY <1>6, <1>8, <2>1, <2>2 DEF RefreshGap
<1>9. CASE CheckGap
  <2>1. cur \in Cpl /\ cur + 1 \in 0..MaxCpl + 1
    BY <1>9, Advance DEF CheckGap
  <2> QED  BY <1>9, <2>1 DEF CheckGap, NextCpl
<1>10. CASE EndGap \/ EndCpls \/ SignalDone \/ SignalAborted
  BY <1>10 DEF EndGap, EndCpls, SignalDone, SignalAborted
<1>11. CASE Answer
  <2>1. upto' \in Cpl /\ cur' \in 0..MaxCpl + 1
    BY <1>11 DEF Answer, Cpl
  <2> QED  BY <1>11, <2>1 DEF Answer
<1>12. CASE UNCHANGED vars
  BY <1>12 DEF vars
<1> QED
  BY <1>1, <1>2, <1>3, <1>4, <1>5, <1>7, <1>8, <1>9, <1>10, <1>11, <1>12 DEF Next, Manager

-----------------------------------------------------------------------------
(* Dealing with one cpl more.                                              *)
LEMMA OneMore ==
  ASSUME TypeOK, NEW n \in Cpl, Covered(n), UNCHANGED <<due, force>>,
         \/ ~ force /\ n \notin due /\ UNCHANGED queried
         \/ queried' = queried \cup {n}
  PROVE  Covered(n + 1)'
<1>1. \A c \in Cpl : c < n + 1 <=> c < n \/ c = n
  BY ManagerAssumption DEF Cpl
<1>2. n < n + 1
  BY ManagerAssumption DEF Cpl
<1> QED  BY <1>1, <1>2 DEF Covered, TypeOK

(* rfnc deals with cur.                                                    *)
LEMMA RfncCovers ==
  ASSUME IInv, NEW step \in {"check", "gap"}, NEW other \in {"cpl", "gap"}, NEW up \in {0, 1},
         cur \in Cpl, Covered(cur), UNCHANGED <<due, force>>,
         Rfnc(Goto(step) /\ cur' = cur + up, NextCpl(other))
  PROVE  /\ (rstep' = step /\ cur' = cur + up) \/ (rstep' = other /\ cur' = cur + 1)
         /\ \A n \in Nat : n = cur + 1 => Covered(n)'
<1>1. PICK n \in Cpl : n = cur
  OBVIOUS
<1>2. Covered(n + 1)'
  <2>1. \/ ~ force /\ n \notin due /\ UNCHANGED queried
        \/ queried' = queried \cup {n}
    BY <1>1 DEF Rfnc
  <2>2. Covered(n)
    BY <1>1 DEF Covered
  <2> QED  BY <2>1, <2>2, OneMore DEF IInv
<1>3. \A m \in Nat : m = cur + 1 => Covered(m)'
  BY <1>1, <1>2 DEF Covered
<1>4. (rstep' = step /\ cur' = cur + up) \/ (rstep' = other /\ cur' = cur + 1)
  BY Zenon DEF Rfnc, Goto, NextCpl
<1> QED  BY <1>3, <1>4

LEMMA ProgressStep == IInv /\ [Next]_vars => Progress'
<1> SUFFICES ASSUME IInv, [Next]_vars PROVE Progress'
  OBVIOUS
<1>0. TypeOK /\ Progress /\ TypeOK'
  BY TypeStep DEF IInv
<1> USE <1>0, ManagerAssumption DEF Goto, planVars
<1>1. ASSUME UNCHANGED <<rstep, force, planVars>> PROVE Progress'
  BY <1>1 DEF Progress, Covered, Collecting, LastCpl
<1>2. CASE \/ \E q \in Request : Refresh(q) \/ Offer(q) \/ Abort(q)
           \/ \E p \in Peer : PingDone(p) \/ TableChanges(p)
           \/ Close \/ UNCHANGED vars
  BY <1>1, <1>2 DEF Refresh, Offer, Abort, PingDone, TableChanges, Close, vars
<1>3. CASE Tick \/ RefreshNoWait \/ Stop \/ EndBatch \/ AllPinged \/ \E q \in Request : Accept(q)
  <2>1. /\ rstep \in {"idle"} \cup Collecting
        /\ rstep' \in {"done", "self"} \cup Collecting
        /\ UNCHANGED planVars
    BY <1>3 DEF Tick, RefreshNoWait, Stop, EndBatch, AllPinged, Accept, Collecting
  <2> QED  BY <2>1 DEF Progress, Collecting
<1>4. CASE QuerySelf
  BY <1>4 DEF QuerySelf, Progress, Collecting
<1>5. CASE Plan
  <2>1. rstep' = "cpl" /\ cur' = 0 /\ UNCHANGED <<queried, gap, force>> /\ queried = {} /\ gap = NoGap
    BY <1>5 DEF Plan, Progress
  <2>2. upto' \in Nat
    BY DEF TypeOK, Cpl
  <2>3. Covered(cur)'
    <3>1. \A c \in Cpl : ~ c < 0
      BY DEF Cpl
    <3> QED  BY <2>1, <3>1 DEF Covered, TypeOK
  <2>4. cur' <= upto' + 1
    <3>1. \A u \in Nat : 0 <= u + 1
      OBVIOUS
    <3> QED  BY <2>1, <2>2, <3>1
  <2> QED  BY <2>1, <2>3, <2>4 DEF Progress, Collecting
<1>6. CASE RefreshCpl
  <2>1. rstep = "cpl" /\ cur \in Cpl /\ cur <= upto /\ gap = NoGap /\ Covered(cur)
    BY <1>6, Advance DEF RefreshCpl, Progress
  <2>2. UNCHANGED <<gap, upto>>
    BY <1>6 DEF RefreshCpl
  <2>3. /\ (rstep' = "check" /\ cur' = cur) \/ (rstep' = "cpl" /\ cur' = cur + 1)
        /\ \A n \in Nat : n = cur + 1 => Covered(n)'
    <3>1. cur + 0 = cur
      BY <2>1 DEF Cpl
    <3>2. Rfnc(Goto("check") /\ cur' = cur + 0, NextCpl("cpl")) /\ UNCHANGED <<due, force>>
      BY <1>6, <3>1 DEF RefreshCpl, Rfnc
    <3> QED  BY <2>1, <3>1, <3>2, RfncCovers
  <2>4. PICK n \in Nat : n = cur + 1
    BY <2>1 DEF Cpl
  <2>5. upto \in Nat /\ cur \in Nat
    BY <2>1 DEF TypeOK, Cpl
  <2>6. CASE rstep' = "check" /\ cur' = cur
    <3>1. Covered(cur + 1)'
      BY <2>3, <2>4, <2>6 DEF Covered
    <3> QED  BY <2>1, <2>2, <2>6, <3>1 DEF Progress, Collecting
  <2>7. CASE rstep' = "cpl" /\ cur' = cur + 1
    <3>1. Covered(cur)'
      BY <2>3, <2>4, <2>7 DEF Covered
    <3>2. cur' <= upto' + 1
      BY <2>1, <2>2, <2>5, <2>7
    <3> QED  BY <2>1, <2>2, <2>7, <3>1, <3>2 DEF Progress, Collecting
  <2> QED  BY <2>3, <2>6, <2>7
<1>7. CASE CheckGap
  <2>1. rstep = "check" /\ cur \in Cpl /\ cur <= upto /\ gap = NoGap /\ Covered(cur + 1)
    BY <1>7, Advance DEF CheckGap, Progress
  <2>2. UNCHANGED <<force, due, upto, queried>> /\ cur' = cur + 1
    BY <1>7 DEF CheckGap, NextCpl
  <2>3. Covered(cur)'
    BY <2>1, <2>2 DEF Covered
  <2>4. upto \in Nat /\ cur \in Nat
    BY <2>1 DEF TypeOK, Cpl
  <2>5. CASE rstep' = "cpl" /\ UNCHANGED gap
    <3>1. cur' <= upto' + 1
      BY <2>1, <2>2, <2>4
    <3> QED  BY <2>1, <2>3, <2>5, <3>1 DEF Progress, Collecting
  <2>6. CASE rstep' = "gap" /\ gap' = cur
    <3>1. gap' \in Cpl /\ gap' <= upto'
      BY <2>1, <2>2, <2>6
    <3>2. cur' <= LastCpl' + 1
      BY <2>1, <2>2, <2>4, <2>6 DEF LastCpl
    <3> QED  BY <2>3, <2>6, <3>1, <3>2 DEF Progress, Collecting
  <2> QED  BY <1>7, <2>5, <2>6 DEF CheckGap, NextCpl
<1>8. CASE RefreshGap
  <2>1. rstep = "gap" /\ cur \in Cpl /\ cur <= LastCpl /\ gap \in Cpl /\ gap <= upto /\ Covered(cur)
    BY <1>8, Advance DEF RefreshGap, Progress
  <2>2. UNCHANGED <<gap, upto>>
    BY <1>8 DEF RefreshGap
  <2>3. rstep' = "gap" /\ cur' = cur + 1 /\ \A n \in Nat : n = cur + 1 => Covered(n)'
    <3>1. Rfnc(Goto("gap") /\ cur' = cur + 1, NextCpl("gap")) /\ UNCHANGED <<due, force>>
      BY <1>8 DEF RefreshGap, Rfnc, NextCpl
    <3> QED  BY <2>1, <3>1, RfncCovers
  <2>4. PICK n \in Nat : n = cur + 1
    BY <2>1 DEF Cpl
  <2>5. Covered(cur)'
    BY <2>3, <2>4 DEF Covered
  <2>6. cur' <= LastCpl' + 1
    BY <2>1, <2>2, <2>3 DEF LastCpl, TypeOK, Cpl
  <2> QED  BY <2>1, <2>2, <2>3, <2>5, <2>6 DEF Progress, Collecting
<1>9. CASE EndGap
  <2>1. rstep = "gap" /\ gap \in Cpl /\ gap <= upto /\ cur <= LastCpl + 1 /\ cur > LastCpl /\ Covered(cur)
    BY <1>9 DEF EndGap, Progress
  <2>2. rstep' = "answer" /\ UNCHANGED <<planVars, force>>
    BY <1>9 DEF EndGap
  <2>3. gap # NoGap /\ cur = LastCpl + 1
    BY <2>1 DEF LastCpl, TypeOK, Cpl
  <2> QED  BY <2>1, <2>2, <2>3 DEF Progress, Covered, LastCpl, Collecting
<1>10. CASE EndCpls
  <2>1. rstep = "cpl" /\ gap = NoGap /\ cur <= upto + 1 /\ cur > upto /\ Covered(cur)
    BY <1>10 DEF EndCpls, Progress
  <2>2. rstep' = "signal" /\ UNCHANGED <<planVars, force>>
    BY <1>10 DEF EndCpls
  <2>3. cur = upto + 1
    BY <2>1 DEF TypeOK, Cpl
  <2> QED  BY <2>1, <2>2, <2>3 DEF Progress, Covered, Collecting
<1>11. CASE SignalDone \/ SignalAborted
  <2>1. /\ rstep = "signal" /\ gap = NoGap /\ cur = upto + 1 /\ Covered(cur)
        /\ rstep' = "answer" /\ UNCHANGED <<due, upto, cur, gap, queried, force>>
    BY <1>11 DEF SignalDone, SignalAborted, Progress
  <2> QED  BY <2>1 DEF Progress, Covered, Collecting
<1>12. CASE Answer
  BY <1>12 DEF Answer, Progress, Collecting
<1> QED
  BY <1>2, <1>3, <1>4, <1>5, <1>6, <1>7, <1>8, <1>9, <1>10, <1>11, <1>12 DEF Next, Manager

LEMMA RememberedStep == IInv /\ [Next]_vars => Remembered'
<1> SUFFICES ASSUME IInv, [Next]_vars PROVE Remembered'
  OBVIOUS
<1> USE DEF IInv, Remembered, Waiting, Goto, Becomes, TypeOK
<1>1. ASSUME NEW q \in Request, Refresh(q) \/ Offer(q) \/ Abort(q) PROVE Remembered'
  BY <1>1 DEF Refresh, Offer, Abort
<1>2. ASSUME NEW q \in Request, Accept(q) PROVE Remembered'
  BY <1>2 DEF Accept
<1>3. CASE UNCHANGED <<force, requested>> /\ (rstep' \in {"idle", "done"} => rstep \in {"idle", "done"})
  BY <1>3
<1>4. CASE Answer
  BY <1>4 DEF Answer
<1>5. CASE Close \/ Tick \/ RefreshNoWait \/ Stop \/ EndBatch \/ AllPinged \/ UNCHANGED vars
  BY <1>3, <1>5 DEF Close, Tick, RefreshNoWait, Stop, EndBatch, AllPinged, vars
<1>6. CASE QuerySelf \/ Plan \/ EndGap \/ EndCpls \/ SignalDone \/ SignalAborted
  BY <1>3, <1>6 DEF QuerySelf, Plan, EndGap, EndCpls, SignalDone, SignalAborted
<1>7. CASE RefreshCpl \/ CheckGap \/ RefreshGap
  BY <1>3, <1>7 DEF RefreshCpl, CheckGap, RefreshGap, Rfnc, NextCpl
<1>8. ASSUME NEW p \in Peer, PingDone(p) \/ TableChanges(p) PROVE Remembered'
  BY <1>3, <1>8 DEF PingDone, TableChanges
<1> QED  BY <1>1, <1>2, <1>4, <1>5, <1>6, <1>7, <1>8 DEF Next, Manager

LEMMA Invariant == Spec => []IInv
<1>1. IInv /\ [Next]_vars => IInv'
  BY TypeStep, ProgressStep, RememberedStep DEF IInv
<1> QED  BY <1>1, InitOK, PTL DEF Spec

-----------------------------------------------------------------------------
(* Every variable keeps its type, in particular the cpls stay in range.    *)
THEOREM TypeCorrect == Spec => []TypeOK
<1>1. IInv => TypeOK
  BY DEF IInv
<1> QED  BY <1>1, Invariant, PTL

(* At the end of a refresh, the cpls dealt with are those promised.        *)
LEMMA EndCovers ==
  ASSUME IInv, rstep = "answer"
  PROVE  /\ Promised \subseteq Cpl
         /\ \A c \in Cpl : c < cur <=> c \in Promised
<1> USE ManagerAssumption
<1>1. upto \in Nat /\ upto <= MaxCpl
  BY DEF IInv, TypeOK, Cpl
<1>2. CASE gap = NoGap
  <2>1. cur = upto + 1
    BY <1>2 DEF IInv, Progress
  <2> QED  BY <1>1, <1>2, <2>1 DEF Promised, Cpl
<1>3. CASE gap # NoGap
  <2>1. gap \in Nat /\ cur = LastCpl + 1
    BY <1>3 DEF IInv, Progress, Cpl
  <2> QED  BY <1>1, <1>3, <2>1 DEF Promised, Cpl, LastCpl
<1> QED  BY <1>2, <1>3

(* A refresh that a caller forces looks up every cpl it promises, however  *)
(* the request was batched with others (rt_refresh_manager.go:141-213).    *)
THEOREM ForcedHonoured == Spec => []ForcedIsHonoured
<1>1. ASSUME IInv PROVE ForcedIsHonoured
  <2> SUFFICES ASSUME rstep = "answer", NEW q \in Waiting, q \in Forced
               PROVE  queried = Promised
    BY DEF ForcedIsHonoured
  <2>1. force
    BY <1>1 DEF IInv, Remembered
  <2>2. Covered(cur) /\ queried \subseteq Cpl
    BY <1>1 DEF IInv, Progress, TypeOK
  <2> QED  BY <1>1, <2>1, <2>2, EndCovers DEF Covered
<1> QED  BY <1>1, Invariant, PTL

(* A refresh passes over a cpl only if it had been refreshed recently      *)
(* (rt_refresh_manager.go:244-283).                                        *)
THEOREM NothingPassedOver == Spec => []NothingOverlooked
<1>1. ASSUME IInv PROVE NothingOverlooked
  <2> SUFFICES ASSUME rstep = "answer", NEW c \in due, c \in Promised
               PROVE  c \in queried
    BY DEF NothingOverlooked
  <2>1. Covered(cur)
    BY <1>1 DEF IInv, Progress
  <2> QED  BY <1>1, <2>1, EndCovers DEF Covered
<1> QED  BY <1>1, Invariant, PTL

-----------------------------------------------------------------------------
(* What the cycle sees of a step.                                          *)
ReqMap == [q \in Request |-> ReqOf(q)]

LEMMA InitMaps == Init => C!CycleInit
<1> SUFFICES ASSUME Init PROVE C!CycleInit
  OBVIOUS
<1>1. PhaseOf = IF AutoRefresh THEN "refreshing" ELSE "idle"
  BY DEF Init, PhaseOf, Collecting, Refreshing
<1>2. \A q \in Request : ReqOf(q) = "none"
  BY DEF Init, ReqOf
<1> QED  BY <1>1, <1>2 DEF C!CycleInit, Init

(* A step that stays on one side of the line between collecting requests   *)
(* and refreshing changes nothing for the cycle.                           *)
LEMMA Stutters ==
  ASSUME UNCHANGED <<requested, closing>>, PhaseOf' = PhaseOf,
         rstep' \in Collecting <=> rstep \in Collecting
  PROVE  UNCHANGED <<PhaseOf, ReqMap, closing>>
<1>1. \A q \in Request : ReqOf(q)' = ReqOf(q)
  BY DEF ReqOf
<1> QED  BY <1>1 DEF ReqMap

LEMMA SameRequests ==
  ASSUME UNCHANGED requested,
         \/ rstep' \in Collecting <=> rstep \in Collecting
         \/ Waiting = {}
  PROVE  UNCHANGED ReqMap
<1>1. \A q \in Request : ReqOf(q)' = ReqOf(q)
  BY DEF ReqOf, Waiting
<1> QED  BY <1>1 DEF ReqMap

(* A step of one request.                                                  *)
LEMMA OneRequest ==
  ASSUME TypeOK, NEW q \in Request, NEW state, Becomes(q, state), UNCHANGED rstep
  PROVE  ReqMap' = [ReqMap EXCEPT ![q] =
           CASE state = "sending" -> "asked"
             [] state = "accepted" -> IF rstep \in Collecting THEN "asked" ELSE "served"
             [] OTHER -> state]
<1>1. requested'[q] = state /\ \A r \in Request \ {q} : requested'[r] = requested[r]
  BY DEF TypeOK, Becomes
<1>2. ReqOf(q)' = CASE state = "sending" -> "asked"
                    [] state = "accepted" -> IF rstep \in Collecting THEN "asked" ELSE "served"
                    [] OTHER -> state
  BY <1>1 DEF ReqOf
<1>3. \A r \in Request \ {q} : ReqOf(r)' = ReqOf(r)
  BY <1>1 DEF ReqOf
<1> QED  BY <1>2, <1>3 DEF ReqMap

LEMMA StepMaps == IInv /\ [Next]_vars => [C!CycleNext]_(C!cycleVars)
<1> SUFFICES ASSUME IInv, [Next]_vars PROVE C!CycleNext \/ UNCHANGED C!cycleVars
  OBVIOUS
<1> DEFINE Same == UNCHANGED <<PhaseOf, ReqMap, closing>>
<1>0. TypeOK /\ Remembered /\ (Same => UNCHANGED C!cycleVars)
  BY DEF IInv, ReqMap, C!cycleVars
<1> HIDE DEF Same
<1>1. ASSUME NEW q \in Request, Refresh(q) PROVE C!Ask(q)
  <2>1. ReqMap' = [ReqMap EXCEPT ![q] = "asked"] /\ ReqMap[q] = "none"
    BY <1>0, <1>1, OneRequest DEF Refresh, ReqMap, ReqOf
  <2>2. UNCHANGED <<PhaseOf, closing>>
    BY <1>1 DEF Refresh, PhaseOf
  <2> QED  BY <2>1, <2>2 DEF C!Ask, ReqMap
<1>2. ASSUME NEW q \in Request, Offer(q) PROVE Same
  <2>1. ReqMap' = [ReqMap EXCEPT ![q] = "asked"] /\ ReqMap[q] = "asked"
    BY <1>0, <1>2, OneRequest DEF Offer, ReqMap, ReqOf
  <2>2. UNCHANGED <<PhaseOf, closing>>
    BY <1>2 DEF Offer, PhaseOf
  <2> QED  BY <2>1, <2>2 DEF Same, ReqMap
<1>3. ASSUME NEW q \in Request, Abort(q) PROVE C!CancelAsked(q)
  <2>1. ReqMap' = [ReqMap EXCEPT ![q] = "aborted"] /\ ReqMap[q] = "asked"
    BY <1>0, <1>3, OneRequest DEF Abort, ReqMap, ReqOf
  <2>2. UNCHANGED <<PhaseOf, closing>> /\ closing
    BY <1>3 DEF Abort, PhaseOf
  <2> QED  BY <2>1, <2>2 DEF C!CancelAsked, ReqMap
<1>4. CASE Close
  <2>1. UNCHANGED <<PhaseOf, ReqMap>> /\ closing'
    BY <1>4, SameRequests DEF Close, PhaseOf
  <2>2. closing' = TRUE
    BY <1>4 DEF Close
  <2>3. C!CloseManager
    BY <2>1, <2>2 DEF C!CloseManager, ReqMap
  <2> QED  BY <2>3 DEF C!CycleNext
<1>5. CASE Tick \/ RefreshNoWait
  <2>1. rstep = "idle" /\ rstep' = "batch" /\ UNCHANGED <<requested, closing>>
    BY <1>5 DEF Tick, RefreshNoWait, Goto
  <2>2. PhaseOf = "idle" /\ PhaseOf' = "waking"
    BY <2>1 DEF PhaseOf, Collecting, Refreshing
  <2>3. UNCHANGED ReqMap
    BY <1>0, <2>1, SameRequests DEF Remembered
  <2>4. C!Wake
    BY <2>1, <2>2, <2>3 DEF C!Wake, ReqMap
  <2> QED  BY <2>4 DEF C!CycleNext
<1>6. ASSUME NEW q \in Request, Accept(q) PROVE C!Wake \/ Same
  <2>1. requested[q] = "sending" /\ Becomes(q, "accepted") /\ rstep' = "batch" /\ UNCHANGED closing
    BY <1>6 DEF Accept, Goto
  <2>2. \A r \in Request : ReqOf(r)' = ReqOf(r)
    <3>1. rstep = "idle" => Waiting = {}
      BY <1>0 DEF Remembered
    <3>2. rstep \in {"idle", "batch"}
      BY <1>6 DEF Accept
    <3>3. requested'[q] = "accepted" /\ \A r \in Request \ {q} : requested'[r] = requested[r]
      BY <1>0, <2>1 DEF TypeOK, Becomes
    <3>4. ReqOf(q) = "asked" /\ ReqOf(q)' = "asked"
      BY <2>1, <3>3 DEF ReqOf, Collecting
    <3>5. ASSUME NEW r \in Request \ {q} PROVE ReqOf(r)' = ReqOf(r)
      BY <2>1, <3>1, <3>2, <3>3, <3>5 DEF ReqOf, Waiting, Collecting
    <3> QED  BY <3>4, <3>5
  <2>3. UNCHANGED ReqMap
    BY <2>2 DEF ReqMap
  <2>4. CASE rstep = "idle"
    <3>1. PhaseOf = "idle" /\ PhaseOf' = "waking"
      BY <2>1, <2>4 DEF PhaseOf, Collecting, Refreshing
    <3> QED  BY <2>1, <2>3, <3>1 DEF C!Wake, ReqMap
  <2>5. CASE rstep = "batch"
    <3>1. UNCHANGED PhaseOf
      BY <2>1, <2>5 DEF PhaseOf
    <3> QED  BY <2>1, <2>3, <3>1 DEF Same
  <2> QED  BY <1>6, <2>4, <2>5 DEF Accept
<1>7. CASE Stop
  <2>1. rstep = "idle" /\ rstep' = "done" /\ closing /\ UNCHANGED <<requested, closing>>
    BY <1>7 DEF Stop, Goto
  <2>2. PhaseOf = "idle" /\ PhaseOf' = "stopped"
    BY <2>1 DEF PhaseOf, Collecting, Refreshing
  <2>3. UNCHANGED ReqMap
    BY <2>1, SameRequests DEF Collecting
  <2>4. C!StopManager
    BY <2>1, <2>2, <2>3 DEF C!StopManager, ReqMap
  <2> QED  BY <2>4 DEF C!CycleNext
<1>8. CASE EndBatch
  <2>1. rstep = "batch" /\ rstep' = "ping" /\ UNCHANGED <<requested, closing>>
    BY <1>8 DEF EndBatch, Goto
  <2>2. UNCHANGED PhaseOf
    BY <2>1 DEF PhaseOf, Collecting, Refreshing
  <2>3. Same
    BY <2>1, <2>2, Stutters DEF Same, Collecting
  <2> QED  BY <1>0, <2>3
<1>9. CASE AllPinged
  <2>1. rstep = "ping" /\ rstep' = "self" /\ UNCHANGED <<requested, closing>>
    BY <1>9 DEF AllPinged, Goto
  <2>2. PhaseOf = "waking" /\ PhaseOf' = "refreshing"
    BY <2>1 DEF PhaseOf, Collecting, Refreshing
  <2>3. \A q \in Waiting : ReqMap[q] = "asked"
    BY <2>1 DEF ReqMap, ReqOf, Waiting, Collecting
  <2>4. ReqMap' = [q \in Request |-> IF q \in Waiting THEN "served" ELSE ReqMap[q]]
    <3>1. \A q \in Request : ReqOf(q)' = IF q \in Waiting THEN "served" ELSE ReqOf(q)
      BY <2>1 DEF ReqOf, Waiting, Collecting
    <3> QED  BY <3>1 DEF ReqMap
  <2>5. Waiting \in SUBSET Request
    BY DEF Waiting
  <2>6. C!BeginRefresh(Waiting)
    BY <2>1, <2>2, <2>3, <2>4 DEF C!BeginRefresh, ReqMap
  <2> QED  BY <2>5, <2>6 DEF C!CycleNext
<1>10. ASSUME NEW p \in Peer, PingDone(p) \/ TableChanges(p) PROVE Same
  <2>1. UNCHANGED <<rstep, requested, closing>>
    BY <1>10 DEF PingDone, TableChanges
  <2>2. UNCHANGED PhaseOf
    BY <2>1 DEF PhaseOf
  <2> QED  BY <2>1, <2>2, Stutters DEF Same
<1>11. CASE QuerySelf \/ Plan \/ RefreshCpl \/ CheckGap \/ RefreshGap
  <2>1. rstep \in Refreshing /\ rstep' \in Refreshing /\ UNCHANGED <<requested, closing>>
    BY <1>11 DEF QuerySelf, Plan, RefreshCpl, CheckGap, RefreshGap, Rfnc, NextCpl, Goto, Refreshing
  <2>2. UNCHANGED PhaseOf
    BY <2>1 DEF PhaseOf, Collecting, Refreshing
  <2>3. rstep' \in Collecting <=> rstep \in Collecting
    BY <2>1 DEF Collecting, Refreshing
  <2>4. Same
    BY <2>1, <2>2, <2>3, Stutters DEF Same
  <2> QED  BY <1>0, <2>4
<1>12. CASE EndGap \/ EndCpls
  <2>1. /\ rstep \in {"gap", "cpl"} /\ rstep' \in {"answer", "signal"}
        /\ UNCHANGED <<requested, closing>>
    BY <1>12 DEF EndGap, EndCpls, Goto
  <2>2. PhaseOf = "refreshing" /\ PhaseOf' \in {"signal", "answering"}
    BY <2>1 DEF PhaseOf, Collecting, Refreshing
  <2>3. UNCHANGED ReqMap
    BY <2>1, SameRequests DEF Collecting
  <2>4. C!EndQueries
    BY <2>1, <2>2, <2>3 DEF C!EndQueries, ReqMap
  <2> QED  BY <2>4 DEF C!CycleNext
<1>13. CASE SignalDone \/ SignalAborted
  <2>1. rstep = "signal" /\ rstep' = "answer" /\ UNCHANGED <<requested, closing>>
    BY <1>13 DEF SignalDone, SignalAborted, Goto
  <2>2. PhaseOf = "signal" /\ PhaseOf' = "answering"
    BY <2>1 DEF PhaseOf, Collecting, Refreshing
  <2>3. UNCHANGED ReqMap
    BY <2>1, SameRequests DEF Collecting
  <2>4. C!SignalTaken
    BY <2>1, <2>2, <2>3 DEF C!SignalTaken, ReqMap
  <2> QED  BY <2>4 DEF C!CycleNext
<1>14. CASE Answer
  <2>1. rstep = "answer" /\ rstep' = "idle" /\ UNCHANGED closing
    BY <1>14 DEF Answer, Goto
  <2>2. PhaseOf = "answering" /\ PhaseOf' = "idle"
    BY <2>1 DEF PhaseOf, Collecting, Refreshing
  <2>3. \A q \in Request : ReqOf(q)' = IF ReqOf(q) = "served" THEN "answered" ELSE ReqOf(q)
    <3>1. \A q \in Request : requested'[q] = IF requested[q] = "accepted" THEN "answered"
                                             ELSE requested[q]
      BY <1>14 DEF Answer, Waiting
    <3> QED  BY <1>0, <2>1, <3>1 DEF ReqOf, Collecting, TypeOK
  <2>4. ReqMap' = [q \in Request |-> IF ReqMap[q] = "served" THEN "answered" ELSE ReqMap[q]]
    BY <2>3 DEF ReqMap
  <2>5. C!AnswerServed
    BY <2>1, <2>2, <2>4 DEF C!AnswerServed, ReqMap
  <2> QED  BY <2>5 DEF C!CycleNext
<1>15. CASE UNCHANGED vars
  <2>1. UNCHANGED <<rstep, requested, closing>>
    BY <1>15 DEF vars
  <2>2. UNCHANGED PhaseOf
    BY <2>1 DEF PhaseOf
  <2>3. Same
    BY <2>1, <2>2, Stutters DEF Same
  <2> QED  BY <1>0, <2>3
<1> QED
  BY <1>0, <1>1, <1>2, <1>3, <1>4, <1>5, <1>6, <1>7, <1>8, <1>9, <1>10, <1>11, <1>12, <1>13, <1>14,
     <1>15 DEF Next, Manager, C!CycleNext

(* The manager implements RefreshCycle: one refresh at a time, and no      *)
(* request is answered by a refresh that had begun before it was taken.    *)
THEOREM ImplementsCycle == Spec => CycleSpec
<1>1. Spec => C!CycleInit /\ [][C!CycleNext]_(C!cycleVars)
  BY InitMaps, StepMaps, Invariant, PTL DEF Spec
<1> QED  BY <1>1 DEF CycleSpec, C!CycleSpec
=============================================================================
