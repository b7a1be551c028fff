------------------------------ MODULE RtRefresh ------------------------------
(***************************************************************************)
(* The routing table's refresh manager                                     *)
(* (rtrefresh/rt_refresh_manager.go, kbucket/table_refresh.go).            *)
(*                                                                         *)
(* One goroutine takes requests, batches those that wait at the same time, *)
(* pings peers not heard of for long, and refreshes the table: it looks up *)
(* the node itself and a random key for each common prefix length (cpl).   *)
(* The table changes underneath it.  Which peers are due for a ping, and   *)
(* which cpls for a refresh, depends on time and on any lookup anywhere:   *)
(* any of them may be.                                                     *)
(***************************************************************************)
EXTENDS Integers, FiniteSets

CONSTANTS
  Peer,
  CplOf,           (* how long a prefix a peer shares with this node       *)
  MaxCpl,          (* maxCplForRefresh                                     *)
  Request, Forced, (* calls of Refresh, those with force set               *)
  AutoRefresh,
  NoGap

ASSUME ManagerAssumption ==
  /\ MaxCpl \in Nat
  /\ CplOf \in [Peer -> Nat]
  /\ Forced \subseteq Request
  /\ AutoRefresh \in BOOLEAN
  /\ NoGap \notin Nat

VARIABLES
  table,           (* the peers in the routing table                       *)
  rstep,           (* where the manager's goroutine is                     *)
  force,           (* forced, of loop                                      *)
  pinging,         (* peers whose ping is under way                        *)
  due, upto,       (* refreshCpls: older than the interval, and the last   *)
  cur, gap,        (* c of doRefresh and rfnc, and the gap found           *)
  failed,          (* whether merr is set                                  *)
  queried,         (* cpls looked up in this refresh                       *)
  requested,       (* each call: its goroutine or what it got              *)
  closing          (* whether the manager's context is cancelled           *)

planVars == <<due, upto, cur, gap, failed, queried>>
vars == <<table, rstep, force, pinging, planVars, requested, closing>>

Collecting == {"batch", "ping"}
Refreshing == {"self", "plan", "cpl", "check", "gap"}
Cpl        == 0..MaxCpl

TypeOK ==
  /\ table \subseteq Peer
  /\ rstep \in {"idle", "signal", "answer", "done"} \cup Collecting \cup Refreshing
  /\ force \in BOOLEAN
  /\ pinging \subseteq Peer
  /\ due \subseteq Cpl
  /\ upto \in Cpl
  /\ cur \in 0..MaxCpl + 1
  /\ gap \in Cpl \cup {NoGap}
  /\ failed \in BOOLEAN
  /\ queried \subseteq Cpl
  /\ requested \in [Request -> {"none", "asked", "sending", "accepted", "answered", "aborted"}]
  /\ closing \in BOOLEAN

(* loop begins with doRefresh(ctx, true) if it refreshes by itself.        *)
Init ==
  /\ table \in SUBSET Peer
  /\ rstep = IF AutoRefresh THEN "self" ELSE "idle"
  /\ force = AutoRefresh
  /\ pinging = {}
  /\ due = {} /\ upto = 0 /\ cur = 0 /\ gap = NoGap
  /\ failed = FALSE
  /\ queried = {}
  /\ requested = [q \in Request |-> "none"]
  /\ closing = FALSE

Becomes(q, state) == requested' = [requested EXCEPT ![q] = state]
Goto(step)        == rstep' = step
Waiting           == {q \in Request : requested[q] = "accepted"}

-----------------------------------------------------------------------------
(* Refresh starts a goroutine, which offers the request or gives up.       *)

Refresh(q) ==
  /\ requested[q] = "none"
  /\ Becomes(q, "asked")
  /\ UNCHANGED <<table, rstep, force, pinging, planVars, closing>>

Offer(q) ==
  /\ requested[q] = "asked"
  /\ Becomes(q, "sending")
  /\ UNCHANGED <<table, rstep, force, pinging, planVars, closing>>

Abort(q) ==
  /\ requested[q] \in {"asked", "sending"}
  /\ closing
  /\ Becomes(q, "aborted")
  /\ UNCHANGED <<table, rstep, force, pinging, planVars, closing>>

Close ==
  /\ ~ closing
  /\ closing' = TRUE
  /\ UNCHANGED <<table, rstep, force, pinging, planVars, requested>>

-----------------------------------------------------------------------------
(* loop: wait for a reason to refresh.                                     *)

Tick ==
  /\ rstep = "idle"
  /\ AutoRefresh
  /\ Goto("batch")
  /\ UNCHANGED <<table, force, pinging, planVars, requested, closing>>

(* RefreshNoWait comes through only while loop waits.                      *)
RefreshNoWait ==
  /\ rstep = "idle"
  /\ Goto("batch")
  /\ UNCHANGED <<table, force, pinging, planVars, requested, closing>>

Accept_LastDecides(q) ==
  /\ rstep \in {"idle", "batch"}
  /\ requested[q] = "sending"
  /\ Becomes(q, "accepted")
  /\ force' = (q \in Forced)
  /\ Goto("batch")
  /\ UNCHANGED <<table, pinging, planVars, closing>>

Accept_Late(q) ==
  /\ rstep \notin {"done", "ping"}
  /\ requested[q] = "sending"
  /\ Becomes(q, "accepted")
  /\ force' = (force \/ q \in Forced)
  /\ Goto(IF rstep = "idle" THEN "batch" ELSE rstep)
  /\ UNCHANGED <<table, pinging, planVars, closing>>

Accept(q) ==
  /\ rstep \in {"idle", "batch"}
  /\ requested[q] = "sending"
  /\ Becomes(q, "accepted")
  /\ force' = (force \/ q \in Forced)
  /\ Goto("batch")
  /\ UNCHANGED <<table, pinging, planVars, closing>>

Stop ==
  /\ rstep = "idle"
  /\ closing
  /\ Goto("done")
  /\ UNCHANGED <<table, force, pinging, planVars, requested, closing>>

EndBatch_AnyTime ==
  /\ rstep = "batch"
  /\ \E stale \in SUBSET table : pinging' = stale
  /\ Goto("ping")
  /\ UNCHANGED <<table, force, planVars, requested, closing>>

(* Nobody else is waiting: ping peers not heard of for long.               *)
EndBatch ==
  /\ rstep = "batch"
  /\ \A q \in Request : requested[q] # "sending"
  /\ \E stale \in SUBSET table : pinging' = stale
  /\ Goto("ping")
  /\ UNCHANGED <<table, force, planVars, requested, closing>>

PingDone(p) ==
  /\ p \in pinging
  /\ pinging' = pinging \ {p}
  /\ table' \in {table, table \ {p}}
  /\ UNCHANGED <<rstep, force, planVars, requested, closing>>

AllPinged ==
  /\ rstep = "ping"
  /\ pinging = {}
  /\ Goto("self")
  /\ UNCHANGED <<table, force, pinging, planVars, requested, closing>>

-----------------------------------------------------------------------------
(* doRefresh.  A lookup fails if the table is empty or the context is      *)
(* cancelled; one that times out counts as done.                           *)

LookupFails    == table = {} \/ closing
LookupSucceeds == table # {}

QuerySelf ==
  /\ rstep = "self"
  /\ \/ LookupSucceeds /\ UNCHANGED failed
     \/ LookupFails /\ failed' = TRUE
  /\ Goto("plan")
  /\ UNCHANGED <<table, force, pinging, due, upto, cur, gap, queried, requested, closing>>

(* GetTrackedCplsForRefresh: up to the longest prefix of a peer, or the    *)
(* longest for which a key can be made.                                    *)
Tracked == {c \in Cpl : c = 0 \/ \E p \in table : c <= CplOf[p]}

Plan ==
  /\ rstep = "plan"
  /\ upto' \in {c \in Tracked : \A d \in Tracked : d <= c}
  /\ due' \in SUBSET Cpl
  /\ cur' = 0
  /\ Goto("cpl")
  /\ UNCHANGED <<table, force, pinging, gap, failed, queried, requested, closing>>

(* rfnc: refreshCpl or refreshCplIfEligible, with what follows if it       *)
(* returned no error and if it did.                                        *)
Rfnc(done, error) ==
  \/ /\ ~ force /\ cur \notin due
     /\ done
     /\ UNCHANGED <<queried, failed>>
  \/ /\ force \/ cur \in due
     /\ queried' = queried \cup {cur}
     /\ \/ LookupSucceeds /\ done /\ UNCHANGED failed
        \/ LookupFails /\ error /\ failed' = TRUE

NextCpl(step) == Goto(step) /\ cur' = cur + 1

RefreshCpl ==
  /\ rstep = "cpl"
  /\ cur <= upto
  /\ Rfnc(Goto("check") /\ UNCHANGED cur, NextCpl("cpl"))
  /\ UNCHANGED <<table, force, pinging, due, upto, gap, requested, closing>>

(* NPeersForCpl: a length without peers ends the refresh early.            *)
CheckGap ==
  /\ rstep = "check"
  /\ IF \E p \in table : CplOf[p] = cur
     THEN NextCpl("cpl") /\ UNCHANGED gap
     ELSE NextCpl("gap") /\ gap' = cur
  /\ UNCHANGED <<table, force, pinging, due, upto, failed, queried, requested, closing>>

LastCpl_StopsShort == IF 2 * gap + 1 <= upto THEN 2 * gap + 1 ELSE upto

LastCpl == IF 2 * (gap + 1) <= upto THEN 2 * (gap + 1) ELSE upto

RefreshGap ==
  /\ rstep = "gap"
  /\ cur <= LastCpl
  /\ Rfnc(NextCpl("gap"), NextCpl("gap"))
  /\ UNCHANGED <<table, force, pinging, due, upto, gap, requested, closing>>

(* The refresh that met a gap returns without writing to refreshDoneCh.    *)
EndGap ==
  /\ rstep = "gap"
  /\ cur > LastCpl
  /\ Goto("answer")
  /\ UNCHANGED <<table, force, pinging, planVars, requested, closing>>

EndCpls ==
  /\ rstep = "cpl"
  /\ cur > upto
  /\ Goto("signal")
  /\ UNCHANGED <<table, force, pinging, planVars, requested, closing>>

SignalDone ==
  /\ rstep = "signal"
  /\ Goto("answer")
  /\ UNCHANGED <<table, force, pinging, planVars, requested, closing>>

SignalAborted ==
  /\ rstep = "signal"
  /\ closing
  /\ failed' = TRUE
  /\ Goto("answer")
  /\ UNCHANGED <<table, force, pinging, due, upto, cur, gap, queried, requested, closing>>

(* loop answers everybody it took with the outcome.                        *)
Answer ==
  /\ rstep = "answer"
  /\ requested' = [q \in Request |-> IF q \in Waiting THEN "answered" ELSE requested[q]]
  /\ Goto("idle")
  /\ force' = FALSE
  /\ due' = {} /\ upto' = 0 /\ cur' = 0 /\ gap' = NoGap /\ failed' = FALSE /\ queried' = {}
  /\ UNCHANGED <<table, pinging, closing>>

-----------------------------------------------------------------------------
(* The rest of the node adds and removes peers.                            *)
TableChanges(p) ==
  /\ table' \in {table \cup {p}, table \ {p}}
  /\ UNCHANGED <<rstep, force, pinging, planVars, requested, closing>>

Manager ==
  \/ Tick \/ EndBatch \/ AllPinged \/ QuerySelf \/ Plan \/ RefreshCpl \/ CheckGap \/ RefreshGap
  \/ EndGap \/ EndCpls \/ SignalDone \/ SignalAborted \/ Answer \/ Stop
  \/ \E q \in Request : Accept(q)

Next ==
  \/ Manager \/ RefreshNoWait \/ Close
  \/ \E q \in Request : Refresh(q) \/ Offer(q) \/ Abort(q)
  \/ \E p \in Peer : PingDone(p) \/ TableChanges(p)

Spec == Init /\ [][Next]_vars

(* Goroutines are scheduled, pings and lookups time out, rtPeerLoop takes  *)
(* the signal, and a select chooses at random among what is ready, so that *)
(* it does not pass over a cancelled context for ever.                     *)
FairSpec ==
  /\ Spec
  /\ WF_vars(Manager)
  /\ SF_vars(Stop)
  /\ \A p \in Peer : WF_vars(PingDone(p))
  /\ \A q \in Request : WF_vars(Offer(q)) /\ WF_vars(Abort(q))
-----------------------------------------------------------------------------
(* The cpls of the table when the refresh was planned; only as far as the   *)
(* comment in doRefresh says if there is a gap.                            *)
Promised == {c \in 0..upto : gap # NoGap => c <= 2 * (gap + 1)}

(* A forced refresh looks up every cpl it promises, also if it was batched *)
(* with requests that do not force it.                                     *)
ForcedIsHonoured ==
  rstep = "answer" /\ (\E q \in Waiting : q \in Forced) => queried = Promised

(* What a refresh that was not forced passed over had been refreshed       *)
(* within the interval when the refresh was planned.                       *)
NothingOverlooked == rstep = "answer" => due \cap Promised \subseteq queried

(* Every call of Refresh is answered, by a refresh or because the manager  *)
(* is being closed.                                                        *)
RefreshAnswers ==
  \A q \in Request : requested[q] = "asked" ~> requested[q] \in {"answered", "aborted"}

(* The manager is a RefreshCycle: one refresh at a time, and a request is  *)
(* answered by a refresh that began after it was taken.                    *)
PhaseOf ==
  CASE rstep \in Collecting -> "waking"
    [] rstep \in Refreshing -> "refreshing"
    [] rstep = "answer"     -> "answering"
    [] rstep = "done"       -> "stopped"
    [] OTHER                -> rstep
ReqOf(q) ==
  CASE requested[q] = "sending" -> "asked"
    [] requested[q] = "accepted" -> IF rstep \in Collecting THEN "asked" ELSE "served"
    [] OTHER -> requested[q]
C == INSTANCE RefreshCycle WITH phase <- PhaseOf, req <- [q \in Request |-> ReqOf(q)]
CycleSpec == C!CycleSpec
=============================================================================
