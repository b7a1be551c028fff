---------------------------- MODULE RefreshCycle ----------------------------
(***************************************************************************)
(* What the rest of the DHT may rely on from the refresh manager: it runs  *)
(* one refresh at a time; a request is answered by a refresh that began    *)
(* after it was made, or fails because the manager is being closed; and    *)
(* the end of a refresh is offered to one receiver, which the refresh      *)
(* waits for.  How a refresh is done is invisible at this level.           *)
(***************************************************************************)
CONSTANTS
  Request,       (* calls of Refresh, each made once                       *)
  AutoRefresh    (* enableAutoRefresh: the manager begins with a refresh   *)

ASSUME RefreshAssumption == AutoRefresh \in BOOLEAN

VARIABLES
  phase,         (* "idle", "waking", "refreshing", "signal", "answering"  *)
                 (* or "stopped"                                           *)
  req,           (* "none", "asked", "served", "answered" or "aborted"     *)
  closing        (* whether the manager's context is cancelled             *)

cycleVars == <<phase, req, closing>>

CycleTypeOK ==
  /\ phase \in {"idle", "waking", "refreshing", "signal", "answering", "stopped"}
  /\ req \in [Request -> {"none", "asked", "served", "answered", "aborted"}]
  /\ closing \in BOOLEAN

CycleInit ==
  /\ phase = IF AutoRefresh THEN "refreshing" ELSE "idle"
  /\ req = [q \in Request |-> "none"]
  /\ closing = FALSE

Ask(q) ==
  /\ req[q] = "none"
  /\ req' = [req EXCEPT ![q] = "asked"]
  /\ UNCHANGED <<phase, closing>>

CancelAsked(q) ==
  /\ closing
  /\ req[q] = "asked"
  /\ req' = [req EXCEPT ![q] = "aborted"]
  /\ UNCHANGED <<phase, closing>>

(* By the ticker, a request, or somebody who does not wait for an answer.  *)
Wake ==
  /\ phase = "idle"
  /\ phase' = "waking"
  /\ UNCHANGED <<req, closing>>

BeginRefresh(served) ==
  /\ phase = "waking"
  /\ \A q \in served : req[q] = "asked"
  /\ phase' = "refreshing"
  /\ req' = [q \in Request |-> IF q \in served THEN "served" ELSE req[q]]
  /\ UNCHANGED closing

(* A refresh that stops at a gap in the table does not signal its end.     *)
EndQueries ==
  /\ phase = "refreshing"
  /\ phase' \in {"signal", "answering"}
  /\ UNCHANGED <<req, closing>>

SignalTaken ==
  /\ phase = "signal"
  /\ phase' = "answering"
  /\ UNCHANGED <<req, closing>>

SignalDropped == closing /\ SignalTaken

AnswerServed ==
  /\ phase = "answering"
  /\ phase' = "idle"
  /\ req' = [q \in Request |-> IF req[q] = "served" THEN "answered" ELSE req[q]]
  /\ UNCHANGED closing

CloseManager ==
  /\ closing' = TRUE
  /\ UNCHANGED <<phase, req>>

StopManager ==
  /\ phase = "idle"
  /\ closing
  /\ phase' = "stopped"
  /\ UNCHANGED <<req, closing>>

CycleNext ==
  \/ \E q \in Request : Ask(q) \/ CancelAsked(q)
  \/ \E served \in SUBSET Request : BeginRefresh(served)
  \/ Wake \/ EndQueries \/ SignalTaken \/ AnswerServed \/ CloseManager \/ StopManager

CycleSpec == CycleInit /\ [][CycleNext]_cycleVars
=============================================================================
