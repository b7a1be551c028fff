------------------------------ MODULE Provide -------------------------------
(***************************************************************************)
(* Announcing a key (routing.go: Provide, classicProvide, Advertise;       *)
(* pb/protocol_messenger.go: PutProvider): one call, which looks for the   *)
(* peers closest to the key with a part of the caller's time kept back,    *)
(* then sends all of them the record in parallel.                          *)
(*                                                                         *)
(* The lookup is GetClosestPeers (module Lookup); here it is what it       *)
(* returns.  No time is measured: the lookup's deadline comes before the   *)
(* caller's.                                                               *)
(***************************************************************************)
EXTENDS FiniteSets

CONSTANTS Peer        (* the peers the lookup may find                      *)

VARIABLES
  phase,        (* idle, searching, putting, returned                      *)
  broadcast,    (* the argument brdcst                                     *)
  limited,      (* the caller's context has a deadline                     *)
  ctx,          (* the caller's context: live, late, cancelled             *)
  closerCtx,    (* the lookup's                                            *)
  found,        (* the peers the lookup returned                           *)
  exceeded,     (* exceededDeadline                                        *)
  put,          (* per peer: none, sending, sent, refused, cutOff          *)
  result        (* none, ok, late, cancelled, failed                       *)

vars == <<phase, broadcast, limited, ctx, closerCtx, found, exceeded, put, result>>
callVars == <<broadcast, limited>>

Err(c) == IF c = "live" THEN "ok" ELSE c

TypeOK ==
  /\ phase \in {"idle", "searching", "putting", "returned"}
  /\ broadcast \in BOOLEAN /\ limited \in BOOLEAN /\ exceeded \in BOOLEAN
  /\ ctx \in {"live", "late", "cancelled"}
  /\ closerCtx \in {"live", "late", "cancelled"}
  /\ found \subseteq Peer
  /\ put \in [Peer -> {"none", "sending", "sent", "refused", "cutOff"}]
  /\ result \in {"none", "ok", "late", "cancelled", "failed"}

Init ==
  /\ phase = "idle"
  /\ broadcast = FALSE
  /\ limited = FALSE
  /\ ctx = "live"
  /\ closerCtx = "live"
  /\ found = {}
  /\ exceeded = FALSE
  /\ put = [p \in Peer |-> "none"]
  /\ result = "none"

Returns(r) == phase' = "returned" /\ result' = r

(* The provider store has the record by now (module ProviderManager; its   *)
(* error is ignored), and without brdcst that is all.  A context whose     *)
(* deadline is over is not worth a lookup.                                 *)
Begin(b, l, c) ==
  /\ phase = "idle"
  /\ c = "late" => l
  /\ broadcast' = b /\ limited' = l /\ ctx' = c /\ closerCtx' = c
  /\ CASE ~ b               -> Returns("ok")
       [] b /\ c = "late"   -> Returns("late")
       [] b /\ c # "late"   -> phase' = "searching" /\ UNCHANGED result
  /\ UNCHANGED <<found, exceeded, put>>

-----------------------------------------------------------------------------
(* The lookup's deadline is over: a tenth or a second before the caller's. *)
ShareUsed ==
  /\ limited /\ phase = "searching" /\ closerCtx = "live"
  /\ closerCtx' = "late"
  /\ UNCHANGED <<phase, callVars, ctx, found, exceeded, put, result>>

(* The caller's context ends, and with it the lookup's.                    *)
CtxEnds(how) ==
  /\ ctx = "live" /\ phase \in {"searching", "putting"}
  /\ how = "late" => limited /\ (phase = "searching" => closerCtx = "late")
  /\ ctx' = how
  /\ closerCtx' = IF closerCtx = "live" THEN how ELSE closerCtx
  /\ UNCHANGED <<phase, callVars, found, exceeded, put, result>>

-----------------------------------------------------------------------------
(* The table has no peer to start from, or the lookup was cancelled.       *)
SearchFails ==
  /\ phase = "searching"
  /\ \/ Returns("failed")
     \/ closerCtx = "cancelled" /\ Returns("cancelled")
  /\ UNCHANGED <<callVars, ctx, closerCtx, found, exceeded, put>>

StartPuts(ps) ==
  /\ phase' = "putting"
  /\ found' = ps
  /\ put' = [p \in Peer |-> IF p \in ps THEN "sending" ELSE "none"]

SearchEnds ==
  /\ phase = "searching" /\ closerCtx = "live"
  /\ \E ps \in SUBSET Peer : StartPuts(ps)
  /\ UNCHANGED <<callVars, ctx, closerCtx, exceeded, result>>

(* Out of time: the record goes to the closest peers found so far, unless  *)
(* the caller's time is over as well.                                      *)
SearchLate ==
  /\ phase = "searching" /\ closerCtx = "late"
  /\ IF ctx # "live"
     THEN Returns(ctx) /\ UNCHANGED <<found, exceeded, put>>
     ELSE /\ \E ps \in SUBSET Peer : StartPuts(ps)
          /\ exceeded' = TRUE
          /\ UNCHANGED result
  /\ UNCHANGED <<callVars, ctx, closerCtx>>

(* A goroutine's PutProvider: the message goes out, or it does not because *)
(* this node has no address, or the peer is not reached, or the caller's   *)
(* context is over.  Either way the goroutine is done.                     *)
PutEnds_WithSearch(p) ==
  /\ put[p] = "sending"
  /\ \/ put' = [put EXCEPT ![p] = "sent"]
     \/ put' = [put EXCEPT ![p] = "refused"]
     \/ closerCtx # "live" /\ put' = [put EXCEPT ![p] = "cutOff"]
  /\ UNCHANGED <<phase, callVars, ctx, closerCtx, found, exceeded, result>>

PutEnds(p) ==
  /\ put[p] = "sending"
  /\ \/ put' = [put EXCEPT ![p] = "sent"]
     \/ put' = [put EXCEPT ![p] = "refused"]
     \/ ctx # "live" /\ put' = [put EXCEPT ![p] = "cutOff"]
  /\ UNCHANGED <<phase, callVars, ctx, closerCtx, found, exceeded, result>>

(* wg.Wait                                                                 *)
PutsDone ==
  /\ phase = "putting"
  /\ \A p \in Peer : put[p] # "sending"
  /\ Returns(IF exceeded THEN "late" ELSE Err(ctx))
  /\ UNCHANGED <<callVars, ctx, closerCtx, found, exceeded, put>>

Next ==
  \/ \E b, l \in BOOLEAN, c \in {"live", "late", "cancelled"} : Begin(b, l, c)
  \/ ShareUsed
  \/ \E how \in {"late", "cancelled"} : CtxEnds(how)
  \/ SearchFails
  \/ SearchEnds
  \/ SearchLate
  \/ \E p \in Peer : PutEnds(p)
  \/ PutsDone

Spec == Init /\ [][Next]_vars
-----------------------------------------------------------------------------
(* What an announcement's outcome says: without an error the lookup was    *)
(* complete, the caller's time was not over while records were sent, and   *)
(* every peer found was sent one or could not be reached; a lookup that    *)
(* ran out of its own time only still has its peers told; and nothing is   *)
(* under way once the call has returned.  (That no peer at all took the    *)
(* record is no error.)                                                    *)
OutcomeIsTrue ==
  phase = "returned" =>
    /\ \A p \in Peer : put[p] # "sending"
    /\ result = "ok" /\ broadcast =>
         ~ exceeded /\ \A p \in found : put[p] \in {"sent", "refused"}
    /\ result = "late" /\ ctx = "live" => exceeded
    /\ \A p \in found : put[p] = "cutOff" => ctx # "live"
=============================================================================
