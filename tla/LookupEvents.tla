---------------------------- MODULE LookupEvents ----------------------------
(***************************************************************************)
(* A registration for lookup events (events.go): an event channel with a   *)
(* buffer, written by every lookup that runs under the registered context, *)
(* and closed by a goroutine of its own when that context ends.  A send    *)
(* holds the channel's mutex while it waits for room.                      *)
(***************************************************************************)
EXTENDS Naturals

CONSTANTS
  Lookup,       (* the lookups, each with a context below the registered   *)
  BufferSize,   (* LookupEventBufferSize                                   *)
  None          (* nobody holds the mutex                                  *)

VARIABLES
  at,       (* per lookup: out, wanting the mutex, in the select of send   *)
  mu,       (* who holds the mutex                                         *)
  ended,    (* lookups whose own context has ended                         *)
  ctxDone,  (* the registered context has ended                            *)
  buffered, (* events in the channel                                       *)
  closed    (* the channel is closed, and forgotten                        *)

vars == <<at, mu, ended, ctxDone, buffered, closed>>

TypeOK ==
  /\ at \in [Lookup -> {"out", "wanting", "sending"}]
  /\ mu \in Lookup \cup {None}
  /\ ended \subseteq Lookup
  /\ ctxDone \in BOOLEAN
  /\ buffered \in 0 .. BufferSize
  /\ closed \in BOOLEAN

Init ==
  /\ at = [l \in Lookup |-> "out"]
  /\ mu = None
  /\ ended = {}
  /\ ctxDone = FALSE
  /\ buffered = 0
  /\ closed = FALSE

Publish(l) ==
  /\ at[l] = "out"
  /\ at' = [at EXCEPT ![l] = "wanting"]
  /\ UNCHANGED <<mu, ended, ctxDone, buffered, closed>>

(* send: nothing to do once the channel is closed.                         *)
SendLocks(l) ==
  /\ at[l] = "wanting"
  /\ mu = None
  /\ IF closed
     THEN at' = [at EXCEPT ![l] = "out"] /\ UNCHANGED mu
     ELSE at' = [at EXCEPT ![l] = "sending"] /\ mu' = l
  /\ UNCHANGED <<ended, ctxDone, buffered, closed>>

Unlocks(l) == at[l] = "sending" /\ at' = [at EXCEPT ![l] = "out"] /\ mu' = None

Sends(l) ==
  /\ Unlocks(l)
  /\ buffered < BufferSize
  /\ buffered' = buffered + 1
  /\ UNCHANGED <<ended, ctxDone, closed>>

Aborts_OwnOnly(l) ==
  /\ Unlocks(l)
  /\ l \in ended
  /\ UNCHANGED <<ended, ctxDone, buffered, closed>>

Aborts(l) ==
  /\ Unlocks(l)
  /\ ctxDone \/ l \in ended
  /\ UNCHANGED <<ended, ctxDone, buffered, closed>>

(* waitThenClose, on either side of its wait for the mutex.                *)
WaitThenClose ==
  /\ ctxDone
  /\ ~ closed
  /\ mu = None
  /\ closed' = TRUE
  /\ UNCHANGED <<at, mu, ended, ctxDone, buffered>>

(* The one who registered, and the callers of the lookups.                 *)
Receive ==
  /\ buffered > 0
  /\ buffered' = buffered - 1
  /\ UNCHANGED <<at, mu, ended, ctxDone, closed>>

EndRegistration ==
  /\ ~ ctxDone
  /\ ctxDone' = TRUE
  /\ UNCHANGED <<at, mu, ended, buffered, closed>>

EndLookup(l) ==
  /\ l \notin ended
  /\ ended' = ended \cup {l}
  /\ UNCHANGED <<at, mu, ctxDone, buffered, closed>>

Send(l) == SendLocks(l) \/ Sends(l) \/ Aborts(l)

Next ==
  \/ \E l \in Lookup : Publish(l) \/ Send(l) \/ EndLookup(l)
  \/ WaitThenClose
  \/ Receive
  \/ EndRegistration

Spec == Init /\ [][Next]_vars

(* A mutex of Go hands itself to one who has waited long.  Nobody has to   *)
(* receive, and no context has to end.                                     *)
FairSpec ==
  /\ Spec
  /\ SF_vars(WaitThenClose)
  /\ \A l \in Lookup : SF_vars(SendLocks(l)) /\ WF_vars(Sends(l) \/ Aborts(l))
-----------------------------------------------------------------------------
(* The channel is closed once the registered context has ended, though     *)
(* nobody receives and senders hold the mutex of the full channel; no send *)
(* is stuck then, and none finds the channel closed under it, which would  *)
(* panic.                                                                  *)
ClosedAtTheEnd ==
  /\ ctxDone ~> closed
  /\ \A l \in Lookup : (ctxDone /\ at[l] # "out") ~> at[l] = "out"
  /\ [](closed => \A l \in Lookup : at[l] # "sending")
=============================================================================
