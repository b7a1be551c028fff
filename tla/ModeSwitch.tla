----------------------------- MODULE ModeSwitch -----------------------------
(***************************************************************************)
(* The switch between client and server mode (dht.go, setMode and the two  *)
(* moves), which the event loop of subscriber_notifee.go drives, and the   *)
(* inbound streams (dht_net.go), each served by a goroutine of its own.    *)
(*                                                                         *)
(* The event loop takes the events in order and holds modeLk for a whole   *)
(* switch; a stream's goroutine takes it to read the mode before it reads  *)
(* a message.  The step between the choice of a stream's handler and the   *)
(* moment the stream carries its protocol, when a switch can see it, is    *)
(* libp2p's.                                                               *)
(***************************************************************************)
EXTENDS Naturals, Sequences, FiniteSets, SequencesExt

CONSTANTS
  Stream,     (* inbound streams                                           *)
  Auto,       (* dht.auto: "auto" or "autoserver"                          *)
  MaxEvents   (* bound on the reachability events                          *)

VARIABLES
  mode,       (* dht.mode                                                  *)
  handlers,   (* the host has the stream handlers                          *)
  switch,     (* of moveToClientMode: idle, removing, closing              *)
  toReset,    (* streams it has found and not reset yet                    *)
  events,     (* the event loop's channel                                  *)
  arrived,    (* all the events that ever were                             *)
  st,         (* per stream: where it is                                   *)
  reset       (* streams that this side has reset                          *)

switchVars == <<mode, handlers, switch, toReset, events, arrived>>
vars == <<switchVars, st, reset>>

Reachability == {"private", "unknown", "public"}

TypeOK ==
  /\ mode \in {"client", "server"}
  /\ handlers \in BOOLEAN
  /\ switch \in {"idle", "removing", "closing"}
  /\ toReset \subseteq Stream
  /\ {events, arrived} \subseteq Seq(Reachability)
  /\ IsSuffix(events, arrived)
  /\ st \in [Stream -> {"none", "chosen", "opened", "checking", "reading", "handling", "ended"}]
  /\ reset \subseteq Stream

InitialMode == IF Auto = "autoserver" THEN "server" ELSE "client"

Init ==
  /\ mode = InitialMode
  /\ handlers = (InitialMode = "server")
  /\ switch = "idle"
  /\ toReset = {}
  /\ events = <<>>
  /\ arrived = <<>>
  /\ st = [s \in Stream |-> "none"]
  /\ reset = {}

-----------------------------------------------------------------------------
(* The event loop.                                                         *)

Target(e) == CASE e = "private" -> "client"
               [] e = "public"  -> "server"
               [] e = "unknown" -> InitialMode

Emit(e) ==
  /\ Len(arrived) < MaxEvents
  /\ events' = Append(events, e)
  /\ arrived' = Append(arrived, e)
  /\ UNCHANGED <<mode, handlers, switch, toReset, st, reset>>

LockFree == switch = "idle"

NextEvent == LockFree /\ events # <<>>

(* The mode is the one asked for already.                                  *)
StaysSame ==
  /\ NextEvent
  /\ Target(Head(events)) = mode
  /\ events' = Tail(events)
  /\ UNCHANGED <<mode, handlers, switch, toReset, arrived, st, reset>>

MoveToServer ==
  /\ NextEvent
  /\ mode = "client"
  /\ Target(Head(events)) = "server"
  /\ mode' = "server"
  /\ handlers' = TRUE
  /\ events' = Tail(events)
  /\ UNCHANGED <<switch, toReset, arrived, st, reset>>

MoveToClient ==
  /\ NextEvent
  /\ mode = "server"
  /\ Target(Head(events)) = "client"
  /\ mode' = "client"
  /\ switch' = "removing"
  /\ events' = Tail(events)
  /\ UNCHANGED <<handlers, toReset, arrived, st, reset>>

(* The snapshot of the inbound streams that carry a served protocol.       *)
Carrying == {s \in Stream : st[s] \notin {"none", "chosen", "ended"}}

RemoveHandlers_Kept ==
  /\ switch = "removing"
  /\ switch' = "closing"
  /\ toReset' = Carrying
  /\ UNCHANGED <<mode, handlers, events, arrived, st, reset>>

RemoveHandlers ==
  /\ switch = "removing"
  /\ handlers' = FALSE
  /\ switch' = "closing"
  /\ toReset' = Carrying
  /\ UNCHANGED <<mode, events, arrived, st, reset>>

ResetStream(s) ==
  /\ switch = "closing"
  /\ s \in toReset
  /\ toReset' = toReset \ {s}
  /\ reset' = reset \cup {s}
  /\ UNCHANGED <<mode, handlers, switch, events, arrived, st>>

Moved ==
  /\ switch = "closing"
  /\ toReset = {}
  /\ switch' = "idle"
  /\ UNCHANGED <<mode, handlers, toReset, events, arrived, st, reset>>

EventLoop ==
  \/ StaysSame
  \/ MoveToServer
  \/ MoveToClient
  \/ RemoveHandlers
  \/ \E s \in Stream : ResetStream(s)
  \/ Moved

-----------------------------------------------------------------------------
(* The streams.                                                            *)

Goes(s, from, to) == st[s] = from /\ st' = [st EXCEPT ![s] = to]

(* The goroutine returns an error: the stream is reset.                    *)
Fails(s, from) == Goes(s, from, "ended") /\ reset' = reset \cup {s} /\ UNCHANGED switchVars

Negotiate(s) ==
  /\ handlers
  /\ Goes(s, "none", "chosen")
  /\ UNCHANGED <<switchVars, reset>>

SetProtocol(s) == Goes(s, "chosen", "opened") /\ UNCHANGED <<switchVars, reset>>

(* handleNewMessage begins, with its idle timer.                           *)
Begin(s) == Goes(s, "opened", "checking") /\ UNCHANGED <<switchVars, reset>>

CheckMode_Dropped(s) == Goes(s, "checking", "reading") /\ UNCHANGED <<switchVars, reset>>

CheckMode(s) ==
  /\ LockFree
  /\ IF mode = "server"
     THEN Goes(s, "checking", "reading") /\ UNCHANGED <<switchVars, reset>>
     ELSE Fails(s, "checking")

(* A FIND_NODE or a PING.                                                  *)
ReadMsg(s) ==
  /\ s \notin reset
  /\ Goes(s, "reading", "handling")
  /\ UNCHANGED <<switchVars, reset>>

(* The message is malformed, its type has no handler, the handler returns  *)
(* an error, or the stream was reset.                                      *)
ReadFails(s)   == Fails(s, "reading")
NoHandler(s)   == Fails(s, "handling")
HandleFails(s) == Fails(s, "handling")
EndOfStream(s) == s \notin reset /\ Goes(s, "reading", "ended") /\ UNCHANGED <<switchVars, reset>>

Answer(s) ==
  /\ s \notin reset
  /\ Goes(s, "handling", "checking")
  /\ UNCHANGED <<switchVars, reset>>

(* The idle timer, which each message sets back.                           *)
IdleTimeout(s) ==
  /\ st[s] \in {"checking", "reading", "handling"}
  /\ s \notin reset
  /\ reset' = reset \cup {s}
  /\ UNCHANGED <<switchVars, st>>

Serve(s) ==
  \/ SetProtocol(s)
  \/ Begin(s)
  \/ CheckMode(s)
  \/ ReadMsg(s)
  \/ EndOfStream(s)
  \/ ReadFails(s)
  \/ NoHandler(s)
  \/ HandleFails(s)
  \/ Answer(s)

Next ==
  \/ \E e \in Reachability : Emit(e)
  \/ EventLoop
  \/ \E s \in Stream : Negotiate(s) \/ Serve(s) \/ IdleTimeout(s)

Spec == Init /\ [][Next]_vars

FairSpec == Spec /\ WF_vars(EventLoop)
-----------------------------------------------------------------------------
(* Once a switch to client mode is complete, no stream is served: each one *)
(* whose goroutine had seen server mode has been reset, so that it can     *)
(* neither read another message nor write the answer to the one it has.    *)
ClientServesNone ==
  mode = "client" /\ LockFree =>
    \A s \in Stream : st[s] \in {"reading", "handling"} => s \in reset

(* When the events stop, the mode and the handlers the host has are those  *)
(* of the last event, whatever was in flight.                              *)
ModeFollows ==
  <>[](arrived = <<>> \/ (mode = Target(Last(arrived)) /\ handlers = (mode = "server")))
=============================================================================
