-------------------------------- MODULE Ping --------------------------------
(***************************************************************************)
(* Both ends of one ping stream (ping/ping.go).  The client's goroutine    *)
(* pings, and passes each result to an unbuffered channel, until its       *)
(* context ends; another one resets the stream then.  The server's         *)
(* goroutine echoes; another one closes the stream when the idle timer     *)
(* fires or the echo fails.                                                *)
(***************************************************************************)
EXTENDS Naturals

CONSTANT Rounds   (* bound on the pings, after which the client is silent  *)

VARIABLES
  client,    (* opening, writing, reading, passing a result, done          *)
  round,     (* the ping under way                                         *)
  result,    (* of that ping: none, ok, error                              *)
  ctxDone,   (* the client's context has ended                             *)
  wire,      (* what is on the stream: none, ping, pong                    *)
  reset,     (* the stream has been reset                                  *)
  server,    (* none, reading, writing, done                               *)
  watcher,   (* the server's second goroutine: none, waiting, done         *)
  errCh,     (* an error is in its channel                                 *)
  closed     (* the server has closed the stream                           *)

clientVars == <<client, round, result, ctxDone>>
serverVars == <<server, watcher, errCh, closed>>
vars == <<clientVars, wire, reset, serverVars>>

TypeOK ==
  /\ client \in {"opening", "writing", "reading", "passing", "done"}
  /\ round \in 0 .. Rounds
  /\ result \in {"none", "ok", "error"}
  /\ ctxDone \in BOOLEAN
  /\ wire \in {"none", "ping", "pong"}
  /\ reset \in BOOLEAN
  /\ server \in {"none", "reading", "writing", "done"}
  /\ watcher \in {"none", "waiting", "done"}
  /\ errCh \in BOOLEAN
  /\ closed \in BOOLEAN

Init ==
  /\ client = "opening"
  /\ round = 0
  /\ result = "none"
  /\ ctxDone = FALSE
  /\ wire = "none"
  /\ reset = FALSE
  /\ server = "none"
  /\ watcher = "none"
  /\ errCh = FALSE
  /\ closed = FALSE

-----------------------------------------------------------------------------
(* The client.  When the stream cannot be opened, pingError answers.       *)
OpenFails ==
  /\ client = "opening"
  /\ client' = "done"
  /\ result' = "error"
  /\ UNCHANGED <<round, ctxDone, wire, reset, serverVars>>

Open ==
  /\ client = "opening"
  /\ client' = "writing"
  /\ server' = "reading"
  /\ watcher' = "waiting"
  /\ UNCHANGED <<round, result, ctxDone, wire, reset, errCh, closed>>

(* The loop stops when the context has ended.                              *)
Again == IF ctxDone THEN "done" ELSE "writing"

Write ==
  /\ client = "writing"
  /\ ~ ctxDone
  /\ ~ reset
  /\ round < Rounds
  /\ round' = round + 1
  /\ wire' = IF closed THEN wire ELSE "ping"
  /\ client' = "reading"
  /\ result' = "none"
  /\ UNCHANGED <<ctxDone, reset, serverVars>>

(* The reply is compared with what was sent.                               *)
Read ==
  /\ client = "reading"
  /\ wire = "pong"
  /\ ~ reset
  /\ wire' = "none"
  /\ \E r \in {"ok", "error"} : result' = r
  /\ client' = IF ctxDone THEN "done" ELSE "passing"
  /\ UNCHANGED <<round, ctxDone, reset, serverVars>>

PingFails ==
  /\ \/ client = "writing" /\ ~ ctxDone
     \/ client = "reading" /\ (reset \/ (closed /\ wire # "pong"))
  /\ result' = "error"
  /\ client' = IF ctxDone THEN "done" ELSE "passing"
  /\ UNCHANGED <<round, ctxDone, wire, reset, serverVars>>

LoopStops_BetweenPings ==
  /\ client = "writing"
  /\ ctxDone
  /\ client' = "done"
  /\ UNCHANGED <<round, result, ctxDone, wire, reset, serverVars>>

(* The select that passes a result also waits for the context.             *)
LoopStops ==
  /\ client \in {"writing", "passing"}
  /\ ctxDone
  /\ client' = "done"
  /\ UNCHANGED <<round, result, ctxDone, wire, reset, serverVars>>

(* The caller takes a result.                                              *)
Take ==
  /\ client = "passing"
  /\ client' = Again
  /\ UNCHANGED <<round, result, ctxDone, wire, reset, serverVars>>

EndContext ==
  /\ ~ ctxDone
  /\ ctxDone' = TRUE
  /\ UNCHANGED <<client, round, result, wire, reset, serverVars>>

(* The goroutine that waits for the end of the context.                    *)
Abort ==
  /\ ctxDone
  /\ server # "none"
  /\ ~ reset
  /\ reset' = TRUE
  /\ UNCHANGED <<clientVars, wire, serverVars>>

-----------------------------------------------------------------------------
(* PingHandler.                                                            *)
ReadPing ==
  /\ server = "reading"
  /\ wire = "ping"
  /\ ~ reset /\ ~ closed
  /\ server' = "writing"
  /\ wire' = "none"
  /\ UNCHANGED <<clientVars, reset, watcher, errCh, closed>>

Echo ==
  /\ server = "writing"
  /\ ~ reset /\ ~ closed
  /\ server' = "reading"
  /\ wire' = "pong"
  /\ UNCHANGED <<clientVars, reset, watcher, errCh, closed>>

HandlerFails ==
  /\ server \in {"reading", "writing"}
  /\ reset \/ closed
  /\ server' = "done"
  /\ errCh' = TRUE
  /\ UNCHANGED <<clientVars, wire, reset, watcher, closed>>

(* The idle timer, stopped when the handler returns, or its error.         *)
WatcherCloses ==
  /\ watcher = "waiting"
  /\ server # "done" \/ errCh
  /\ watcher' = "done"
  /\ closed' = TRUE
  /\ UNCHANGED <<clientVars, wire, reset, server, errCh>>

Client == OpenFails \/ Open \/ Write \/ Read \/ PingFails \/ LoopStops
Handler == ReadPing \/ Echo \/ HandlerFails

Next == Client \/ Take \/ EndContext \/ Abort \/ Handler \/ WatcherCloses

Spec == Init /\ [][Next]_vars

(* Nobody has to take the results, and nobody has to end the context.      *)
FairSpec ==
  /\ Spec
  /\ WF_vars(Client)
  /\ WF_vars(Abort)
  /\ WF_vars(Handler)
  /\ WF_vars(WatcherCloses)
-----------------------------------------------------------------------------
(* Once the context has ended, the client's goroutine ends, though no      *)
(* reply comes and nobody takes the results, and so do both of the         *)
(* server's, which also end when a client is silent.                       *)
PingEnds ==
  /\ ctxDone ~> client = "done"
  /\ server # "none" ~> (server = "done" /\ watcher = "done")
=============================================================================
