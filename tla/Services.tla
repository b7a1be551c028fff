------------------------------ MODULE Services ------------------------------
(***************************************************************************)
(* The components that share no state with each other, side by side: in    *)
(* each behaviour one of them, part, takes all the steps, and the others   *)
(* stay in their initial states.  A property of a component says something *)
(* of the behaviours in which that component moves.  The constants are the *)
(* components', each with its component's prefix.                          *)
(***************************************************************************)
EXTENDS Naturals

CONSTANTS
  MS_Stream, MS_Auto, MS_MaxEvents,
  PS_MaxJoins, PS_MaxSubs, PS_MaxMessages, PS_Room,
  LE_Lookup, LE_BufferSize, LE_None,
  NT_Peer, NT_Mode, NT_Handler, NT_Caller, NT_Disc,
  NT_NoPeer, NT_NoMode, NT_BucketSize, NT_MaxTables,
  ST_Stream, ST_Peer, ST_Buffer, ST_NoStream, ST_NoBuffer, ST_MaxRetries,
  PI_Rounds,
  PR_Peer,
  NS_Caller, NS_MaxAge, NS_Min, NS_Most, NS_MaxTime, NS_MaxLookups

(* No peer, mode or lookup is the value that stands for none of them, and  *)
(* the numbers are numbers.                                                *)
ASSUME ServicesAssumption ==
  /\ PS_MaxSubs \in Nat
  /\ LE_None \notin LE_Lookup
  /\ NT_NoPeer \notin NT_Peer
  /\ NT_NoMode \notin NT_Mode
  /\ {NT_BucketSize, NT_MaxTables} \subseteq Nat
  /\ {NS_MaxAge, NS_Min, NS_Most} \subseteq Nat

VARIABLE part

(* The mode switch                                                         *)
VARIABLES
  MS_mode, MS_handlers, MS_switch, MS_toReset, MS_events, MS_arrived,
  MS_st, MS_reset
MSv ==
  <<MS_mode, MS_handlers, MS_switch, MS_toReset, MS_events, MS_arrived,
    MS_st, MS_reset>>
MS == INSTANCE ModeSwitch WITH
  Stream <- MS_Stream, Auto <- MS_Auto, MaxEvents <- MS_MaxEvents,
  mode <- MS_mode, handlers <- MS_handlers, switch <- MS_switch,
  toReset <- MS_toReset, events <- MS_events, arrived <- MS_arrived,
  st <- MS_st, reset <- MS_reset

(* Topic subscriptions                                                     *)
VARIABLES
  PS_startUp, PS_ctxDone, PS_topic, PS_joins, PS_open, PS_subscribed,
  PS_pending, PS_handleOf, PS_live, PS_buf, PS_loops, PS_last, PS_kinds,
  PS_handled
PSv ==
  <<PS_startUp, PS_ctxDone, PS_topic, PS_joins, PS_open, PS_subscribed,
    PS_pending, PS_handleOf, PS_live, PS_buf, PS_loops, PS_last, PS_kinds,
    PS_handled>>
PS == INSTANCE PubSub WITH
  MaxJoins <- PS_MaxJoins, MaxSubs <- PS_MaxSubs,
  MaxMessages <- PS_MaxMessages, Room <- PS_Room, startUp <- PS_startUp,
  ctxDone <- PS_ctxDone, topic <- PS_topic, joins <- PS_joins,
  open <- PS_open, subscribed <- PS_subscribed, pending <- PS_pending,
  handleOf <- PS_handleOf, live <- PS_live, buf <- PS_buf,
  loops <- PS_loops, last <- PS_last, kinds <- PS_kinds,
  handled <- PS_handled

(* Lookup events                                                           *)
VARIABLES
  LE_at, LE_mu, LE_ended, LE_ctxDone, LE_buffered, LE_closed
LEv ==
  <<LE_at, LE_mu, LE_ended, LE_ctxDone, LE_buffered, LE_closed>>
LE == INSTANCE LookupEvents WITH
  Lookup <- LE_Lookup, BufferSize <- LE_BufferSize, None <- LE_None,
  at <- LE_at, mu <- LE_mu, ended <- LE_ended, ctxDone <- LE_ctxDone,
  buffered <- LE_buffered, closed <- LE_closed

(* Node tables                                                             *)
VARIABLES
  NT_phase, NT_tables, NT_content, NT_made, NT_writes, NT_conn, NT_at,
  NT_job, NT_got, NT_muHeld, NT_fatal
NTv ==
  <<NT_phase, NT_tables, NT_content, NT_made, NT_writes, NT_conn, NT_at,
    NT_job, NT_got, NT_muHeld, NT_fatal>>
NT == INSTANCE NodeTables WITH
  Peer <- NT_Peer, Mode <- NT_Mode, Handler <- NT_Handler,
  Caller <- NT_Caller, Disc <- NT_Disc, NoPeer <- NT_NoPeer,
  NoMode <- NT_NoMode, BucketSize <- NT_BucketSize,
  MaxTables <- NT_MaxTables, phase <- NT_phase, tables <- NT_tables,
  content <- NT_content, made <- NT_made, writes <- NT_writes,
  conn <- NT_conn, at <- NT_at, job <- NT_job, got <- NT_got,
  muHeld <- NT_muHeld, fatal <- NT_fatal

(* Request streams                                                         *)
VARIABLES
  ST_kind, ST_at, ST_peerOf, ST_attempt, ST_cut, ST_buffer, ST_free,
  ST_content, ST_request, ST_protected
STv ==
  <<ST_kind, ST_at, ST_peerOf, ST_attempt, ST_cut, ST_buffer, ST_free,
    ST_content, ST_request, ST_protected>>
ST == INSTANCE Streams WITH
  Stream <- ST_Stream, Peer <- ST_Peer, Buffer <- ST_Buffer,
  NoStream <- ST_NoStream, NoBuffer <- ST_NoBuffer,
  MaxRetries <- ST_MaxRetries, kind <- ST_kind, at <- ST_at,
  peerOf <- ST_peerOf, attempt <- ST_attempt, cut <- ST_cut,
  buffer <- ST_buffer, free <- ST_free, content <- ST_content,
  request <- ST_request, protected <- ST_protected

(* The ping service                                                        *)
VARIABLES
  PI_client, PI_round, PI_result, PI_ctxDone, PI_wire, PI_reset, PI_server,
  PI_watcher, PI_errCh, PI_closed
PIv ==
  <<PI_client, PI_round, PI_result, PI_ctxDone, PI_wire, PI_reset,
    PI_server, PI_watcher, PI_errCh, PI_closed>>
PI == INSTANCE Ping WITH
  Rounds <- PI_Rounds, client <- PI_client, round <- PI_round,
  result <- PI_result, ctxDone <- PI_ctxDone, wire <- PI_wire,
  reset <- PI_reset, server <- PI_server, watcher <- PI_watcher,
  errCh <- PI_errCh, closed <- PI_closed

(* An announcement                                                         *)
VARIABLES
  PR_phase, PR_broadcast, PR_limited, PR_ctx, PR_closerCtx, PR_found,
  PR_exceeded, PR_put, PR_result
PRv ==
  <<PR_phase, PR_broadcast, PR_limited, PR_ctx, PR_closerCtx, PR_found,
    PR_exceeded, PR_put, PR_result>>
PR == INSTANCE Provide WITH
  Peer <- PR_Peer, phase <- PR_phase, broadcast <- PR_broadcast,
  limited <- PR_limited, ctx <- PR_ctx, closerCtx <- PR_closerCtx,
  found <- PR_found, exceeded <- PR_exceeded, put <- PR_put,
  result <- PR_result

(* The size estimator                                                      *)
VARIABLES
  NS_now, NS_measurements, NS_cache, NS_tracked, NS_at, NS_seen, NS_answer
NSv ==
  <<NS_now, NS_measurements, NS_cache, NS_tracked, NS_at, NS_seen,
    NS_answer>>
NS == INSTANCE Netsize WITH
  Caller <- NS_Caller, MaxAge <- NS_MaxAge, Min <- NS_Min, Most <- NS_Most,
  MaxTime <- NS_MaxTime, MaxLookups <- NS_MaxLookups, now <- NS_now,
  measurements <- NS_measurements, cache <- NS_cache, tracked <- NS_tracked,
  at <- NS_at, seen <- NS_seen, answer <- NS_answer

vars == <<part, MSv, PSv, LEv, NTv, STv, PIv, PRv, NSv>>

(* The one component that begins in several states begins in one of them   *)
(* when it does not move.                                                  *)
Init ==
  /\ part \in {"MS", "PS", "LE", "NT", "ST", "PI", "PR", "NS"}
  /\ MS!Init
  /\ PS!Init
  /\ LE!Init
  /\ NT!Init
  /\ ST!Init /\ (part # "ST" => ST_kind = "rw")
  /\ PI!Init
  /\ PR!Init
  /\ NS!Init

(* Only the part named moves.                                              *)
Only(p) ==
  /\ part = p
  /\ UNCHANGED part
  /\ p # "MS" => UNCHANGED MSv
  /\ p # "PS" => UNCHANGED PSv
  /\ p # "LE" => UNCHANGED LEv
  /\ p # "NT" => UNCHANGED NTv
  /\ p # "ST" => UNCHANGED STv
  /\ p # "PI" => UNCHANGED PIv
  /\ p # "PR" => UNCHANGED PRv
  /\ p # "NS" => UNCHANGED NSv

Next ==
  \/ Only("MS") /\ MS!Next
  \/ Only("PS") /\ PS!Next
  \/ Only("LE") /\ LE!Next
  \/ Only("NT") /\ NT!Next
  \/ Only("ST") /\ ST!Next
  \/ Only("PI") /\ PI!Next
  \/ Only("PR") /\ PR!Next
  \/ Only("NS") /\ NS!Next

Spec == Init /\ [][Next]_vars

(* The fairness of the components' own FairSpec.                           *)
FairSpec ==
  /\ Spec
  /\ WF_vars(Only("MS") /\ MS!EventLoop)
  /\ \A s \in PS!Sub : WF_vars(Only("PS") /\ PS!Loop(s))
  /\ SF_vars(Only("LE") /\ LE!WaitThenClose)
  /\ \A l \in LE_Lookup :
       /\ SF_vars(Only("LE") /\ LE!SendLocks(l))
       /\ WF_vars(Only("LE") /\ (LE!Sends(l) \/ LE!Aborts(l)))
  /\ \A s \in ST_Stream : WF_vars(Only("ST") /\ ST!Runs(s))
  /\ WF_vars(Only("PI") /\ PI!Client)
  /\ WF_vars(Only("PI") /\ PI!Abort)
  /\ WF_vars(Only("PI") /\ PI!Handler)
  /\ WF_vars(Only("PI") /\ PI!WatcherCloses)
-----------------------------------------------------------------------------
(* Every component keeps its state within its types.                       *)
TypeOK ==
  /\ MS!TypeOK
  /\ PS!TypeOK
  /\ LE!TypeOK
  /\ NT!TypeOK
  /\ ST!TypeOK
  /\ PI!TypeOK
  /\ PR!TypeOK
  /\ NS!TypeOK

(* Client mode: no stream whose goroutine saw server mode is still served  *)
(* (dht_net.go, moveToClientMode).                                         *)
ClientServesNone == MS!ClientServesNone

(* Mode and stream handlers end up as the last reachability event asked    *)
(* (subscriber_notifee.go).                                                *)
ModeFollows == MS!ModeFollows

(* A received message is handled although its subscription is cancelled,   *)
(* unless the context, a message that does not parse or one without a      *)
(* Message ends the loop first (pubsub.go, topicSubLoop).                  *)
ReceivedIsHandled == PS!ReceivedIsHandled

(* The event channel is closed in the end, with no send stuck or late (events.go). *)
ClosedAtTheEnd == LE!ClosedAtTheEnd

(* A connected peer is in the node table of its mode, unless the table is  *)
(* full or was created twice (discover.go, host.go).                       *)
InTableUnlessReplaced == NT!InTableUnlessReplaced

(* No peer stays protected without a stream that is served (register.go).  *)
NoProtectionLeft == ST!NoProtectionLeft

(* Every request stream ends unless the peer stalls in the body (wrapper.go). *)
StreamEnds == ST!StreamEnds

(* Both sides of a ping end (ping/ping.go).                                *)
PingEnds == PI!PingEnds

(* The outcome of an announcement says what became of it (routing.go).     *)
OutcomeIsTrue == PR!OutcomeIsTrue

(* An estimate rests on enough and on the latest measurements (netsize.go). *)
AnswerIsCurrent == NS!AnswerIsCurrent
=============================================================================
