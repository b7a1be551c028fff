--------------------------- MODULE ServicesProofs ---------------------------
(***************************************************************************)
(* Theorems about the components side by side in Services, for any streams,*)
(* peers, modes, callers and bounds: a behaviour of Services is one of     *)
(* every component, and each of seven components keeps its invariant.      *)
(***************************************************************************)
EXTENDS Services, FiniteSetTheorems, SequenceTheorems, TLAPS

-----------------------------------------------------------------------------
(* A step of one component leaves the others as they are.                  *)
LEMMA StepOfParts ==
  ASSUME [Next]_vars
  PROVE  /\ [MS!Next]_(MS!vars)
         /\ [PS!Next]_(PS!vars)
         /\ [LE!Next]_(LE!vars)
         /\ [NT!Next]_(NT!vars)
         /\ [ST!Next]_(ST!vars)
         /\ [PI!Next]_(PI!vars)
         /\ [PR!Next]_(PR!vars)
         /\ [NS!Next]_(NS!vars)
<1>1. /\ UNCHANGED MSv => UNCHANGED MS!vars
      /\ UNCHANGED PSv => UNCHANGED PS!vars
      /\ UNCHANGED LEv => UNCHANGED LE!vars
      /\ UNCHANGED NTv => UNCHANGED NT!vars
      /\ UNCHANGED STv => UNCHANGED ST!vars
      /\ UNCHANGED PIv => UNCHANGED PI!vars
      /\ UNCHANGED PRv => UNCHANGED PR!vars
      /\ UNCHANGED NSv => UNCHANGED NS!vars
  BY DEF MSv, MS!vars, MS!switchVars, PSv, PS!vars, PS!topicVars, PS!subVars,
     PS!loopVars, LEv, LE!vars, NTv, NT!vars, NT!tableVars, NT!callVars,
     NT!lockVars, STv, ST!vars, ST!fixedVars, ST!dataVars, PIv, PI!vars,
     PI!clientVars, PI!serverVars, PRv, PR!vars, PR!callVars, NSv, NS!vars
<1>2. CASE UNCHANGED vars
  BY <1>1, <1>2 DEF vars
<1>3. CASE Next
  BY <1>1, <1>3 DEF Next, Only
<1> QED  BY <1>2, <1>3

(* Every behaviour of Services is a behaviour of each component: what is   *)
(* shown of a component on its own holds here.                             *)
THEOREM PartsAreComponents ==
  Spec => /\ MS!Spec /\ PS!Spec /\ LE!Spec /\ NT!Spec
          /\ ST!Spec /\ PI!Spec /\ PR!Spec /\ NS!Spec
<1>1. Init => /\ MS!Init /\ PS!Init /\ LE!Init /\ NT!Init
              /\ ST!Init /\ PI!Init /\ PR!Init /\ NS!Init
  BY DEF Init
<1> QED
  BY <1>1, StepOfParts, PTL
     DEF Spec, MS!Spec, PS!Spec, LE!Spec, NT!Spec, ST!Spec, PI!Spec, PR!Spec, NS!Spec

-----------------------------------------------------------------------------
(* The mode switch.                                                        *)

(* A switch to client mode under way has reset, or has found and is going  *)
(* to reset, every stream whose goroutine saw server mode; no goroutine    *)
(* sees it from there on.                                                  *)
Served == {s \in MS_Stream : MS_st[s] \in {"reading", "handling"}}

MSInv ==
  /\ MS_mode \in {"client", "server"}
  /\ MS_switch \in {"idle", "removing", "closing"}
  /\ MS_switch # "idle" => MS_mode = "client"
  /\ DOMAIN MS_st = MS_Stream
  /\ MS_mode = "client" /\ MS_switch = "idle" => Served \subseteq MS_reset
  /\ MS_switch = "closing" => Served \subseteq MS_reset \cup MS_toReset

LEMMA MSInitInv == MS!Init => MSInv
BY DEF MS!Init, MS!InitialMode, MSInv, Served

LEMMA MSNextInv ==
  ASSUME MSInv, [MS!Next]_(MS!vars)
  PROVE  MSInv'
<1> USE DEF MSInv, Served
<1>1. CASE UNCHANGED MS!vars
  BY <1>1 DEF MS!vars, MS!switchVars
<1>2. ASSUME NEW e \in MS!Reachability, MS!Emit(e)  PROVE MSInv'
  BY <1>2 DEF MS!Emit
<1>3. CASE MS!StaysSame
  BY <1>3 DEF MS!StaysSame
<1>4. CASE MS!MoveToServer
  BY <1>4 DEF MS!MoveToServer, MS!NextEvent, MS!LockFree
<1>5. CASE MS!MoveToClient
  BY <1>5 DEF MS!MoveToClient
<1>6. CASE MS!RemoveHandlers
  BY <1>6 DEF MS!RemoveHandlers, MS!Carrying
<1>7. ASSUME NEW s \in MS_Stream, MS!ResetStream(s)  PROVE MSInv'
  BY <1>7 DEF MS!ResetStream
<1>8. CASE MS!Moved
  BY <1>8 DEF MS!Moved
<1>9. ASSUME NEW s \in MS_Stream, MS!Negotiate(s) \/ MS!Serve(s) \/ MS!IdleTimeout(s)
      PROVE  MSInv'
  <2>1. CASE MS!CheckMode(s)
    BY <2>1 DEF MS!CheckMode, MS!LockFree, MS!Goes, MS!Fails, MS!switchVars
  <2>2. CASE MS!IdleTimeout(s)
    BY <2>2 DEF MS!IdleTimeout, MS!switchVars
  <2>3. CASE MS!ReadMsg(s)
    BY <2>3 DEF MS!ReadMsg, MS!Goes, MS!switchVars
  <2>4. CASE \/ MS!Negotiate(s) \/ MS!SetProtocol(s) \/ MS!Begin(s)
             \/ MS!EndOfStream(s) \/ MS!Answer(s)
    BY <2>4 DEF MS!Negotiate, MS!SetProtocol, MS!Begin, MS!EndOfStream, MS!Answer,
                MS!Goes, MS!switchVars
  <2>5. CASE MS!ReadFails(s) \/ MS!NoHandler(s) \/ MS!HandleFails(s)
    BY <2>5 DEF MS!ReadFails, MS!NoHandler, MS!HandleFails, MS!Fails, MS!Goes, MS!switchVars
  <2> QED  BY <1>9, <2>1, <2>2, <2>3, <2>4, <2>5 DEF MS!Serve
<1> QED
  BY <1>1, <1>2, <1>3, <1>4, <1>5, <1>6, <1>7, <1>8, <1>9 DEF MS!Next, MS!EventLoop

(* Once a switch to client mode is complete no stream is served, however   *)
(* many streams were being negotiated, read or answered when it began      *)
(* (dht.go, moveToClientMode; dht_net.go, handleNewMessage).               *)
THEOREM ClientServesNoStream == Spec => []ClientServesNone
<1>1. MSInv => ClientServesNone
  BY DEF MSInv, Served, ClientServesNone, MS!ClientServesNone, MS!LockFree
<1> QED
  BY <1>1, MSInitInv, MSNextInv, PartsAreComponents, PTL DEF MS!Spec

-----------------------------------------------------------------------------
(* Request streams.                                                        *)

STInv == DOMAIN ST_at = ST_Stream /\ NoProtectionLeft

LEMMA STInitInv == ST!Init => STInv
BY DEF ST!Init, STInv, NoProtectionLeft, ST!NoProtectionLeft

LEMMA STNextInv ==
  ASSUME STInv, [ST!Next]_(ST!vars)
  PROVE  STInv'
<1> USE DEF STInv, NoProtectionLeft, ST!NoProtectionLeft
<1>1. CASE UNCHANGED ST!vars
  BY <1>1 DEF ST!vars, ST!fixedVars
<1>2. ASSUME NEW s \in ST_Stream, ST!Open(s)  PROVE STInv'
  BY <1>2 DEF ST!Open, ST!Goes, ST!fixedVars
<1>3. ASSUME NEW s \in ST_Stream, ST!Arrives(s)  PROVE STInv'
  BY <1>3 DEF ST!Arrives, ST!HeaderRead, ST!HeaderFails, ST!BodyRead, ST!BodyFails,
     ST!Goes, ST!fixedVars
<1>4. ASSUME NEW s \in ST_Stream, ST!Runs(s)  PROVE STInv'
  <2>1. CASE ST!HeaderTimeout(s) \/ ST!Release(s) \/ ST!Handle(s) \/ ST!HandleNone(s)
    BY <2>1 DEF ST!HeaderTimeout, ST!Release, ST!Handle, ST!HandleNone, ST!Goes, ST!fixedVars
  <2>2. CASE ST!Panics(s) \/ ST!Reply(s)
    <3>1. /\ ST_protected' = ST_protected \ {ST_peerOf[s]}
          /\ \A t \in ST_Stream \ {s} : ST_at'[t] = ST_at[t]
          /\ DOMAIN ST_at' = ST_Stream
          /\ ST_peerOf' = ST_peerOf
      BY <2>2 DEF ST!Panics, ST!Reply, ST!WriteStream, ST!Unprotect, ST!Goes, ST!fixedVars
    <3> QED  BY <3>1
  <2>3. CASE ST!CloseStream(s) \/ ST!AwaitEOF(s)
    BY <2>3 DEF ST!CloseStream, ST!AwaitEOF, ST!Goes, ST!fixedVars
  <2> QED  BY <1>4, <2>1, <2>2, <2>3 DEF ST!Runs
<1> QED
  BY <1>1, <1>2, <1>3, <1>4 DEF ST!Next

(* No peer stays protected without a stream that is served, whatever the   *)
(* number of its streams and however their goroutines end (register.go,    *)
(* RegisterStreamHandler; wrapper.go, HandlerWithClose).                   *)
THEOREM NoPeerStaysProtected == Spec => []NoProtectionLeft
<1> QED
  BY STInitInv, STNextInv, PartsAreComponents, PTL DEF ST!Spec, STInv

-----------------------------------------------------------------------------
(* An announcement.                                                        *)

(* Before the records go out nobody was told of anything; while they do,   *)
(* every peer found has been or is being told, and one is cut off only by  *)
(* the end of the caller's time.                                           *)
PRInv ==
  /\ DOMAIN PR_put = PR_Peer
  /\ PR_exceeded \in BOOLEAN
  /\ PR_ctx \in {"live", "late", "cancelled"}
  /\ PR_found \subseteq PR_Peer
  /\ PR_phase \in {"idle", "searching"} =>
       PR_found = {} /\ ~ PR_exceeded /\ \A p \in PR_Peer : PR_put[p] = "none"
  /\ PR_phase = "putting" =>
       /\ \A p \in PR_found : PR_put[p] \in {"sending", "sent", "refused", "cutOff"}
       /\ \A p \in PR_found : PR_put[p] = "cutOff" => PR_ctx # "live"
  /\ OutcomeIsTrue

LEMMA PRInitInv == PR!Init => PRInv
BY DEF PR!Init, PRInv, OutcomeIsTrue, PR!OutcomeIsTrue

LEMMA PRNextInv ==
  ASSUME PRInv, [PR!Next]_(PR!vars)
  PROVE  PRInv'
<1> USE DEF PRInv, OutcomeIsTrue, PR!OutcomeIsTrue
<1>1. CASE UNCHANGED PR!vars
  BY <1>1 DEF PR!vars
<1>2. ASSUME NEW b \in BOOLEAN, NEW l \in BOOLEAN, NEW c \in {"live", "late", "cancelled"},
             PR!Begin(b, l, c)
      PROVE  PRInv'
  BY <1>2 DEF PR!Begin, PR!Returns
<1>3. CASE PR!ShareUsed
  BY <1>3 DEF PR!ShareUsed, PR!callVars
<1>4. ASSUME NEW how \in {"late", "cancelled"}, PR!CtxEnds(how)  PROVE PRInv'
  BY <1>4 DEF PR!CtxEnds, PR!callVars
<1>5. CASE PR!SearchFails
  BY <1>5 DEF PR!SearchFails, PR!Returns, PR!callVars
<1>6. CASE PR!SearchEnds
  BY <1>6 DEF PR!SearchEnds, PR!StartPuts, PR!callVars
<1>7. CASE PR!SearchLate
  <2>1. CASE PR_ctx # "live"
    BY <1>7, <2>1 DEF PR!SearchLate, PR!Returns, PR!callVars
  <2>2. CASE PR_ctx = "live"
    <3>1. PICK ps \in SUBSET PR_Peer : PR!StartPuts(ps)
      BY <1>7, <2>2 DEF PR!SearchLate
    <3> QED  BY <1>7, <2>2, <3>1 DEF PR!SearchLate, PR!StartPuts, PR!callVars
  <2> QED  BY <2>1, <2>2
<1>8. ASSUME NEW p \in PR_Peer, PR!PutEnds(p)  PROVE PRInv'
  BY <1>8 DEF PR!PutEnds, PR!callVars
<1>9. CASE PR!PutsDone
  BY <1>9 DEF PR!PutsDone, PR!Returns, PR!Err, PR!callVars
<1> QED
  BY <1>1, <1>2, <1>3, <1>4, <1>5, <1>6, <1>7, <1>8, <1>9 DEF PR!Next

(* The outcome of an announcement says what became of it, whichever of its *)
(* deadlines passes first and however the puts end (routing.go, Provide    *)
(* and classicProvide).                                                    *)
THEOREM OutcomesAreTrue == Spec => []OutcomeIsTrue
<1> QED
  BY PRInitInv, PRNextInv, PartsAreComponents, PTL DEF PR!Spec, PRInv

-----------------------------------------------------------------------------
(* Lookup events.                                                          *)

(* The mutex is held by the one lookup that sends.                         *)
LEInv ==
  /\ DOMAIN LE_at = LE_Lookup
  /\ \A l \in LE_Lookup : LE_at[l] = "sending" => LE_mu = l
  /\ LE_closed => \A l \in LE_Lookup : LE_at[l] # "sending"

LEMMA LEInitInv == LE!Init => LEInv
BY DEF LE!Init, LEInv

LEMMA LENextInv ==
  ASSUME LEInv, [LE!Next]_(LE!vars)
  PROVE  LEInv'
<1> USE DEF LEInv
<1>1. CASE UNCHANGED LE!vars
  BY <1>1 DEF LE!vars
<1>2. ASSUME NEW l \in LE_Lookup, LE!Publish(l) \/ LE!Send(l) \/ LE!EndLookup(l)
      PROVE  LEInv'
  <2>1. CASE LE!Publish(l)
    BY <2>1 DEF LE!Publish
  <2>2. CASE LE!SendLocks(l)
    BY <2>2, ServicesAssumption DEF LE!SendLocks
  <2>3. CASE LE!Sends(l) \/ LE!Aborts(l)
    BY <2>3 DEF LE!Sends, LE!Aborts, LE!Unlocks
  <2>4. CASE LE!EndLookup(l)
    BY <2>4 DEF LE!EndLookup
  <2> QED  BY <1>2, <2>1, <2>2, <2>3, <2>4 DEF LE!Send
<1>3. CASE LE!WaitThenClose
  BY <1>3, ServicesAssumption DEF LE!WaitThenClose
<1>4. CASE LE!Receive \/ LE!EndRegistration
  BY <1>4 DEF LE!Receive, LE!EndRegistration
<1> QED
  BY <1>1, <1>2, <1>3, <1>4 DEF LE!Next

(* No send is under way on a closed event channel, which would panic: the  *)
(* safety part of ClosedAtTheEnd (events.go, send and waitThenClose).      *)
THEOREM NoEventAfterClose ==
  Spec => [](LE_closed => \A l \in LE_Lookup : LE_at[l] # "sending")
<1> QED
  BY LEInitInv, LENextInv, PartsAreComponents, PTL DEF LE!Spec, LEInv

-----------------------------------------------------------------------------
(* Topic subscriptions.                                                    *)

(* A subscription that is not cancelled is read by its loop, unless that   *)
(* was ended by a message that does not parse, by the context or with the  *)
(* program; the topic counts as subscribed by such a subscription.         *)
PSInv ==
  /\ PS_kinds \in Seq(PS!Kind)
  /\ PS_buf \in [PS!Sub -> Seq(1 .. Len(PS_kinds))]
  /\ PS_last \in [PS!Sub -> 0 .. Len(PS_kinds)]
  /\ PS_live \subseteq PS!Sub
  /\ PS_subscribed \in PS!Sub => PS_subscribed \in PS_live
  /\ \A s \in PS_live \ PS_loops : PS_ctxDone \/ PS!Took(s, "bad") \/ PS!Crashed

LEMMA PSInitInv == PS!Init => PSInv
BY DEF PS!Init, PSInv, PS!Sub

(* Messages to come take nothing from those that are there.                *)
LEMMA PSDeliver ==
  ASSUME PSInv, ~ PS!Crashed, NEW k \in PS!Kind, PS!Deliver(k)
  PROVE  PSInv'
<1> USE DEF PSInv
<1>1. /\ PS_kinds' \in Seq(PS!Kind)
      /\ Len(PS_kinds') = Len(PS_kinds) + 1
      /\ \A i \in 1 .. Len(PS_kinds) : PS_kinds'[i] = PS_kinds[i]
      /\ Len(PS_kinds) \in Nat
  BY DEF PS!Deliver
<1>2. \A q \in Seq(1 .. Len(PS_kinds)) :
        /\ q \in Seq(1 .. Len(PS_kinds'))
        /\ Append(q, Len(PS_kinds')) \in Seq(1 .. Len(PS_kinds'))
  BY <1>1
<1>3. PS_buf' \in [PS!Sub -> Seq(1 .. Len(PS_kinds'))]
  BY <1>2 DEF PS!Deliver
<1>4. PS_last' \in [PS!Sub -> 0 .. Len(PS_kinds')]
  BY <1>1 DEF PS!Deliver, PS!subVars
<1>5. \A s \in PS!Sub : PS!Took(s, "bad") => PS!Took(s, "bad")'
  BY <1>1 DEF PS!Deliver, PS!Took
<1> QED
  BY <1>1, <1>3, <1>4, <1>5 DEF PS!Deliver, PS!subVars

LEMMA PSTake ==
  ASSUME PSInv, ~ PS!Crashed, NEW s \in PS!Sub, PS!Take(s)
  PROVE  PSInv'
<1> USE DEF PSInv
<1> DEFINE m == Head(PS_buf[s])
<1>1. /\ m \in 1 .. Len(PS_kinds)
      /\ Tail(PS_buf[s]) \in Seq(1 .. Len(PS_kinds))
  BY DEF PS!Take
<1>2. /\ PS_kinds' = PS_kinds
      /\ PS_buf' = [PS_buf EXCEPT ![s] = Tail(@)]
      /\ PS_last' = [PS_last EXCEPT ![s] = m]
      /\ s \in PS_loops
      /\ UNCHANGED <<PS_subscribed, PS_live, PS_ctxDone>>
  BY DEF PS!Take, PS!subVars
<1>3. /\ PS_kinds[m] = "bad" => PS_loops' = PS_loops \ {s}
      /\ PS_kinds[m] \notin {"bad", "bare"} => PS_loops' = PS_loops
  BY DEF PS!Take
<1> HIDE DEF m
<1>4. /\ PS_buf' \in [PS!Sub -> Seq(1 .. Len(PS_kinds'))]
      /\ PS_last' \in [PS!Sub -> 0 .. Len(PS_kinds')]
  BY <1>1, <1>2
<1>5. \A kind : PS_kinds[m] = kind => PS!Took(s, kind)'
  BY <1>1, <1>2 DEF PS!Took
<1>6. ASSUME NEW r \in PS_live' \ PS_loops'
      PROVE  PS_ctxDone' \/ PS!Took(r, "bad")' \/ PS!Crashed'
  <2>1. CASE PS_kinds[m] = "bare"
    BY <1>5, <2>1 DEF PS!Crashed
  <2>2. CASE PS_kinds[m] # "bare" /\ r = s
    BY <1>2, <1>3, <1>5, <1>6, <2>2
  <2>3. CASE PS_kinds[m] # "bare" /\ r # s
    <3>1. r \in PS_live \ PS_loops
      BY <1>2, <1>3, <1>6, <2>3
    <3>2. PS!Took(r, "bad") => PS!Took(r, "bad")'
      BY <1>2, <2>3, <3>1 DEF PS!Took
    <3> QED  BY <1>2, <3>1, <3>2
  <2> QED  BY <2>1, <2>2, <2>3
<1> QED
  BY <1>2, <1>4, <1>6

LEMMA PSNextInv ==
  ASSUME PSInv, [PS!Next]_(PS!vars)
  PROVE  PSInv'
<1> USE DEF PSInv
<1>1. CASE UNCHANGED PS!vars
  BY <1>1 DEF PS!vars, PS!subVars, PS!loopVars, PS!Took, PS!Crashed
<1>0. SUFFICES ASSUME PS!Next, ~ PS!Crashed  PROVE PSInv'
  BY <1>1 DEF PS!Next
<1>2. CASE PS!StartBegins \/ PS!StartEnds \/ PS!EndContext
  BY <1>0, <1>2 DEF PS!StartBegins, PS!StartEnds, PS!EndContext, PS!subVars, PS!loopVars, PS!Took
<1>3. CASE PS!Join \/ PS!SubscribeBegins \/ PS!CancelPubsub
  BY <1>0, <1>3 DEF PS!Join, PS!SubscribeBegins, PS!CancelPubsub, PS!subVars, PS!loopVars, PS!Took
<1>4. CASE PS!SubscribeEnds
  <2>1. /\ UNCHANGED <<PS_kinds, PS_buf, PS_last, PS_ctxDone>>
        /\ \A s \in PS!Sub : PS!Took(s, "bad") => PS!Took(s, "bad")'
    BY <1>4 DEF PS!SubscribeEnds, PS!Took
  <2>2. CASE PS_pending.subscribe /\ PS_pending.handle \in PS_open
    <3>1. PICK s \in PS!Sub : /\ PS_subscribed' = s
                             /\ PS_live' = PS_live \cup {s}
                             /\ PS_loops' = PS_loops \cup {s}
      BY <1>4, <2>2 DEF PS!SubscribeEnds, PS!Unused
    <3> QED  BY <1>0, <2>1, <3>1
  <2>3. CASE ~ (PS_pending.subscribe /\ PS_pending.handle \in PS_open)
    <3>1. PS_subscribed' \in {PS_subscribed, PS!Silent} /\ UNCHANGED <<PS_live, PS_loops>>
      BY <1>4, <2>3 DEF PS!SubscribeEnds
    <3>2. PS!Silent \notin PS!Sub
      BY ServicesAssumption DEF PS!Silent, PS!Sub
    <3> QED  BY <1>0, <2>1, <3>1, <3>2
  <2> QED  BY <2>2, <2>3
<1>5. CASE PS!CancelSubscribe
  <2>1. 0 \notin PS!Sub
    BY DEF PS!Sub
  <2> QED  BY <1>0, <1>5, <2>1 DEF PS!CancelSubscribe, PS!loopVars, PS!Took
<1>6. ASSUME NEW k \in PS!Kind, PS!Deliver(k)  PROVE PSInv'
  BY <1>0, <1>6, PSDeliver
<1>7. ASSUME NEW s \in PS!Sub, PS!Loop(s)  PROVE PSInv'
  <2>1. CASE PS!Take(s)
    BY <1>0, <2>1, PSTake
  <2>2. CASE PS!LoopEnds(s)
    BY <1>0, <2>2 DEF PS!LoopEnds, PS!subVars, PS!Took
  <2> QED  BY <1>7, <2>1, <2>2 DEF PS!Loop
<1> QED
  BY <1>0, <1>2, <1>3, <1>4, <1>5, <1>6, <1>7 DEF PS!Next

(* A topic that counts as subscribed by a subscription is read by a loop,  *)
(* unless a message of that subscription did not parse, the service has    *)
(* ended, or a message without a Message has ended the program: the safety *)
(* part of ReceivedIsHandled (pubsub.go, SubscribeWithTopic, topicSubLoop).*)
THEOREM SubscribedIsRead ==
  Spec => [](PS_subscribed \in PS!Sub \ PS_loops =>
               PS_ctxDone \/ PS!Took(PS_subscribed, "bad") \/ PS!Crashed)
<1>1. PSInv => (PS_subscribed \in PS!Sub \ PS_loops =>
                  PS_ctxDone \/ PS!Took(PS_subscribed, "bad") \/ PS!Crashed)
  BY DEF PSInv
<1> QED
  BY <1>1, PSInitInv, PSNextInv, PartsAreComponents, PTL DEF PS!Spec

-----------------------------------------------------------------------------
(* Node tables.                                                            *)

(* A table has a peer, or is too full to take it.                          *)
Taken(p, t) == p \in NT_content[t] \/ NT!Full(t)

(* A peer is in the table of a mode, or that is full or was created twice. *)
InTable(p, m) ==
  \/ NT_tables[m] # 0 /\ Taken(p, NT_tables[m])
  \/ NT_writes[m] > 1

NTTypes ==
  /\ NT_tables \in [NT_Mode -> {0} \cup NT!Table]
  /\ NT_content \in [NT!Table -> SUBSET NT_Peer]
  /\ \A t \in NT!Table : IsFiniteSet(NT_content[t])
  /\ NT_made \in Nat
  /\ NT_writes \in [NT_Mode -> Nat]
  /\ NT_conn \in [NT_Peer -> NT_Mode \cup {NT_NoMode}]
  /\ DOMAIN NT_at = NT!Goroutine
  /\ NT_job \in [NT!Goroutine -> [peer : NT_Peer \cup {NT_NoPeer}, mode : NT_Mode \cup {NT_NoMode}]]
  /\ NT_got \in [NT!Goroutine -> {0} \cup NT!Table]

(* What a goroutine between its look and its end holds: the table it has   *)
(* found is that of the mode, unless that was overwritten since; the one   *)
(* it has created has taken the peer, if it will, when it is written; and  *)
(* so has the mode's table when AddConn makes the peer a connected one.    *)
Holding(g) ==
  LET m == NT_job[g].mode  p == NT_job[g].peer IN
  /\ NT_at[g] \in {"checking", "waiting", "looking", "renewing", "creating", "writing", "adding"} => m \in NT_Mode
  /\ NT_at[g] \in {"renewing", "creating", "writing"} => NT_got[g] # 0
  /\ NT_at[g] = "renewing" => NT_got[g] = NT_tables[m] \/ NT_writes[m] > 1
  /\ NT_at[g] = "writing" => p = NT_NoPeer \/ Taken(p, NT_got[g])
  /\ NT_at[g] = "adding" => p = NT_NoPeer \/ InTable(p, m)

NTInv ==
  /\ NTTypes
  /\ \A m \in NT_Mode : NT_tables[m] = 0 <=> NT_writes[m] = 0
  /\ \A g \in NT!Goroutine : Holding(g)
  /\ \A p \in NT_Peer : NT_conn[p] # NT_NoMode => InTable(p, NT_conn[p])

LEMMA NTInitInv == NT!Init => NTInv
<1> SUFFICES ASSUME NT!Init  PROVE NTInv
  OBVIOUS
<1>1. NTTypes
  <2>1. IsFiniteSet({})
    BY FS_EmptySet
  <2> QED  BY <2>1 DEF NT!Init, NTTypes, NT!NoJob
<1>2. \A g \in NT!Goroutine : NT_at[g] = "idle"
  BY DEF NT!Init
<1>3. \A g \in NT!Goroutine : Holding(g)
  BY <1>2 DEF Holding
<1> QED
  BY <1>1, <1>3 DEF NT!Init, NTInv

(* The component counts as we do.                                          *)
LEMMA SameCardinality ==
  ASSUME NEW S
  PROVE  NT!Cardinality(S) = Cardinality(S)
BY DEF NT!Cardinality, Cardinality

(* Tables only grow.                                                       *)
Grow ==
  \A t \in NT!Table : /\ NT_content[t] \subseteq NT_content'[t]
                      /\ NT!Full(t) => NT!Full(t)'

(* What a goroutine holds is not touched by a step that only grows tables  *)
(* and leaves the goroutine alone.                                         *)
LEMMA HoldingKept ==
  ASSUME NTInv, NEW g \in NT!Goroutine,
         UNCHANGED <<NT_tables, NT_writes>>,
         Grow,
         NT_at'[g] = NT_at[g], NT_job'[g] = NT_job[g], NT_got'[g] = NT_got[g]
  PROVE  Holding(g)'
BY DEF NTInv, NTTypes, Holding, InTable, Taken, Grow

LEMMA ConnectedKept ==
  ASSUME NTInv, NEW p \in NT_Peer, NT_conn'[p] \in {NT_conn[p], NT_NoMode},
         UNCHANGED <<NT_tables, NT_writes>>,
         Grow
  PROVE  NT_conn'[p] # NT_NoMode => InTable(p, NT_conn[p])'
BY DEF NTInv, NTTypes, InTable, Taken, Grow

(* The steps that touch no table: goroutines come and go.                  *)
LEMMA NTComing ==
  ASSUME NTInv, NEW g \in NT!Goroutine,
         UNCHANGED NT!tableVars, NT_got' = NT_got,
         \A h \in NT!Goroutine \ {g} : NT_at'[h] = NT_at[h] /\ NT_job'[h] = NT_job[h],
         DOMAIN NT_at' = NT!Goroutine,
         NT_job' \in [NT!Goroutine -> [peer : NT_Peer \cup {NT_NoPeer}, mode : NT_Mode \cup {NT_NoMode}]],
         \/ NT_at'[g] = NT_at[g] /\ NT_job'[g] = NT_job[g]
         \/ NT_at'[g] \in {"idle", "shaking"}
         \/ NT_at'[g] \in {"checking", "waiting", "looking"} /\ NT_job'[g].mode \in NT_Mode,
         NT_conn' \in [NT_Peer -> NT_Mode \cup {NT_NoMode}],
         \A p \in NT_Peer : NT_conn'[p] \in {NT_conn[p], NT_NoMode}
  PROVE  NTInv'
<1>1. NTTypes'
  BY DEF NTInv, NTTypes, NT!tableVars
<1>2. Grow
  BY DEF NT!tableVars, Grow, NT!Full
<1>3. ASSUME NEW h \in NT!Goroutine  PROVE Holding(h)'
  <2>1. NT_got'[h] = NT_got[h]
    OBVIOUS
  <2>2. CASE NT_at'[h] = NT_at[h] /\ NT_job'[h] = NT_job[h]
    BY <1>2, <2>1, <2>2, HoldingKept DEF NT!tableVars
  <2>3. CASE NT_at'[h] \in {"idle", "shaking"}
    BY <2>3 DEF Holding
  <2>4. CASE NT_at'[h] \in {"checking", "waiting", "looking"} /\ NT_job'[h].mode \in NT_Mode
    BY <2>4 DEF Holding
  <2> QED  BY <2>2, <2>3, <2>4
<1>4. \A p \in NT_Peer : NT_conn'[p] # NT_NoMode => InTable(p, NT_conn[p])'
  BY <1>2, ConnectedKept DEF NT!tableVars
<1> QED
  BY <1>1, <1>3, <1>4 DEF NTInv, NT!tableVars

LEMMA NTLook ==
  ASSUME NTInv, NEW g \in NT!Goroutine, NT!Look(g)
  PROVE  NTInv'
<1>1. /\ UNCHANGED <<NT_tables, NT_content, NT_writes, NT_conn, NT_job>>
      /\ DOMAIN NT_at' = NT!Goroutine
      /\ \A h \in NT!Goroutine \ {g} : NT_at'[h] = NT_at[h] /\ NT_got'[h] = NT_got[h]
      /\ NT_job[g].mode \in NT_Mode
  BY DEF NT!Look, NT!Goes, NTInv, NTTypes, Holding
<1>2. /\ NT_made' \in Nat
      /\ NT_got' \in [NT!Goroutine -> {0} \cup NT!Table]
      /\ NT_got'[g] # 0
      /\ \/ NT_at'[g] = "renewing" /\ NT_got'[g] = NT_tables[NT_job[g].mode]
         \/ NT_at'[g] = "creating"
  <2>1. CASE NT_tables[NT_job[g].mode] # 0
    BY <1>1, <2>1 DEF NT!Look, NT!Goes, NTInv, NTTypes
  <2>2. CASE NT_tables[NT_job[g].mode] = 0
    <3>1. NT_made + 1 \in NT!Table /\ NT_made + 1 # 0 /\ NT_made' = NT_made + 1
      BY <2>2, ServicesAssumption DEF NT!Look, NTInv, NTTypes, NT!Table
    <3> QED  BY <2>2, <3>1 DEF NT!Look, NT!Goes, NTInv, NTTypes
  <2> QED  BY <2>1, <2>2
<1>3. NTTypes'
  BY <1>1, <1>2 DEF NTInv, NTTypes
<1>4. Holding(g)'
  BY <1>1, <1>2 DEF Holding
<1>0. Grow
  BY <1>1 DEF Grow, NT!Full
<1>5. \A h \in NT!Goroutine \ {g} : Holding(h)'
  BY <1>0, <1>1, HoldingKept
<1>6. \A p \in NT_Peer : NT_conn'[p] # NT_NoMode => InTable(p, NT_conn[p])'
  BY <1>0, <1>1, ConnectedKept
<1> QED
  BY <1>1, <1>3, <1>4, <1>5, <1>6 DEF NTInv

LEMMA NTRenew ==
  ASSUME NTInv, NEW g \in NT!Goroutine, NT!Renew(g)
  PROVE  NTInv'
<1>1. /\ UNCHANGED <<NT_tables, NT_made, NT_writes, NT_conn, NT_job, NT_got>>
      /\ DOMAIN NT_at' = NT!Goroutine
      /\ \A h \in NT!Goroutine \ {g} : NT_at'[h] = NT_at[h]
      /\ \/ NT_at[g] = "renewing" /\ NT_at'[g] = "adding"
         \/ NT_at[g] = "creating" /\ NT_at'[g] = "writing"
      /\ \/ NT_content' = [NT_content EXCEPT ![NT_got[g]] = @ \cup ({NT_job[g].peer} \ {NT_NoPeer})]
         \/ NT!Full(NT_got[g]) /\ NT_content' = NT_content
  BY DEF NT!Renew, NT!Goes, NT!callVars, NTInv, NTTypes
<1>2. /\ NT_got[g] \in NT!Table
      /\ NT_job[g].mode \in NT_Mode
      /\ NT_job[g].peer \in NT_Peer \cup {NT_NoPeer}
  BY <1>1 DEF NTInv, NTTypes, Holding
<1>3. ASSUME NEW S \in SUBSET NT_Peer, IsFiniteSet(S)
      PROVE  LET T == S \cup ({NT_job[g].peer} \ {NT_NoPeer}) IN
             T \in SUBSET NT_Peer /\ IsFiniteSet(T)
               /\ (Cardinality(S) >= NT_BucketSize => Cardinality(T) >= NT_BucketSize)
  <2> DEFINE T == S \cup {NT_job[g].peer}
  <2>1. /\ IsFiniteSet(T) /\ Cardinality(S) \in Nat
        /\ Cardinality(T) = Cardinality(S) \/ Cardinality(T) = Cardinality(S) + 1
    BY <1>3, FS_AddElement, FS_CardinalityType
  <2>2. CASE NT_job[g].peer = NT_NoPeer
    BY <1>3, <2>2
  <2>3. CASE NT_job[g].peer # NT_NoPeer
    <3>1. S \cup ({NT_job[g].peer} \ {NT_NoPeer}) = T
      BY <2>3
    <3>2. Cardinality(S) >= NT_BucketSize => Cardinality(T) >= NT_BucketSize
      BY <2>1, ServicesAssumption
    <3> QED  BY <1>2, <2>1, <2>3, <3>1, <3>2
  <2> QED  BY <2>2, <2>3
<1>4. /\ NT_content' \in [NT!Table -> SUBSET NT_Peer]
      /\ \A t \in NT!Table : IsFiniteSet(NT_content'[t])
      /\ Grow
  <2>1. CASE NT_content' = NT_content
    BY <2>1 DEF NTInv, NTTypes, Grow, NT!Full
  <2>2. CASE NT_content' = [NT_content EXCEPT ![NT_got[g]] = @ \cup ({NT_job[g].peer} \ {NT_NoPeer})]
    <3> DEFINE t == NT_got[g]
               T == NT_content[t] \cup ({NT_job[g].peer} \ {NT_NoPeer})
    <3>1. /\ T \in SUBSET NT_Peer /\ IsFiniteSet(T)
          /\ Cardinality(NT_content[t]) >= NT_BucketSize => Cardinality(T) >= NT_BucketSize
          /\ NT_content[t] \subseteq T
      BY <1>2, <1>3 DEF NTInv, NTTypes
    <3>2. /\ NT_content' \in [NT!Table -> SUBSET NT_Peer]
          /\ NT_content'[t] = T
          /\ \A u \in NT!Table \ {t} : NT_content'[u] = NT_content[u]
      BY <1>2, <2>2, <3>1 DEF NTInv, NTTypes
    <3> HIDE DEF t, T
    <3>3. \A u \in NT!Table : IsFiniteSet(NT_content'[u])
      BY <3>1, <3>2 DEF NTInv, NTTypes
    <3>4. Grow
      <4>1. ASSUME NEW u \in NT!Table
            PROVE  NT_content[u] \subseteq NT_content'[u] /\ (NT!Full(u) => NT!Full(u)')
        <5>1. CASE u = t
          <6>1. NT_content[u] = NT_content[t] /\ NT_content'[u] = T
            BY <3>2, <5>1
          <6>2. /\ Cardinality(NT_content[u]) = Cardinality(NT_content[t])
                /\ Cardinality(NT_content'[u]) = Cardinality(T)
            BY <6>1
          <6> QED  BY <3>1, <6>1, <6>2, SameCardinality DEF NT!Full
        <5>2. CASE u # t
          BY <3>2, <5>2 DEF NT!Full
        <5> QED  BY <5>1, <5>2
      <4> QED  BY <4>1 DEF Grow
    <3> QED  BY <3>2, <3>3, <3>4
  <2> QED  BY <1>1, <2>1, <2>2
<1>5. NTTypes'
  BY <1>1, <1>4 DEF NTInv, NTTypes
<1>9. NT_job[g].peer = NT_NoPeer \/ Taken(NT_job[g].peer, NT_got[g])'
  BY <1>1, <1>2, <1>4 DEF NTInv, NTTypes, Taken, Grow
<1>6. Holding(g)'
  BY <1>1, <1>2, <1>9 DEF NTInv, Holding, InTable
<1>7. \A h \in NT!Goroutine \ {g} : Holding(h)'
  BY <1>1, <1>4, HoldingKept
<1>8. \A p \in NT_Peer : NT_conn'[p] # NT_NoMode => InTable(p, NT_conn[p])'
  BY <1>1, <1>4, ConnectedKept
<1> QED
  BY <1>1, <1>5, <1>6, <1>7, <1>8 DEF NTInv

(* A write that overwrites a table counts as the second one.               *)
LEMMA NTWrite ==
  ASSUME NTInv, NEW g \in NT!Goroutine, NT!Write(g)
  PROVE  NTInv'
<1> DEFINE m == NT_job[g].mode
<1>1. /\ UNCHANGED <<NT_content, NT_made, NT_conn, NT_job, NT_got>>
      /\ DOMAIN NT_at' = NT!Goroutine
      /\ \A h \in NT!Goroutine \ {g} : NT_at'[h] = NT_at[h]
      /\ NT_at[g] = "writing" /\ NT_at'[g] = "adding"
      /\ NT_tables' = [NT_tables EXCEPT ![m] = NT_got[g]]
      /\ NT_writes' = [NT_writes EXCEPT ![m] = @ + 1]
  BY DEF NT!Write, NT!Goes, NT!callVars, NTInv, NTTypes
<1>2. /\ m \in NT_Mode
      /\ NT_got[g] \in NT!Table
      /\ NT_got[g] # 0
      /\ NT_job[g].peer = NT_NoPeer \/ Taken(NT_job[g].peer, NT_got[g])
  BY <1>1 DEF NTInv, NTTypes, Holding
<1>0. \A q, t : Taken(q, t)' = Taken(q, t)
  BY <1>1 DEF Taken, NT!Full
<1> HIDE DEF m
<1>3. NTTypes'
  BY <1>1, <1>2 DEF NTInv, NTTypes
<1>4. /\ NT_tables'[m] = NT_got[g]
      /\ NT_writes'[m] = NT_writes[m] + 1
      /\ \A n \in NT_Mode \ {m} : NT_tables'[n] = NT_tables[n] /\ NT_writes'[n] = NT_writes[n]
      /\ \A n \in NT_Mode : NT_writes[n] \in Nat
  BY <1>1, <1>2 DEF NTInv, NTTypes
<1>5. \A n \in NT_Mode : NT_tables'[n] = 0 <=> NT_writes'[n] = 0
  BY <1>2, <1>4 DEF NTInv
<1>6. \A n \in NT_Mode : NT_tables[n] # 0 => n # m \/ NT_writes'[n] > 1
  BY <1>4 DEF NTInv
<1>7. \A n \in NT_Mode, p \in NT_Peer : InTable(p, n) => InTable(p, n)'
  BY <1>0, <1>1, <1>4, <1>6 DEF InTable, Taken
<1>8. Holding(g)'
  BY <1>0, <1>1, <1>2, <1>4 DEF Holding, InTable, Taken, m
<1>9. ASSUME NEW h \in NT!Goroutine \ {g}  PROVE Holding(h)'
  <2>1. /\ NT_at'[h] = NT_at[h] /\ NT_job'[h] = NT_job[h] /\ NT_got'[h] = NT_got[h]
        /\ Holding(h)
        /\ NT_job[h].peer \in NT_Peer \cup {NT_NoPeer}
    BY <1>1 DEF NTInv, NTTypes
  <2>2. CASE NT_at[h] = "renewing"
    BY <1>1, <1>4, <1>6, <2>1, <2>2 DEF Holding
  <2>3. CASE NT_at[h] = "adding"
    BY <1>7, <2>1, <2>3 DEF Holding
  <2>4. CASE NT_at[h] \notin {"renewing", "adding"}
    BY <1>0, <1>1, <2>1, <2>4 DEF Holding, Taken
  <2> QED  BY <2>2, <2>3, <2>4
<1>10. \A p \in NT_Peer : NT_conn'[p] # NT_NoMode => InTable(p, NT_conn[p])'
  BY <1>1, <1>7 DEF NTInv, NTTypes
<1> QED
  BY <1>3, <1>5, <1>8, <1>9, <1>10 DEF NTInv

LEMMA NTFinish ==
  ASSUME NTInv, NEW g \in NT!Goroutine, NT!Finish(g)
  PROVE  NTInv'
<1> DEFINE m == NT_job[g].mode
           p == NT_job[g].peer
<1>1. /\ UNCHANGED NT!tableVars
      /\ DOMAIN NT_at' = NT!Goroutine
      /\ \A h \in NT!Goroutine \ {g} : NT_at'[h] = NT_at[h]
      /\ NT_at[g] = "adding" /\ NT_at'[g] = "idle"
      /\ NT_got' = [NT_got EXCEPT ![g] = 0]
      /\ NT_job' = [NT_job EXCEPT ![g] = NT!NoJob]
      /\ NT_conn' \in {NT_conn, [NT_conn EXCEPT ![p] = m]}
  BY DEF NT!Finish, NT!Goes, NT!AddConn, NTInv, NTTypes
<1>2. m \in NT_Mode /\ (p = NT_NoPeer \/ InTable(p, m))
  BY <1>1 DEF NTInv, Holding
<1> HIDE DEF m, p
<1>3. NT!NoJob \in [peer : NT_Peer \cup {NT_NoPeer}, mode : NT_Mode \cup {NT_NoMode}]
  BY DEF NT!NoJob
<1>4. NTTypes'
  BY <1>1, <1>2, <1>3 DEF NTInv, NTTypes, NT!tableVars
<1>5. Grow
  BY <1>1 DEF NT!tableVars, Grow, NT!Full
<1>6. \A h \in NT!Goroutine \ {g} : NT_job'[h] = NT_job[h] /\ NT_got'[h] = NT_got[h]
  BY <1>1 DEF NTInv, NTTypes
<1>7. \A h \in NT!Goroutine \ {g} : Holding(h)'
  BY <1>1, <1>5, <1>6, HoldingKept DEF NT!tableVars
<1>8. Holding(g)'
  BY <1>1 DEF Holding
<1>9. ASSUME NEW q \in NT_Peer, NT_conn'[q] # NT_NoMode  PROVE InTable(q, NT_conn[q])'
  <2>1. CASE NT_conn'[q] = NT_conn[q]
    BY <1>1, <1>9, <2>1 DEF NTInv, InTable, Taken, NT!Full, NT!tableVars
  <2>2. CASE NT_conn'[q] # NT_conn[q]
    <3>1. q = p /\ NT_conn'[q] = m
      BY <1>1, <2>2 DEF NTInv, NTTypes
    <3>2. InTable(q, m)
      BY <1>2, <3>1, ServicesAssumption
    <3> QED  BY <1>1, <3>1, <3>2 DEF InTable, Taken, NT!Full, NT!tableVars
  <2> QED  BY <2>1, <2>2
<1> QED
  BY <1>1, <1>4, <1>7, <1>8, <1>9 DEF NTInv, NT!tableVars

LEMMA NTNextInv ==
  ASSUME NTInv, [NT!Next]_(NT!vars)
  PROVE  NTInv'
<1> DEFINE Job == [peer : NT_Peer \cup {NT_NoPeer}, mode : NT_Mode \cup {NT_NoMode}]
<1>0. /\ NT_Disc \in NT!Goroutine
      /\ DOMAIN NT_at = NT!Goroutine
      /\ NT_job \in [NT!Goroutine -> Job]
      /\ NT_conn \in [NT_Peer -> NT_Mode \cup {NT_NoMode}]
      /\ \A p \in NT_Peer, m \in NT_Mode \cup {NT_NoMode} : [peer |-> p, mode |-> m] \in Job
      /\ NT!NoJob \in Job
      /\ \A m \in NT_Mode, g \in NT!Goroutine : [peer |-> NT_job[g].peer, mode |-> m] \in Job
      /\ \A m \in NT_Mode : [peer |-> NT_NoPeer, mode |-> m] \in Job
      /\ \A g \in NT!Goroutine : NT_at[g] \in {"checking", "waiting"} => NT_job[g].mode \in NT_Mode
  BY DEF NTInv, NTTypes, NT!Goroutine, NT!NoJob, Holding
<1>1. CASE UNCHANGED NT!vars
  BY <1>1
     DEF NT!vars, NT!tableVars, NT!callVars, NT!lockVars, NTInv, NTTypes, Holding, InTable,
         Taken, NT!Full
<1>2. CASE NT!ConnectToBootstrapPeers \/ NT!MapRace
  BY <1>0, <1>2, NTComing DEF NT!ConnectToBootstrapPeers, NT!MapRace, NT!callVars
<1>5. ASSUME NEW p \in NT_Peer, NT!Discover(p)  PROVE NTInv'
  BY <1>0, <1>5, NTComing DEF NT!Discover, NT!Goes, NT!Works
<1>6. CASE NT!HandshakeFails
  BY <1>0, <1>6, NTComing DEF NT!HandshakeFails, NT!Goes, NT!AddConn
<1>3. ASSUME NEW m \in NT_Mode, NT!HandshakeAgreed(m)  PROVE NTInv'
  BY <1>0, <1>3, NTComing DEF NT!HandshakeAgreed, NT!Goes, NT!Works
<1>7. ASSUME NEW g \in NT!Goroutine, NEW p \in NT_Peer, NEW m \in NT_Mode,
             NT!HandshakeArrives(g, p, m)
      PROVE  NTInv'
  BY <1>0, <1>7, NTComing DEF NT!HandshakeArrives, NT!Goes, NT!Works
<1>8. ASSUME NEW g \in NT!Goroutine, NEW m \in NT_Mode, NT!RoutingTable(g, m)  PROVE NTInv'
  BY <1>0, <1>8, NTComing DEF NT!RoutingTable, NT!Goes, NT!Works
<1>9. ASSUME NEW g \in NT!Goroutine, NT!Step(g)  PROVE NTInv'
  <2>1. CASE NT!Check(g)
    BY <1>0, <1>9, <2>1, NTComing DEF NT!Check, NT!Goes
  <2>2. CASE NT!Lock(g)
    BY <1>0, <1>9, <2>2, NTComing DEF NT!Lock, NT!Goes, NT!callVars
  <2> QED  BY <1>9, <2>1, <2>2, NTLook, NTRenew, NTWrite, NTFinish DEF NT!Step
<1> QED
  BY <1>1, <1>2, <1>3, <1>5, <1>6, <1>7, <1>8, <1>9 DEF NT!Next

(* A connected peer is in the table of its mode, unless that table is full *)
(* or was created twice, for any number of peers and of goroutines that    *)
(* create and fill tables under different locks or none (discover.go,      *)
(* handleChanNewPeerFound; host.go, handshakeHandle and RoutingTable).     *)
THEOREM ConnectedAreInTables == Spec => []InTableUnlessReplaced
<1>1. NTInv => InTableUnlessReplaced
  BY DEF NTInv, InTable, Taken, InTableUnlessReplaced, NT!InTableUnlessReplaced, NT!Connected
<1> QED
  BY <1>1, NTInitInv, NTNextInv, PartsAreComponents, PTL DEF NT!Spec

-----------------------------------------------------------------------------
(* The size estimator.                                                     *)

(* Every non-empty set of natural numbers has a least element.             *)
LEMMA SmallestExists ==
  ASSUME NEW S \in SUBSET Nat, S # {}
  PROVE  \E m \in S : \A k \in S : m <= k
<1> DEFINE T == {0..k : k \in S}
           F == FiniteSubsetsOf(Nat)
<1>1. IsWellFoundedOn(StrictSubsetOrdering(Nat), F)
  BY FS_StrictSubsetOrderingWellFounded
<1>2. T \subseteq F
  <2>1. \A k \in S : IsFiniteSet(0..k) /\ 0..k \in SUBSET Nat
    BY FS_Interval
  <2> QED  BY <2>1 DEF FiniteSubsetsOf
<1>3. T # {}
  OBVIOUS
<1> HIDE DEF T, F
<1>4. PICK x \in T : \A y \in T : ~ (<<y, x>> \in StrictSubsetOrdering(Nat))
  BY <1>1, <1>2, <1>3, WFMin
<1>5. PICK m \in S : x = 0..m
  BY DEF T
<1>6. ASSUME NEW k \in S  PROVE m <= k
  <2>1. 0..k \in T
    BY DEF T
  <2>2. SUFFICES ASSUME k < m PROVE FALSE
    BY <1>6
  <2>3. 0..k \subseteq 0..m /\ 0..k # 0..m
    <3>1. m \in 0..m /\ m \notin 0..k
      BY <2>2
    <3> QED  BY <2>2, <3>1
  <2>4. <<0..k, x>> \in StrictSubsetOrdering(Nat)
    <3>1. <<0..k, x>> \in (SUBSET Nat) \X (SUBSET Nat)
      BY <1>5
    <3> QED  BY <3>1, <2>3, <1>5 DEF StrictSubsetOrdering
  <2> QED  BY <2>1, <2>4, <1>4
<1> QED  BY <1>6

Mark == [made : Int, number : Int]

(* Measurements are in the order of the lookups tracked, up to number t.   *)
Ordered(ms, t) ==
  /\ ms \in Seq(Mark)
  /\ \A i \in 1 .. Len(ms) : ms[i].number = t - Len(ms) + i /\ ms[i].made <= NS_now
  /\ \A i, j \in 1 .. Len(ms) : i <= j => ms[i].made <= ms[j].made

(* What an estimate may rest on.                                           *)
Estimate(ms) ==
  /\ ms \in Seq(Mark)
  /\ Len(ms) \in NS_Min .. NS_Most
  /\ \A i \in 1 .. Len(ms) - 1 :
       ms[i + 1].number = ms[i].number + 1 /\ ms[i].made > ms[Len(ms)].made - NS_MaxAge

NSInv ==
  /\ NS_now \in Int
  /\ NS_tracked \in Int
  /\ Ordered(NS_measurements, NS_tracked)
  /\ Len(NS_measurements) <= NS_Most
  /\ NS_cache # <<>> => Estimate(NS_cache) /\ NS_cache[Len(NS_cache)].number = NS_tracked
  /\ DOMAIN NS_at = NS_Caller
  /\ NS_seen \in [NS_Caller -> Int]
  /\ DOMAIN NS_answer = NS_Caller
  /\ \A c \in NS_Caller :
       /\ NS_seen[c] <= NS_tracked
       /\ NS_answer[c] # <<>> =>
            /\ Estimate(NS_answer[c])
            /\ NS_answer[c][Len(NS_answer[c])].number >= NS_seen[c]

LEMMA NSInitInv == NS!Init => NSInv
<1> SUFFICES ASSUME NS!Init  PROVE NSInv
  OBVIOUS
<1>1. <<>> \in Seq(Mark) /\ Len(<<>>) = 0
  OBVIOUS
<1>2. Ordered(NS_measurements, NS_tracked) /\ Len(NS_measurements) = 0
  BY <1>1 DEF NS!Init, Ordered
<1> QED  BY <1>2, ServicesAssumption DEF NS!Init, NSInv

(* The fields of a measurement are numbers.                                *)
LEMMA MarksOf ==
  ASSUME NEW ms \in Seq(Mark), NEW i \in 1 .. Len(ms)
  PROVE  ms[i] \in Mark /\ ms[i].made \in Int /\ ms[i].number \in Int
<1>1. ms[i] \in Mark
  BY ElementOfSeq
<1> QED  BY <1>1 DEF Mark

(* A suffix of measurements, element by element.                           *)
LEMMA SuffixOf ==
  ASSUME NEW ms \in Seq(Mark), NEW k \in 1 .. Len(ms) + 1
  PROVE  /\ SubSeq(ms, k, Len(ms)) \in Seq(Mark)
         /\ Len(SubSeq(ms, k, Len(ms))) = Len(ms) + 1 - k
         /\ \A i \in 1 .. Len(ms) + 1 - k : SubSeq(ms, k, Len(ms))[i] = ms[i + k - 1]
<1>1. \A i \in k .. Len(ms) : ms[i] \in Mark
  OBVIOUS
<1> QED
  BY <1>1, SubSeqProperties

LEMMA SuffixOrdered ==
  ASSUME NEW ms, NEW t \in Int, Ordered(ms, t), NEW k \in 1 .. Len(ms) + 1
  PROVE  /\ Ordered(SubSeq(ms, k, Len(ms)), t)
         /\ Len(SubSeq(ms, k, Len(ms))) = Len(ms) + 1 - k
<1> DEFINE s == SubSeq(ms, k, Len(ms))
<1>1. ms \in Seq(Mark) /\ Len(ms) \in Nat
  BY DEF Ordered
<1>2. /\ s \in Seq(Mark)
      /\ Len(s) = Len(ms) + 1 - k
      /\ \A i \in 1 .. Len(s) : s[i] = ms[i + k - 1]
  BY <1>1, SuffixOf
<1> HIDE DEF s
<1>3. \A i \in 1 .. Len(s) : i + k - 1 \in 1 .. Len(ms)
  BY <1>1, <1>2
<1>4. ASSUME NEW i \in 1 .. Len(s)
      PROVE  s[i].number = t - Len(s) + i /\ s[i].made <= NS_now
  <2>1. s[i] = ms[i + k - 1] /\ i + k - 1 \in 1 .. Len(ms)
    BY <1>2, <1>3
  <2>2. ms[i + k - 1].number = t - Len(ms) + (i + k - 1) /\ ms[i + k - 1].made <= NS_now
    BY <2>1 DEF Ordered
  <2>3. t - Len(ms) + (i + k - 1) = t - Len(s) + i
    BY <1>1, <1>2
  <2> QED  BY <2>1, <2>2, <2>3
<1>5. ASSUME NEW i \in 1 .. Len(s), NEW j \in 1 .. Len(s), i <= j
      PROVE  s[i].made <= s[j].made
  <2>1. s[i] = ms[i + k - 1] /\ s[j] = ms[j + k - 1] /\ i + k - 1 <= j + k - 1
    BY <1>1, <1>2, <1>5
  <2>2. i + k - 1 \in 1 .. Len(ms) /\ j + k - 1 \in 1 .. Len(ms)
    BY <1>3
  <2>3. ms[i + k - 1].made <= ms[j + k - 1].made
    BY <2>1, <2>2 DEF Ordered
  <2> QED  BY <2>1, <2>3
<1> QED  BY <1>2, <1>4, <1>5 DEF Ordered, s

(* The search of garbageCollect finds where the young measurements begin,  *)
(* since they are in order.                                                *)
LEMMA YoungFound ==
  ASSUME NEW ms, NEW t \in Int, Ordered(ms, t), NS_now \in Int
  PROVE  /\ NS!FirstYoung(ms) \in 1 .. Len(ms) + 1
         /\ \A i \in 1 .. Len(ms) : i >= NS!FirstYoung(ms) => ms[i].made > NS_now - NS_MaxAge
<1> DEFINE S == {i \in 1 .. Len(ms) : ~ NS!Old(ms[i])}
           Begins(i) == (i > 1 => NS!Old(ms[i - 1])) /\ (i <= Len(ms) => ~ NS!Old(ms[i]))
<1>1. ms \in Seq(Mark) /\ Len(ms) \in Nat /\ \A i \in 1 .. Len(ms) : ms[i].made \in Int
  BY MarksOf DEF Ordered
<1>2. \E i \in 1 .. Len(ms) + 1 : Begins(i)
  <2>1. CASE S = {}
    <3>1. \A i \in 1 .. Len(ms) : NS!Old(ms[i])
      BY <2>1
    <3>2. Begins(Len(ms) + 1)
      BY <1>1, <3>1
    <3> QED  BY <1>1, <3>2
  <2>2. CASE S # {}
    <3>1. S \in SUBSET Nat
      BY <1>1
    <3>2. PICK m \in S : \A k \in S : m <= k
      BY <2>2, <3>1, SmallestExists
    <3>3. Begins(m)
      BY <1>1, <3>2
    <3> QED  BY <1>1, <3>2, <3>3
  <2> QED  BY <2>1, <2>2
<1>3. NS!FirstYoung(ms) \in 1 .. Len(ms) + 1 /\ Begins(NS!FirstYoung(ms))
  BY <1>2 DEF NS!FirstYoung
<1> DEFINE f == NS!FirstYoung(ms)
<1> HIDE DEF f
<1>4. ASSUME NEW i \in 1 .. Len(ms), i >= f  PROVE ms[i].made > NS_now - NS_MaxAge
  <2>1. f \in 1 .. Len(ms) /\ ~ NS!Old(ms[f])
    BY <1>1, <1>3, <1>4 DEF f
  <2>2. ms[f].made > NS_now - NS_MaxAge /\ ms[f].made <= ms[i].made
    BY <1>1, <1>4, <2>1, ServicesAssumption DEF NS!Old, Ordered
  <2> QED  BY <1>1, <2>1, <2>2, ServicesAssumption
<1> QED  BY <1>3, <1>4 DEF f

(* The young measurements are a suffix in order, all within MaxAge.        *)
LEMMA YoungOrdered ==
  ASSUME NEW ms, NEW t \in Int, Ordered(ms, t), NS_now \in Int
  PROVE  /\ Ordered(NS!Young(ms), t)
         /\ Len(NS!Young(ms)) <= Len(ms)
         /\ \A i \in 1 .. Len(NS!Young(ms)) : NS!Young(ms)[i].made > NS_now - NS_MaxAge
<1> DEFINE f == NS!FirstYoung(ms)
           s == NS!Young(ms)
<1>1. ms \in Seq(Mark) /\ Len(ms) \in Nat
  BY DEF Ordered
<1>2. /\ f \in 1 .. Len(ms) + 1
      /\ \A i \in 1 .. Len(ms) : i >= f => ms[i].made > NS_now - NS_MaxAge
  BY YoungFound
<1>3. s = SubSeq(ms, f, Len(ms))
  BY DEF NS!Young
<1> HIDE DEF f, s
<1>4. \A i \in 1 .. Len(ms) + 1 - f : s[i] = ms[i + f - 1]
  BY <1>1, <1>2, <1>3, SuffixOf
<1>5. Ordered(s, t) /\ Len(s) = Len(ms) + 1 - f
  BY <1>1, <1>2, <1>3, SuffixOrdered
<1>6. Len(s) <= Len(ms)
  BY <1>1, <1>2, <1>5
<1>7. ASSUME NEW i \in 1 .. Len(s)  PROVE s[i].made > NS_now - NS_MaxAge
  <2>1. i + f - 1 \in 1 .. Len(ms) /\ i + f - 1 >= f /\ i \in 1 .. Len(ms) + 1 - f
    BY <1>1, <1>2, <1>5
  <2> QED  BY <1>2, <1>4, <2>1
<1> QED  BY <1>5, <1>6, <1>7 DEF s

(* As many young measurements as an estimate takes are one.                *)
LEMMA YoungIsEstimate ==
  ASSUME NEW ms, NEW t \in Int, Ordered(ms, t), ms # <<>>, Len(ms) \in NS_Min .. NS_Most,
         NS_now \in Int,
         \A i \in 1 .. Len(ms) : ms[i].made > NS_now - NS_MaxAge
  PROVE  Estimate(ms) /\ ms[Len(ms)].number = t
<1>1. ms \in Seq(Mark) /\ Len(ms) \in Nat /\ Len(ms) > 0
  BY DEF Ordered
<1>2. \A i \in 1 .. Len(ms) : ms[i].made \in Int /\ ms[i].number \in Int
  BY <1>1, MarksOf
<1>3. ms[Len(ms)].number = t /\ ms[Len(ms)].made <= NS_now
  BY <1>1, <1>2 DEF Ordered
<1>4. ASSUME NEW i \in 1 .. Len(ms) - 1
      PROVE  ms[i + 1].number = ms[i].number + 1 /\ ms[i].made > ms[Len(ms)].made - NS_MaxAge
  <2>1. i \in 1 .. Len(ms) /\ i + 1 \in 1 .. Len(ms) /\ Len(ms) \in 1 .. Len(ms)
    BY <1>1
  <2>2. ms[i].number = t - Len(ms) + i /\ ms[i + 1].number = t - Len(ms) + (i + 1)
    BY <2>1 DEF Ordered
  <2>3. ms[i].made > NS_now - NS_MaxAge
    BY <2>1
  <2>4. ms[i].made \in Int /\ ms[Len(ms)].made \in Int /\ NS_MaxAge \in Int
    BY <1>2, <2>1, ServicesAssumption
  <2>5. ms[i].made > ms[Len(ms)].made - NS_MaxAge
    BY <1>3, <2>3, <2>4
  <2>6. ms[i + 1].number = ms[i].number + 1
    BY <1>1, <2>2
  <2> QED  BY <2>5, <2>6
<1> QED  BY <1>1, <1>3, <1>4 DEF Estimate

(* The newest measurements are a suffix, as many as fit.                   *)
LEMMA NewestOrdered ==
  ASSUME NEW ms, NEW t \in Int, Ordered(ms, t)
  PROVE  Ordered(NS!Newest(ms), t) /\ Len(NS!Newest(ms)) <= NS_Most
<1>1. Len(ms) \in Nat /\ NS_Most \in Nat
  BY ServicesAssumption DEF Ordered
<1>2. CASE Len(ms) > NS_Most
  <2>1. NS!Newest(ms) = SubSeq(ms, Len(ms) - NS_Most + 1, Len(ms))
    BY <1>2 DEF NS!Newest
  <2>2. Len(ms) - NS_Most + 1 \in 1 .. Len(ms) + 1
    BY <1>1, <1>2
  <2> QED  BY <1>1, <2>1, <2>2, SuffixOrdered
<1>3. CASE ~ (Len(ms) > NS_Most)
  <2>1. NS!Newest(ms) = SubSeq(ms, 1, Len(ms))
    BY <1>3 DEF NS!Newest
  <2>2. 1 \in 1 .. Len(ms) + 1
    BY <1>1
  <2> QED  BY <1>1, <1>3, <2>1, <2>2, SuffixOrdered
<1> QED  BY <1>2, <1>3

(* A measurement made now, of the next lookup.                             *)
LEMMA AppendOrdered ==
  ASSUME NEW ms, NEW t \in Int, Ordered(ms, t), NS_now \in Int
  PROVE  Ordered(Append(ms, [made |-> NS_now, number |-> t + 1]), t + 1)
<1> DEFINE m == [made |-> NS_now, number |-> t + 1]
           s == Append(ms, m)
<1>1. ms \in Seq(Mark) /\ Len(ms) \in Nat /\ m \in Mark
  BY DEF Ordered, Mark
<1>2. /\ s \in Seq(Mark)
      /\ Len(s) = Len(ms) + 1
      /\ \A i \in 1 .. Len(ms) : s[i] = ms[i]
      /\ s[Len(ms) + 1] = m
  BY <1>1, AppendProperties
<1>3. m.made = NS_now /\ m.number = t + 1
  OBVIOUS
<1>4. \A i \in 1 .. Len(ms) : ms[i].made \in Int /\ ms[i].number \in Int
  BY <1>1, MarksOf
<1> HIDE DEF m, s
<1>5. ASSUME NEW i \in 1 .. Len(s)
      PROVE  s[i].number = (t + 1) - Len(s) + i /\ s[i].made <= NS_now
  <2>1. CASE i \in 1 .. Len(ms)
    <3>1. ms[i].number = t - Len(ms) + i /\ ms[i].made <= NS_now
      BY <2>1 DEF Ordered
    <3> QED  BY <1>1, <1>2, <2>1, <3>1
  <2>2. CASE i = Len(ms) + 1
    BY <1>1, <1>2, <1>3, <2>2
  <2> QED  BY <1>1, <1>2, <2>1, <2>2
<1>6. ASSUME NEW i \in 1 .. Len(s), NEW j \in 1 .. Len(s), i <= j
      PROVE  s[i].made <= s[j].made
  <2>1. CASE j \in 1 .. Len(ms)
    <3>1. i \in 1 .. Len(ms)
      BY <1>1, <1>2, <1>6, <2>1
    <3>2. ms[i].made <= ms[j].made
      BY <1>6, <2>1, <3>1 DEF Ordered
    <3> QED  BY <1>2, <2>1, <3>1, <3>2
  <2>2. CASE j = Len(ms) + 1
    BY <1>2, <1>3, <1>5, <2>2
  <2> QED  BY <1>1, <1>2, <2>1, <2>2
<1> QED  BY <1>2, <1>5, <1>6 DEF Ordered, s, m

LEMMA NSTrack ==
  ASSUME NSInv, NS!Track
  PROVE  NSInv'
<1> DEFINE ms == Append(NS_measurements, [made |-> NS_now, number |-> NS_tracked + 1])
<1>1. /\ NS_tracked' = NS_tracked + 1
      /\ NS_cache' = <<>>
      /\ NS_measurements' = NS!Newest(NS!Young(ms))
      /\ UNCHANGED <<NS_now, NS_at, NS_seen, NS_answer>>
  BY DEF NS!Track
<1>2. Ordered(ms, NS_tracked + 1)
  BY AppendOrdered DEF NSInv
<1> HIDE DEF ms
<1>3. NS_tracked \in Int /\ NS_tracked + 1 \in Int /\ NS_now \in Int
  BY DEF NSInv
<1>4. Ordered(NS!Young(ms), NS_tracked + 1)
  BY <1>2, <1>3, YoungOrdered
<1>5. /\ Ordered(NS_measurements', NS_tracked')
      /\ Len(NS_measurements') <= NS_Most
  BY <1>1, <1>3, <1>4, NewestOrdered
<1>6. Ordered(NS_measurements, NS_tracked)'
  BY <1>1, <1>5 DEF Ordered
<1>7. \A c \in NS_Caller : NS_seen'[c] <= NS_tracked'
  BY <1>1, <1>3 DEF NSInv
<1> QED
  BY <1>1, <1>3, <1>5, <1>6, <1>7 DEF NSInv, Estimate

LEMMA NSCompute ==
  ASSUME NSInv, NEW c \in NS_Caller, NS!Compute(c)
  PROVE  NSInv'
<1> DEFINE ms == NS!Young(NS_measurements)
<1>1. /\ UNCHANGED <<NS_now, NS_tracked, NS_seen>>
      /\ DOMAIN NS_at' = NS_Caller
      /\ NS_now \in Int /\ NS_tracked \in Int
      /\ NS_seen[c] <= NS_tracked
  BY DEF NS!Compute, NSInv
<1>2. /\ Ordered(ms, NS_tracked)
      /\ Len(ms) <= Len(NS_measurements)
      /\ \A i \in 1 .. Len(ms) : ms[i].made > NS_now - NS_MaxAge
  BY <1>1, YoungOrdered DEF NSInv
<1> HIDE DEF ms
<1>3. Len(NS_measurements) \in Nat /\ Len(ms) \in Nat /\ Len(NS_measurements) <= NS_Most
  BY <1>2 DEF NSInv, Ordered
<1>4. CASE NS_cache # <<>>
  <2>1. /\ UNCHANGED <<NS_measurements, NS_cache>>
        /\ NS_answer' = [NS_answer EXCEPT ![c] = NS_cache]
    BY <1>4 DEF NS!Compute
  <2>2. \A d \in NS_Caller : NS_answer'[d] = IF d = c THEN NS_cache ELSE NS_answer[d]
    BY <2>1 DEF NSInv
  <2>3. Estimate(NS_cache) /\ NS_cache[Len(NS_cache)].number >= NS_seen[c]
    BY <1>1, <1>4 DEF NSInv
  <2>4. \A d \in NS_Caller : NS_answer'[d] # <<>> =>
          /\ Estimate(NS_answer'[d])
          /\ NS_answer'[d][Len(NS_answer'[d])].number >= NS_seen[d]
    BY <2>2, <2>3 DEF NSInv
  <2> QED
    BY <1>1, <2>1, <2>4 DEF NSInv, Ordered, Estimate
<1>5. CASE NS_cache = <<>> /\ Len(ms) < NS_Min
  BY <1>1, <1>2, <1>3, <1>5, ServicesAssumption DEF NS!Compute, NSInv, Ordered, Estimate, ms
<1>6. CASE NS_cache = <<>> /\ ~ (Len(ms) < NS_Min)
  <2>1. /\ NS_measurements' = ms
        /\ NS_cache' = ms
        /\ NS_answer' = [NS_answer EXCEPT ![c] = ms]
    BY <1>6 DEF NS!Compute, ms
  <2>2. Len(ms) \in NS_Min .. NS_Most
    BY <1>2, <1>3, <1>6, ServicesAssumption
  <2>3. ms # <<>> => Estimate(ms) /\ ms[Len(ms)].number = NS_tracked
    BY <1>1, <1>2, <2>2, YoungIsEstimate
  <2>4. Ordered(NS_measurements, NS_tracked)' /\ Len(NS_measurements') <= NS_Most
    BY <1>1, <1>2, <2>1, <2>2 DEF Ordered
  <2>5. \A d \in NS_Caller : NS_answer'[d] = IF d = c THEN ms ELSE NS_answer[d]
    BY <2>1 DEF NSInv
  <2>6. ms # <<>> => ms[Len(ms)].number >= NS_seen[c]
    BY <1>1, <2>3 DEF NSInv
  <2>7. \A d \in NS_Caller : NS_answer'[d] # <<>> =>
          /\ Estimate(NS_answer'[d])
          /\ NS_answer'[d][Len(NS_answer'[d])].number >= NS_seen[d]
    BY <2>3, <2>5, <2>6 DEF NSInv
  <2> QED
    BY <1>1, <2>1, <2>3, <2>4, <2>7 DEF NSInv, Estimate
<1> QED
  BY <1>4, <1>5, <1>6

LEMMA NSNextInv ==
  ASSUME NSInv, [NS!Next]_(NS!vars)
  PROVE  NSInv'
<1>1. CASE UNCHANGED NS!vars
  BY <1>1 DEF NS!vars, NSInv, Ordered, Estimate
<1>2. CASE NS!Track
  BY <1>2, NSTrack
<1>3. ASSUME NEW c \in NS_Caller, NS!NetworkSize(c)  PROVE NSInv'
  BY <1>3 DEF NS!NetworkSize, NSInv, Ordered, Estimate
<1>4. ASSUME NEW c \in NS_Caller, NS!Compute(c)  PROVE NSInv'
  BY <1>4, NSCompute
<1>5. ASSUME NEW c \in NS_Caller, NS!CallsAgain(c)  PROVE NSInv'
  BY <1>5 DEF NS!CallsAgain, NSInv, Ordered, Estimate
<1>6. CASE NS!Tick
  <2>1. UNCHANGED <<NS_measurements, NS_cache, NS_tracked, NS_at, NS_seen, NS_answer>> /\ NS_now' = NS_now + 1
    BY <1>6 DEF NS!Tick
  <2>2. \A i \in 1 .. Len(NS_measurements) : NS_measurements[i].made <= NS_now + 1
    BY MarksOf DEF NSInv, Ordered
  <2>3. Ordered(NS_measurements, NS_tracked)'
    BY <2>1, <2>2 DEF NSInv, Ordered
  <2> QED  BY <2>1, <2>3 DEF NSInv, Estimate
<1> QED
  BY <1>1, <1>2, <1>3, <1>4, <1>5, <1>6 DEF NS!Next

(* An estimate rests on enough measurements, in order and within MaxAge of *)
(* the newest, up to every lookup tracked before the caller asked, for any *)
(* number of callers and lookups (netsize.go, Track, NetworkSize and       *)
(* garbageCollect).                                                        *)
THEOREM EstimatesAreCurrent == Spec => []AnswerIsCurrent
<1>1. NSInv => AnswerIsCurrent
  BY DEF NSInv, Estimate, AnswerIsCurrent, NS!AnswerIsCurrent
<1> QED
  BY <1>1, NSInitInv, NSNextInv, PartsAreComponents, PTL DEF NS!Spec
=============================================================================
