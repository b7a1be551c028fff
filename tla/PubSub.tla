------------------------------- MODULE PubSub -------------------------------
(***************************************************************************)
(* The topic subscriptions of one node (pubsub/pubsub.go), for one topic:  *)
(* topics share nothing but the two locks and the start.                   *)
(*                                                                         *)
(* SubscribeWithTopic holds subscribeLock throughout, but topicLock only   *)
(* while it gets the topic: CancelPubsubWithTopic can close the topic      *)
(* before it is subscribed to.  Each subscription has its loop, which      *)
(* outlives a cancellation until it has taken the messages that were       *)
(* delivered before.  Topics, subscriptions and delivery are the library's *)
(* (go-libp2p-pubsub): a closed topic takes no subscription, a topic with  *)
(* subscriptions does not close, and a full subscription misses messages.  *)
(***************************************************************************)
EXTENDS Naturals, Sequences, FiniteSets, SequencesExt

CONSTANTS
  MaxJoins,      (* bounds: how often the topic is joined,                 *)
  MaxSubs,       (* how often it is subscribed to,                         *)
  MaxMessages,   (* and how many messages are published                    *)
  Room           (* messages a subscription holds                          *)

VARIABLES
  startUp,       (* 0, 1 while starting, 2                                 *)
  ctxDone,       (* the service's context has ended                        *)
  topic,         (* the handle in topicMap, 0 for none                     *)
  joins,         (* handles given out                                      *)
  open,          (* those not closed                                       *)
  subscribed,    (* subscribedTopics: 0 none, Silent without subscription  *)
  pending,       (* SubscribeWithTopic between its two locks               *)
  handleOf,      (* per subscription: the handle it was made on            *)
  live,          (* subscriptions not cancelled                            *)
  buf,           (* per subscription: messages delivered and not taken     *)
  loops,         (* subscriptions whose loop runs                          *)
  last,          (* per subscription: the message it took last             *)
  kinds,         (* the messages published, in order                       *)
  handled        (* per message: how often the handler was called with it  *)

topicVars == <<topic, joins, open>>
subVars   == <<subscribed, pending, handleOf, live>>
loopVars  == <<buf, loops, last, kinds, handled>>
vars == <<startUp, ctxDone, topicVars, subVars, loopVars>>

Sub     == 1 .. MaxSubs
Silent  == MaxSubs + 1
Message == 1 .. MaxMessages

(* A message of this node, one that does not parse, one that parses but    *)
(* has no Message in it, one directed to another node, one for this node.  *)
Kind == {"own", "bad", "bare", "others", "ours"}
NoCall == [handle |-> 0, subscribe |-> FALSE]

TypeOK ==
  /\ startUp \in 0 .. 2
  /\ ctxDone \in BOOLEAN
  /\ joins \in 0 .. MaxJoins
  /\ topic \in 0 .. joins
  /\ open \subseteq 1 .. joins
  /\ subscribed \in 0 .. Silent
  /\ pending \in [handle : 0 .. joins, subscribe : BOOLEAN]
  /\ handleOf \in [Sub -> 0 .. joins]
  /\ live \subseteq Sub
  /\ loops \subseteq Sub
  /\ kinds \in Seq(Kind)
  /\ buf \in [Sub -> Seq(Message)]
  /\ last \in [Sub -> 0 .. MaxMessages]
  /\ handled \in [Message -> Nat]

Init ==
  /\ startUp = 0
  /\ ctxDone = FALSE
  /\ topic = 0
  /\ joins = 0
  /\ open = {}
  /\ subscribed = 0
  /\ pending = NoCall
  /\ handleOf = [s \in Sub |-> 0]
  /\ live = {}
  /\ buf = [s \in Sub |-> <<>>]
  /\ loops = {}
  /\ last = [s \in Sub |-> 0]
  /\ kinds = <<>>
  /\ handled = [m \in Message |-> 0]

-----------------------------------------------------------------------------
(* A start that fails is never repeated: startUp stays 1.                  *)
StartBegins ==
  /\ startUp = 0
  /\ startUp' = 1
  /\ UNCHANGED <<ctxDone, topicVars, subVars, loopVars>>

StartEnds ==
  /\ startUp = 1
  /\ startUp' = 2
  /\ UNCHANGED <<ctxDone, topicVars, subVars, loopVars>>

Running == startUp = 2

(* GetTopic, with the topic of the given handle as its result.             *)
GetTopic(h) ==
  IF topic # 0
  THEN h = topic /\ UNCHANGED topicVars
  ELSE /\ joins < MaxJoins
       /\ h = joins + 1
       /\ topic' = h
       /\ joins' = h
       /\ open' = open \cup {h}

(* Publish and Subscribe join the topic when it is not in the map.         *)
Join ==
  /\ Running
  /\ topic = 0
  /\ \E h \in 1 .. MaxJoins : GetTopic(h)
  /\ UNCHANGED <<startUp, ctxDone, subVars, loopVars>>

(* SubscribeWithTopic.                                                     *)
SubscribeLockFree == pending = NoCall

SubscribeBegins ==
  /\ Running
  /\ SubscribeLockFree
  /\ subscribed = 0
  /\ \E h \in 1 .. MaxJoins, b \in BOOLEAN :
       GetTopic(h) /\ pending' = [handle |-> h, subscribe |-> b]
  /\ UNCHANGED <<startUp, ctxDone, subscribed, handleOf, live, loopVars>>

Unused == {s \in Sub : handleOf[s] = 0}

SubscribeEnds ==
  /\ ~ SubscribeLockFree
  /\ pending' = NoCall
  /\ IF pending.subscribe /\ pending.handle \in open
     THEN \E s \in Unused :
            /\ \A r \in Unused : s <= r
            /\ subscribed' = s
            /\ handleOf' = [handleOf EXCEPT ![s] = pending.handle]
            /\ live' = live \cup {s}
            /\ loops' = loops \cup {s}
     ELSE /\ subscribed' = IF pending.subscribe THEN subscribed ELSE Silent
          /\ UNCHANGED <<handleOf, live, loops>>
  /\ UNCHANGED <<startUp, ctxDone, topicVars, buf, last, kinds, handled>>

CancelSubscribe ==
  /\ Running
  /\ SubscribeLockFree
  /\ subscribed # 0
  /\ live' = live \ {subscribed}
  /\ subscribed' = 0
  /\ UNCHANGED <<startUp, ctxDone, topicVars, pending, handleOf, loopVars>>

(* It fails while the topic has subscriptions.                             *)
CancelPubsub ==
  /\ Running
  /\ topic # 0
  /\ \A s \in live : handleOf[s] # topic
  /\ open' = open \ {topic}
  /\ topic' = 0
  /\ UNCHANGED <<startUp, ctxDone, joins, subVars, loopVars>>

-----------------------------------------------------------------------------
(* A message, of this node or another, reaches the subscriptions.          *)
Deliver(k) ==
  /\ Running
  /\ ~ ctxDone
  /\ live # {}
  /\ Len(kinds) < MaxMessages
  /\ kinds' = Append(kinds, k)
  /\ buf' = [s \in Sub |-> IF s \in live /\ Len(buf[s]) < Room
                           THEN Append(buf[s], Len(kinds')) ELSE buf[s]]
  /\ UNCHANGED <<startUp, ctxDone, topicVars, subVars, loops, last, handled>>

EndContext ==
  /\ ~ ctxDone
  /\ ctxDone' = TRUE
  /\ UNCHANGED <<startUp, topicVars, subVars, loopVars>>

Take_EndsOnOwn(s) ==
  /\ s \in loops
  /\ buf[s] # <<>>
  /\ last' = [last EXCEPT ![s] = Head(buf[s])]
  /\ buf' = [buf EXCEPT ![s] = Tail(@)]
  /\ LET kind == kinds[Head(buf[s])] IN
       /\ loops' = CASE kind \in {"bad", "own"} -> loops \ {s}
                     [] kind = "bare"          -> {}
                     [] OTHER                  -> loops
       /\ handled' = IF kind = "ours" THEN [handled EXCEPT ![Head(buf[s])] = @ + 1]
                                      ELSE handled
  /\ UNCHANGED <<startUp, ctxDone, topicVars, subVars, kinds>>

(* topicSubLoop: a message that does not parse ends it; one that has no    *)
(* Message is read through a nil pointer, and as nothing recovers, that    *)
(* ends the program with all its loops.                                    *)
Take(s) ==
  /\ s \in loops
  /\ buf[s] # <<>>
  /\ last' = [last EXCEPT ![s] = Head(buf[s])]
  /\ buf' = [buf EXCEPT ![s] = Tail(@)]
  /\ LET kind == kinds[Head(buf[s])] IN
       /\ loops' = CASE kind = "bad"  -> loops \ {s}
                     [] kind = "bare" -> {}
                     [] OTHER         -> loops
       /\ handled' = IF kind = "ours" THEN [handled EXCEPT ![Head(buf[s])] = @ + 1]
                                      ELSE handled
  /\ UNCHANGED <<startUp, ctxDone, topicVars, subVars, kinds>>

LoopEnds(s) ==
  /\ s \in loops
  /\ ctxDone \/ (s \notin live /\ buf[s] = <<>>)
  /\ loops' = loops \ {s}
  /\ UNCHANGED <<startUp, ctxDone, topicVars, subVars, buf, last, kinds, handled>>

Loop(s) == Take(s) \/ LoopEnds(s)

Took(s, kind) == last[s] # 0 /\ kinds[last[s]] = kind

(* The program has ended in one of the loops.                              *)
Crashed == \E s \in Sub : Took(s, "bare")

Next ==
  /\ ~ Crashed
  /\ \/ StartBegins
     \/ StartEnds
     \/ Join
     \/ SubscribeBegins
     \/ SubscribeEnds
     \/ CancelSubscribe
     \/ CancelPubsub
     \/ \E k \in Kind : Deliver(k)
     \/ EndContext
     \/ \E s \in Sub : Loop(s)

Spec == Init /\ [][Next]_vars

FairSpec == Spec /\ \A s \in Sub : WF_vars(Loop(s))
-----------------------------------------------------------------------------
(* A message for this node that a subscription received is handled, even   *)
(* if the subscription is cancelled first; and a topic that counts as      *)
(* subscribed has a loop that reads.  Three things may prevent it, and     *)
(* nothing else: the end of the service's context, a message before it     *)
(* that does not parse, and, in any loop, one without a Message            *)
(* (topicSubLoop).                                                         *)
ReceivedIsHandled ==
  /\ \A s \in Sub, m \in Message :
       (s \in loops /\ m \in ToSet(buf[s]) /\ kinds[m] = "ours")
         ~> (handled[m] = 1 \/ ctxDone \/ Took(s, "bad") \/ Crashed)
  /\ [](subscribed \in Sub \ loops => ctxDone \/ Took(subscribed, "bad") \/ Crashed)
=============================================================================
