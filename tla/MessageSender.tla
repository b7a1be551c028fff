--------------------------- MODULE MessageSender ---------------------------
(***************************************************************************)
(* Sending requests and messages to one remote peer                        *)
(* (internal/net/message_manager.go, internal/ctx_mutex.go).               *)
(*                                                                         *)
(* All calls to a peer share the peerMessageSender kept in strmap, which   *)
(* keeps one stream open and is used by one call at a time, under a mutex  *)
(* whose Lock gives up when the caller's context is cancelled.  A sender   *)
(* is named after the client whose call created it: a call creates at most *)
(* one.                                                                    *)
(*                                                                         *)
(* A stream is two FIFO queues, of what the remote has yet to handle and   *)
(* of answers not yet read.  A reset takes the answers away; what was      *)
(* written before may still reach the remote, long after the caller has    *)
(* given up, or be lost.  Answers carry no identity in the code; here they *)
(* carry their request's, to tell whose they are.  Opening, writing and    *)
(* reading may fail at any time: broken connections, the remote's resets,  *)
(* timeouts and cancelled contexts look the same.                          *)
(***************************************************************************)
EXTENDS Integers, FiniteSets, Sequences

CONSTANTS
  Client,      (* calls, each made once                                    *)
  Requests,    (* those that go through SendRequest; others SendMessage    *)
  MayCancel,   (* calls whose context may be cancelled                     *)
  MayClose,    (* whether the DHT may be closed while calls go on          *)
  ReuseTries,  (* streamReuseTries                                         *)
  NoOne

ASSUME SenderAssumption ==
  /\ Requests \subseteq Client
  /\ MayCancel \subseteq Client
  /\ MayClose \in BOOLEAN
  /\ ReuseTries \in Nat
  /\ NoOne \notin Client

Sender == Client

VARIABLES
  strmap,     (* the peer's sender in strmap, or NoOne                     *)
  ctxDone,    (* whether dht.ctx is done, with which OnDisconnect is called *)
  dropping,   (* senders whose invalidation OnDisconnect has started       *)
  lk,         (* who holds each sender's mutex                             *)
  open,       (* whether a sender has a stream                             *)
  invalid, singleMes,  (* fields of each sender                            *)
  out, in,    (* the two directions of each sender's stream                *)
  stray,      (* each call's copies under way on closed or reset streams   *)
  handled,    (* how often the remote handled each call                    *)
  pc, ms, retry, got   (* each call: its step, sender, retry flag, answer  *)

streamVars == <<open, out, in, stray>>
senderVars == <<lk, invalid, singleMes>>
callVars   == <<ms, retry, got>>
vars == <<strmap, ctxDone, dropping, streamVars, senderVars, handled, pc, callVars>>

Idle      == {"idle"}
Returned  == {"ok", "failed"}
Holding   == {"prep", "ready", "write", "read"}

TypeOK ==
  /\ strmap \in Sender \cup {NoOne}
  /\ ctxDone \in BOOLEAN
  /\ dropping \subseteq Sender
  /\ lk \in [Sender -> Client \cup {NoOne}]
  /\ open \in [Sender -> BOOLEAN]
  /\ invalid \in [Sender -> BOOLEAN]
  /\ singleMes \in [Sender -> 0..ReuseTries + 1]
  /\ out \in [Sender -> Seq(Client)]
  /\ in \in [Sender -> Seq(Requests)]
  /\ stray \in [Client -> 0..2]
  /\ handled \in [Client -> 0..2]
  /\ pc \in [Client -> Idle \cup {"prepLock", "prepFailed", "lock"} \cup Holding \cup Returned]
  /\ ms \in [Client -> Sender \cup {NoOne}]
  /\ retry \in [Client -> BOOLEAN]
  /\ got \in [Client -> Requests \cup {NoOne}]

Init ==
  /\ strmap = NoOne
  /\ ctxDone = FALSE
  /\ dropping = {}
  /\ lk = [m \in Sender |-> NoOne]
  /\ open = [m \in Sender |-> FALSE]
  /\ invalid = [m \in Sender |-> FALSE]
  /\ singleMes = [m \in Sender |-> 0]
  /\ out = [m \in Sender |-> <<>>]
  /\ in = [m \in Sender |-> <<>>]
  /\ stray = [c \in Client |-> 0]
  /\ handled = [c \in Client |-> 0]
  /\ pc = [c \in Client |-> "idle"]
  /\ ms = [c \in Client |-> NoOne]
  /\ retry = [c \in Client |-> FALSE]
  /\ got = [c \in Client |-> NoOne]

-----------------------------------------------------------------------------
Goto(c, step) == pc' = [pc EXCEPT ![c] = step]
Free(m)       == lk[m] = NoOne
Lock(m, c)    == Free(m) /\ lk' = [lk EXCEPT ![m] = c]
Unlock(m)     == lk' = [lk EXCEPT ![m] = NoOne]

OpenStream(m) == open' = [open EXCEPT ![m] = TRUE] /\ UNCHANGED <<out, in, stray>>

(* The messages of a queue stay under way without a stream of their own.   *)
Astray(queue) ==
  [c \in Client |-> stray[c] + (IF \E i \in DOMAIN queue : queue[i] = c THEN 1 ELSE 0)]

ResetStream_KeepsAnswers(m, queue) ==
  /\ open' = [open EXCEPT ![m] = FALSE]
  /\ stray' = Astray(queue)
  /\ out' = [out EXCEPT ![m] = <<>>]
  /\ UNCHANGED in

ResetStream(m, queue) ==
  /\ open' = [open EXCEPT ![m] = FALSE]
  /\ stray' = Astray(queue)
  /\ out' = [out EXCEPT ![m] = <<>>]
  /\ in' = [in EXCEPT ![m] = <<>>]

-----------------------------------------------------------------------------
(* messageSenderForPeer.                                                   *)

FindSender(c) ==
  /\ pc[c] = "idle"
  /\ strmap # NoOne
  /\ ms' = [ms EXCEPT ![c] = strmap]
  /\ Goto(c, "lock")
  /\ UNCHANGED <<ctxDone, strmap, dropping, streamVars, senderVars, handled, retry, got>>

CreateSender(c) ==
  /\ pc[c] = "idle"
  /\ strmap = NoOne
  /\ strmap' = c
  /\ ms' = [ms EXCEPT ![c] = c]
  /\ Goto(c, "prepLock")
  /\ UNCHANGED <<ctxDone, dropping, streamVars, senderVars, handled, retry, got>>

(* prepOrInvalidate; Lock may give up instead.                             *)
LockForPrep(c) ==
  /\ pc[c] = "prepLock"
  /\ Lock(ms[c], c)
  /\ Goto(c, "prep")
  /\ UNCHANGED <<ctxDone, strmap, dropping, streamVars, invalid, singleMes, handled, callVars>>

GiveUpPrep(c) ==
  /\ pc[c] = "prepLock"
  /\ c \in MayCancel
  /\ Goto(c, "prepFailed")
  /\ UNCHANGED <<ctxDone, strmap, dropping, streamVars, senderVars, handled, callVars>>

Prepared(c) ==
  /\ pc[c] = "prep"
  /\ ~ invalid[ms[c]]
  /\ OpenStream(ms[c])
  /\ Unlock(ms[c])
  /\ Goto(c, "lock")
  /\ UNCHANGED <<ctxDone, strmap, dropping, invalid, singleMes, handled, callVars>>

PrepFails(c) ==
  /\ pc[c] = "prep"
  /\ invalid[ms[c]] \/ ~ open[ms[c]]
  /\ invalid' = [invalid EXCEPT ![ms[c]] = TRUE]
  /\ ResetStream(ms[c], out[ms[c]])
  /\ Unlock(ms[c])
  /\ Goto(c, "prepFailed")
  /\ UNCHANGED <<ctxDone, strmap, dropping, singleMes, handled, callVars>>

(* The map has another sender by now, or this one has to go.               *)
PrepFailed(c) ==
  /\ pc[c] = "prepFailed"
  /\ IF strmap \notin {NoOne, ms[c]}
     THEN /\ ms' = [ms EXCEPT ![c] = strmap]
          /\ Goto(c, "lock")
          /\ UNCHANGED strmap
     ELSE /\ strmap' = NoOne
          /\ Goto(c, "failed")
          /\ UNCHANGED ms
  /\ UNCHANGED <<ctxDone, dropping, streamVars, senderVars, handled, retry, got>>

-----------------------------------------------------------------------------
(* SendRequest and SendMessage of the sender.                              *)

LockForSend(c) ==
  /\ pc[c] = "lock"
  /\ Lock(ms[c], c)
  /\ Goto(c, "ready")
  /\ UNCHANGED <<ctxDone, strmap, dropping, streamVars, invalid, singleMes, handled, callVars>>

GiveUpSend(c) ==
  /\ pc[c] = "lock"
  /\ c \in MayCancel
  /\ Goto(c, "failed")
  /\ UNCHANGED <<ctxDone, strmap, dropping, streamVars, senderVars, handled, callVars>>

Prep(c) ==
  /\ pc[c] = "ready"
  /\ ~ invalid[ms[c]]
  /\ OpenStream(ms[c])
  /\ Goto(c, "write")
  /\ UNCHANGED <<ctxDone, strmap, dropping, senderVars, handled, callVars>>

PrepError_KeepsLock(c) ==
  /\ pc[c] = "ready"
  /\ invalid[ms[c]] \/ ~ open[ms[c]]
  /\ Goto(c, "failed")
  /\ UNCHANGED <<ctxDone, strmap, dropping, streamVars, senderVars, handled, callVars>>

PrepError(c) ==
  /\ pc[c] = "ready"
  /\ invalid[ms[c]] \/ ~ open[ms[c]]
  /\ Unlock(ms[c])
  /\ Goto(c, "failed")
  /\ UNCHANGED <<ctxDone, strmap, dropping, streamVars, invalid, singleMes, handled, callVars>>

(* The call is through.  A sender that had to retry too often closes its   *)
(* stream after every call, and fails the call if Close fails; what was    *)
(* written before is still delivered.                                      *)
Finish(c, unhandled) ==
  LET m == ms[c] IN
  /\ Unlock(m)
  /\ \/ /\ singleMes[m] > ReuseTries
        /\ open' = [open EXCEPT ![m] = FALSE]
        /\ out' = [out EXCEPT ![m] = <<>>]
        /\ stray' = Astray(unhandled)
        /\ \E step \in Returned : Goto(c, step)
        /\ UNCHANGED singleMes
     \/ /\ singleMes[m] <= ReuseTries
        /\ singleMes' = [singleMes EXCEPT ![m] = IF retry[c] THEN @ + 1 ELSE @]
        /\ out' = [out EXCEPT ![m] = unhandled]
        /\ Goto(c, "ok")
        /\ UNCHANGED <<open, stray>>

WriteRequest(c) ==
  /\ pc[c] = "write"
  /\ c \in Requests
  /\ out' = [out EXCEPT ![ms[c]] = Append(@, c)]
  /\ Goto(c, "read")
  /\ UNCHANGED <<ctxDone, strmap, dropping, open, in, stray, senderVars, handled, callVars>>

WriteMessage(c) ==
  /\ pc[c] = "write"
  /\ c \notin Requests
  /\ Finish(c, Append(out[ms[c]], c))
  /\ UNCHANGED <<ctxDone, strmap, dropping, in, invalid, handled, callVars>>

ReadResponse(c) ==
  /\ pc[c] = "read"
  /\ in[ms[c]] # <<>>
  /\ got' = [got EXCEPT ![c] = Head(in[ms[c]])]
  /\ in' = [in EXCEPT ![ms[c]] = Tail(@)]
  /\ Finish(c, out[ms[c]])
  /\ UNCHANGED <<ctxDone, strmap, dropping, invalid, handled, ms, retry>>

Broken_RetriesAgain(c) ==
  /\ pc[c] \in {"write", "read"}
  /\ ResetStream(ms[c], out[ms[c]])
  /\ retry' = [retry EXCEPT ![c] = TRUE]
  /\ Goto(c, "ready")
  /\ UNCHANGED <<ctxDone, strmap, dropping, senderVars, handled, ms, got>>

(* Writing failed, perhaps after the message had gone out, or reading      *)
(* failed or took too long: once more, on a new stream.                    *)
Broken(c) ==
  /\ pc[c] \in {"write", "read"}
  /\ \/ ResetStream(ms[c], out[ms[c]])
     \/ pc[c] = "write" /\ ResetStream(ms[c], Append(out[ms[c]], c))
  /\ IF retry[c]
     THEN Unlock(ms[c]) /\ Goto(c, "failed") /\ UNCHANGED retry
     ELSE retry' = [retry EXCEPT ![c] = TRUE] /\ Goto(c, "ready") /\ UNCHANGED lk
  /\ UNCHANGED <<ctxDone, strmap, dropping, invalid, singleMes, handled, ms, got>>

-----------------------------------------------------------------------------
OnDisconnect_KeepsEntry ==
  /\ strmap # NoOne
  /\ dropping' = dropping \cup {strmap}
  /\ UNCHANGED <<ctxDone, strmap, streamVars, senderVars, handled, pc, callVars>>

OnDisconnect ==
  /\ strmap # NoOne
  /\ dropping' = dropping \cup {strmap}
  /\ strmap' = NoOne
  /\ UNCHANGED <<ctxDone, streamVars, senderVars, handled, pc, callVars>>

(* The DHT is closed, which ends the context that OnDisconnect got.        *)
EndContext ==
  /\ MayClose /\ ~ ctxDone
  /\ ctxDone' = TRUE
  /\ UNCHANGED <<strmap, dropping, streamVars, senderVars, handled, pc, callVars>>

(* The goroutine that OnDisconnect starts, once it has the mutex, or when  *)
(* its context is done while it waits.                                     *)
Invalidate(m) ==
  /\ m \in dropping
  /\ Free(m)
  /\ dropping' = dropping \ {m}
  /\ invalid' = [invalid EXCEPT ![m] = TRUE]
  /\ ResetStream(m, out[m])
  /\ UNCHANGED <<ctxDone, strmap, lk, singleMes, handled, pc, callVars>>

Abandon(m) ==
  /\ m \in dropping
  /\ ctxDone
  /\ dropping' = dropping \ {m}
  /\ UNCHANGED <<ctxDone, strmap, streamVars, senderVars, handled, pc, callVars>>

(* The remote reads in order and answers requests.                         *)
Serve(m) ==
  /\ out[m] # <<>>
  /\ LET c == Head(out[m]) IN
     /\ handled' = [handled EXCEPT ![c] = @ + 1]
     /\ in' = IF c \in Requests THEN [in EXCEPT ![m] = Append(@, c)] ELSE in
  /\ out' = [out EXCEPT ![m] = Tail(@)]
  /\ UNCHANGED <<ctxDone, strmap, dropping, open, stray, senderVars, pc, callVars>>

ServeStray(c) ==
  /\ stray[c] > 0
  /\ handled' = [handled EXCEPT ![c] = @ + 1]
  /\ stray' = [stray EXCEPT ![c] = @ - 1]
  /\ UNCHANGED <<ctxDone, strmap, dropping, open, out, in, senderVars, pc, callVars>>

Call(c) ==
  \/ FindSender(c) \/ CreateSender(c)
  \/ LockForPrep(c) \/ Prepared(c) \/ PrepFails(c) \/ PrepFailed(c)
  \/ LockForSend(c) \/ Prep(c) \/ PrepError(c)
  \/ WriteRequest(c) \/ WriteMessage(c) \/ ReadResponse(c) \/ Broken(c)

Next ==
  \/ \E c \in Client : Call(c) \/ GiveUpPrep(c) \/ GiveUpSend(c) \/ ServeStray(c)
  \/ \E m \in Sender : Invalidate(m) \/ Abandon(m) \/ Serve(m)
  \/ OnDisconnect \/ EndContext

Spec == Init /\ [][Next]_vars

(* Goroutines are scheduled; opening a stream and reading end, at the      *)
(* latest when they time out.  A write may block for as long as the remote *)
(* does not read: writeMsg knows neither the context nor a deadline.  The  *)
(* remote need not do anything, nobody's context need be cancelled.        *)
FairSpec ==
  /\ Spec
  /\ \A c \in Client : WF_vars(Call(c) /\ pc[c] \notin {"idle", "write"})
  /\ \A m \in Sender : WF_vars(Invalidate(m) \/ Abandon(m))
-----------------------------------------------------------------------------
(* Answers carry no identity, and many calls share a stream: still each    *)
(* request gets its own answer, because a stream whose answer came too     *)
(* late is reset before the next call uses it.                             *)
OwnAnswer == \A c \in Client : got[c] \in {NoOne, c}

(* The comment on invalidate: a sender taken out of service is not brought *)
(* back by a call that still refers to it; its stream stays closed.        *)
InvalidStaysClosed == \A m \in Sender : invalid[m] => ~ open[m]

(* An invalid sender does not stay in the map, where every later call to   *)
(* the peer would find it and fail: whoever invalidates it removes it.     *)
InvalidLeavesMap ==
  strmap # NoOne /\ invalid[strmap] =>
    \E c \in Client : pc[c] = "prepFailed" /\ ms[c] = strmap

(* Until the DHT is closed, every stream in use belongs to the sender in   *)
(* the map, or to one that a call or a pending invalidation still has to   *)
(* do with.                                                                *)
NoForgottenStream ==
  \A m \in Sender :
    open[m] /\ ~ ctxDone =>
      \/ strmap = m
      \/ m \in dropping
      \/ \E c \in Client : ms[c] = m /\ pc[c] \notin Returned

(* Unless some call's write blocks for ever, a call that has begun         *)
(* returns.                                                                *)
WritesEnd   == \A c \in Client : []<>(pc[c] # "write")
CallsReturn == WritesEnd => \A c \in Client : pc[c] # "idle" ~> pc[c] \in Returned

(* Reuse, retries and disconnections implement plain calls that the remote *)
(* handles at most twice.                                                  *)
CallOf(c) ==
  CASE pc[c] = "idle" -> "idle"
    [] pc[c] \in Returned -> pc[c]
    [] OTHER -> "pending"
R == INSTANCE Rpc WITH call <- [c \in Client |-> CallOf(c)]
RpcSpec == R!RpcSpec
=============================================================================
