-------------------------------- MODULE Rpc --------------------------------
(***************************************************************************)
(* What callers may rely on when they send to a remote peer: a call ends   *)
(* once; the remote handles it at most twice, because it is retried at     *)
(* most once; and a request is answered only if the remote handled it.     *)
(* Connections, streams and their reuse are invisible at this level.       *)
(***************************************************************************)
EXTENDS Naturals

CONSTANTS Client, Requests

VARIABLES
  call,      (* "idle", "pending", "ok" or "failed"                        *)
  handled    (* how often the remote handled the call                      *)

rpcVars == <<call, handled>>

RpcInit ==
  /\ call = [c \in Client |-> "idle"]
  /\ handled = [c \in Client |-> 0]

Begin(c) ==
  /\ call[c] = "idle"
  /\ call' = [call EXCEPT ![c] = "pending"]
  /\ UNCHANGED handled

(* What was sent may reach the remote after the call is over, one that     *)
(* failed included.                                                        *)
Handle(c) ==
  /\ call[c] # "idle"
  /\ handled[c] < 2
  /\ handled' = [handled EXCEPT ![c] = @ + 1]
  /\ UNCHANGED call

Succeed(c) ==
  /\ call[c] = "pending"
  /\ c \in Requests => handled[c] > 0
  /\ call' = [call EXCEPT ![c] = "ok"]
  /\ UNCHANGED handled

GiveUp(c) ==
  /\ call[c] = "pending"
  /\ call' = [call EXCEPT ![c] = "failed"]
  /\ UNCHANGED handled

RpcNext == \E c \in Client : Begin(c) \/ Handle(c) \/ Succeed(c) \/ GiveUp(c)

RpcSpec == RpcInit /\ [][RpcNext]_rpcVars
============================================================================
