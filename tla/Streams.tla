------------------------------ MODULE Streams -------------------------------
(***************************************************************************)
(* Requests over streams (streams/wrapper.go, tool.go, register.go): each  *)
(* inbound stream has a goroutine, which protects its peer, reads the      *)
(* request, calls the handler, writes the response and closes the stream.  *)
(*                                                                         *)
(* The message that ReadStream returns lies in a buffer that is already    *)
(* back in the pool, which another stream's goroutine may take from it     *)
(* before the request is parsed.  Pool and message framing are libraries   *)
(* (go-buffer-pool, go-msgio); a request is named by its stream.           *)
(***************************************************************************)
EXTENDS Naturals, FiniteSets

CONSTANTS
  Stream,       (* inbound streams; each carries one request               *)
  Peer,         (* their peers                                             *)
  Buffer,       (* the pool's buffers                                      *)
  NoStream, NoBuffer,
  MaxRetries    (* maxRetries                                              *)

VARIABLES
  kind,         (* how the protocol's handler is wrapped: rw, read, write  *)
  at,           (* per stream: new, header, body, read, returned,          *)
                (* replying, closing, awaiting, ended                      *)
  peerOf,       (* per stream: its peer, once it is open                   *)
  attempt,      (* per stream: attempts at the header                      *)
  cut,          (* streams that lost a part of the header to a timeout     *)
  buffer,       (* per stream: the buffer its message is in                *)
  free,         (* buffers in the pool                                     *)
  content,      (* per buffer: whose message it holds                      *)
  request,      (* per stream: the request that was parsed                 *)
  protected     (* peers the connection manager must keep                  *)

fixedVars == <<kind, peerOf>>
dataVars  == <<cut, buffer, free, content, request>>
vars      == <<fixedVars, at, attempt, dataVars, protected>>

TypeOK ==
  /\ kind \in {"rw", "read", "write"}
  /\ at \in [Stream -> {"new", "header", "body", "read", "returned", "replying",
                        "closing", "awaiting", "ended"}]
  /\ peerOf \in [Stream -> Peer]
  /\ attempt \in [Stream -> 0 .. MaxRetries]
  /\ cut \subseteq Stream
  /\ buffer \in [Stream -> Buffer \cup {NoBuffer}]
  /\ free \subseteq Buffer
  /\ content \in [Buffer -> Stream \cup {NoStream}]
  /\ request \in [Stream -> Stream \cup {NoStream}]
  /\ protected \subseteq Peer

Init ==
  /\ kind \in {"rw", "read", "write"}
  /\ at = [s \in Stream |-> "new"]
  /\ peerOf \in [Stream -> Peer]
  /\ attempt = [s \in Stream |-> 0]
  /\ cut = {}
  /\ buffer = [s \in Stream |-> NoBuffer]
  /\ free = Buffer
  /\ content = [b \in Buffer |-> NoStream]
  /\ request = [s \in Stream |-> NoStream]
  /\ protected = {}

-----------------------------------------------------------------------------
Goes(s, from, to) == at[s] = from /\ at' = [at EXCEPT ![s] = to]

(* The handler of RegisterStreamHandler protects the peer under the        *)
(* protocol's tag, which is one for all the streams of the peer.           *)
(* HandlerWithWrite, which expects no request, begins with its handler.    *)
Open(s) ==
  /\ Goes(s, "new", IF kind = "write" THEN "returned" ELSE "header")
  /\ protected' = protected \cup {peerOf[s]}
  /\ UNCHANGED <<fixedVars, attempt, dataVars>>

HeaderTimeout_Uncounted(s) ==
  /\ \E c \in {cut, cut \cup {s}} : cut' = c
  /\ Goes(s, "header", "header")
  /\ UNCHANGED <<fixedVars, attempt, buffer, free, content, request, protected>>

(* ReadStream: a timeout counts as an attempt, and what was read of the    *)
(* header by then is lost.                                                 *)
HeaderTimeout(s) ==
  /\ attempt[s] < MaxRetries
  /\ attempt' = [attempt EXCEPT ![s] = @ + 1]
  /\ \E c \in {cut, cut \cup {s}} : cut' = c
  /\ Goes(s, "header", IF attempt'[s] = MaxRetries THEN "replying" ELSE "header")
  /\ UNCHANGED <<fixedVars, buffer, free, content, request, protected>>

HeaderFails(s) ==
  /\ Goes(s, "header", "replying")
  /\ UNCHANGED <<fixedVars, attempt, dataVars, protected>>

HeaderRead(s) ==
  /\ Goes(s, "header", "body")
  /\ UNCHANGED <<fixedVars, attempt, dataVars, protected>>

(* The message is read into a buffer of the pool, without a deadline.      *)
BodyRead(s) ==
  /\ s \notin cut
  /\ Goes(s, "body", "read")
  /\ \E b \in free :
       /\ buffer' = [buffer EXCEPT ![s] = b]
       /\ free' = free \ {b}
       /\ content' = [content EXCEPT ![b] = s]
  /\ UNCHANGED <<fixedVars, attempt, cut, request, protected>>

(* After a cut header, the length is taken from the wrong bytes.           *)
BodyFails(s) ==
  /\ Goes(s, "body", "replying")
  /\ UNCHANGED <<fixedVars, attempt, dataVars, protected>>

(* The deferred ReleaseMsg, as ReadStream returns.                         *)
Release(s) ==
  /\ at[s] = "read"
  /\ buffer[s] \notin free
  /\ free' = free \cup {buffer[s]}
  /\ Goes(s, "read", "returned")
  /\ UNCHANGED <<fixedVars, attempt, cut, buffer, content, request, protected>>

(* The handler is called with the request as it is parsed, and returns.    *)
Handle(s) ==
  /\ kind # "write"
  /\ Goes(s, "returned", "replying")
  /\ request' = [request EXCEPT ![s] = content[buffer[s]]]
  /\ UNCHANGED <<fixedVars, attempt, cut, buffer, free, content, protected>>

(* No call: the request does not parse; or the handler wants none.         *)
HandleNone(s) ==
  /\ Goes(s, "returned", "replying")
  /\ UNCHANGED <<fixedVars, attempt, dataVars, protected>>

Unprotect(s) == protected' = protected \ {peerOf[s]}

Panics_Protected(s) ==
  /\ Goes(s, "returned", "ended")
  /\ UNCHANGED <<fixedVars, attempt, dataVars, protected>>

(* The handler panics, which HandlerWithClose recovers from: a reset.      *)
Panics(s) ==
  /\ Goes(s, "returned", "ended")
  /\ Unprotect(s)
  /\ UNCHANGED <<fixedVars, attempt, dataVars>>

(* The message goes out or the write fails, which is only logged.          *)
WriteStream(s) == Goes(s, "replying", "closing")

(* A response, request or error is written, unless the handler only reads  *)
(* or has nothing to send; then the wrapped handler returns.               *)
Reply(s) ==
  /\ IF kind = "read" THEN Goes(s, "replying", "closing") ELSE WriteStream(s)
  /\ Unprotect(s)
  /\ UNCHANGED <<fixedVars, attempt, dataVars>>

(* CloseStream: this side closes, or fails to; another goroutine sees to   *)
(* the peer's side, with a deadline and a timer that resets the stream.    *)
CloseStream(s) ==
  /\ Goes(s, "closing", "awaiting") \/ Goes(s, "closing", "ended")
  /\ UNCHANGED <<fixedVars, attempt, dataVars, protected>>

AwaitEOF(s) ==
  /\ Goes(s, "awaiting", "ended")
  /\ UNCHANGED <<fixedVars, attempt, dataVars, protected>>

(* What the peer does or leaves: its connection may also fail.             *)
Arrives(s) == HeaderRead(s) \/ HeaderFails(s) \/ BodyRead(s) \/ BodyFails(s)

(* Steps of the goroutine that do not wait for the peer's next message.    *)
Runs(s) ==
  \/ HeaderTimeout(s)
  \/ Release(s)
  \/ Handle(s)
  \/ HandleNone(s)
  \/ Panics(s)
  \/ Reply(s)
  \/ CloseStream(s)
  \/ AwaitEOF(s)

Next == \E s \in Stream : Open(s) \/ Arrives(s) \/ Runs(s)

Spec == Init /\ [][Next]_vars

FairSpec == Spec /\ \A s \in Stream : WF_vars(Runs(s))
-----------------------------------------------------------------------------
(* When none of a peer's streams is served any more, it is not protected,  *)
(* however the goroutines end.  (The converse does not hold: the first one *)
(* to end takes the protection from the others.)                           *)
NoProtectionLeft ==
  \A p \in protected :
    \E s \in Stream : peerOf[s] = p /\ at[s] \in {"header", "body", "read", "returned", "replying"}

(* Every stream ends, with at most MaxRetries waits for the header, unless *)
(* its peer stalls in the middle of the request: the body has no deadline. *)
StreamEnds ==
  \A s \in Stream : at[s] \notin {"new", "body"} ~> at[s] \in {"body", "ended"}

(* ReadStream reads the message of its stream: what the handler is called  *)
(* with came over the handler's own stream.                                *)
ReadIsOwn == \A s \in Stream : request[s] \in {s, NoStream}
=============================================================================
