------------------------- MODULE MessageSenderProofs -------------------------
(***************************************************************************)
(* Theorems about MessageSender: for any number of calls and any           *)
(* ReuseTries, requests get their own answers, senders out of service stay *)
(* so and leave the map, and the sender implements Rpc.                    *)
(*                                                                         *)
(* The inductive invariant says who holds each mutex (Locks), whose        *)
(* messages a stream carries (Streams), and that the copies of a call under *)
(* way and those handled are no more than were written, two (Copies).      *)
(***************************************************************************)
EXTENDS MessageSender, TLAPS

Steps == Idle \cup {"prepLock", "prepFailed", "lock"} \cup Holding \cup Returned

(* A call past its first step has a sender; it holds its sender's mutex    *)
(* exactly while it works on the stream.                                   *)
Locks ==
  /\ \A c \in Client : pc[c] # "idle" => ms[c] \in Sender
  /\ \A c \in Client : pc[c] \in Holding => lk[ms[c]] = c
  /\ \A m \in Sender : lk[m] # NoOne => pc[lk[m]] \in Holding /\ ms[lk[m]] = m

(* A request is on a stream only while its call holds the stream and reads *)
(* from it, and then it is the last; the one answer to be read is its.     *)
Streams ==
  /\ \A m \in Sender : \A i \in DOMAIN out[m] :
       IF out[m][i] \in Requests
       THEN /\ i = Len(out[m])
            /\ lk[m] = out[m][i]
            /\ pc[out[m][i]] = "read"
            /\ in[m] = <<>>
       ELSE pc[out[m][i]] \in Returned
  /\ \A m \in Sender : in[m] # <<>> =>
       /\ lk[m] \in Requests
       /\ in[m] = <<lk[m]>>
       /\ pc[lk[m]] = "read"
       /\ handled[lk[m]] > 0

OnStream(c) == \E m \in Sender : \E i \in DOMAIN out[m] : out[m][i] = c

UnderWay(c) == stray[c] + (IF OnStream(c) THEN 1 ELSE 0)

(* How often a call may have been written.                                 *)
Attempts(c) ==
  IF pc[c] \in Returned THEN 2
  ELSE IF pc[c] = "read" THEN (IF retry[c] THEN 2 ELSE 1)
  ELSE IF pc[c] \in {"ready", "write"} THEN (IF retry[c] THEN 1 ELSE 0)
  ELSE 0

(* A call has one copy at most on the stream of its own sender, and those  *)
(* under way and those handled are no more than were written.              *)
Copies ==
  /\ \A m \in Sender : \A i, j \in DOMAIN out[m] : out[m][i] = out[m][j] => i = j
  /\ \A m \in Sender : \A i \in DOMAIN out[m] : ms[out[m][i]] = m
  /\ \A c \in Client : handled[c] + UnderWay(c) <= Attempts(c)

(* A sender is not in use before the call it is named after; one that is   *)
(* being dropped is not in the map.                                        *)
Unborn ==
  /\ \A c \in Client : pc[c] = "idle" => c \notin dropping /\ ~ invalid[c] /\ strmap # c
  /\ \A c \in Client : pc[c] # "idle" => pc[ms[c]] # "idle"
  /\ strmap \notin dropping

IInv ==
  /\ TypeOK
  /\ Locks
  /\ Streams
  /\ Copies
  /\ Unborn
  /\ InvalidStaysClosed
  /\ InvalidLeavesMap
  /\ OwnAnswer

-----------------------------------------------------------------------------
(* Only a call that reads, or one that is over, can be on a stream.        *)
LEMMA OnStreamWhere ==
  ASSUME Streams, NEW c \in Client, OnStream(c)
  PROVE  pc[c] \in {"read"} \cup Returned
BY DEF Streams, OnStream

LEMMA InitIInv == Init => IInv
<1> SUFFICES ASSUME Init PROVE IInv
  OBVIOUS
<1>1. TypeOK
  <2>1. 0 \in 0..ReuseTries + 1
    BY SenderAssumption
  <2>2. <<>> \in Seq(Client) /\ <<>> \in Seq(Requests)
    OBVIOUS
  <2>3. stray \in [Client -> 0..2]
    BY DEF Init
  <2>4. ctxDone \in BOOLEAN
    BY DEF Init
  <2> QED  BY <2>1, <2>2, <2>3, <2>4 DEF Init, TypeOK, Sender, Idle
<1>2. Locks /\ Unborn /\ InvalidStaysClosed /\ InvalidLeavesMap /\ OwnAnswer
  BY SenderAssumption DEF Init, Locks, Holding, Unborn, Sender, InvalidStaysClosed, InvalidLeavesMap,
     OwnAnswer
<1>3. Streams
  BY DEF Init, Streams
<1>4. Copies
  <2>1. \A c \in Client : ~ OnStream(c)
    BY DEF Init, OnStream
  <2>2. \A c \in Client : handled[c] = 0 /\ stray[c] = 0 /\ Attempts(c) = 0
    BY DEF Init, Attempts, Returned
  <2>3. \A m \in Sender : DOMAIN out[m] = {}
    BY DEF Init
  <2> QED  BY <2>1, <2>2, <2>3 DEF Copies, UnderWay
<1> QED  BY <1>1, <1>2, <1>3, <1>4 DEF IInv

LEMMA Counts ==
  ASSUME TypeOK, NEW c \in Client
  PROVE  /\ handled[c] \in 0..2 /\ stray[c] \in 0..2 /\ UnderWay(c) \in Nat
         /\ Attempts(c) \in 0..2
         /\ UnderWay(c) = IF OnStream(c) THEN stray[c] + 1 ELSE stray[c]
<1>1. handled[c] \in 0..2 /\ stray[c] \in 0..2
  BY DEF TypeOK
<1>2. Attempts(c) \in 0..2
  BY DEF Attempts
<1>3. UnderWay(c) = IF OnStream(c) THEN stray[c] + 1 ELSE stray[c]
  BY <1>1 DEF UnderWay
<1> QED  BY <1>1, <1>2, <1>3

(* What is on its own sender's stream only goes astray with that stream.   *)
LEMMA GoneAstray ==
  ASSUME TypeOK, Copies, NEW m \in Sender, NEW queue \in Seq(Client),
         stray' = Astray(queue), out' = [out EXCEPT ![m] = <<>>], UNCHANGED handled,
         \A d \in Client : Attempts(d) <= Attempts(d)' /\ Attempts(d)' \in 0..2,
         \A i \in DOMAIN queue : \/ \E j \in DOMAIN out[m] : out[m][j] = queue[i]
                                 \/ Attempts(queue[i]) < Attempts(queue[i])'
  PROVE  /\ stray' \in [Client -> 0..2]
         /\ \A d \in Client : handled'[d] + UnderWay(d)' <= Attempts(d)'
<1>1. out'[m] = <<>> /\ DOMAIN out'[m] = {} /\ \A n \in Sender \ {m} : out'[n] = out[n]
  BY DEF TypeOK
<1>2. ASSUME NEW d \in Client
      PROVE  stray'[d] \in 0..2 /\ handled'[d] + UnderWay(d)' <= Attempts(d)'
  <2>1. /\ handled[d] \in 0..2 /\ stray[d] \in 0..2 /\ Attempts(d) \in 0..2
        /\ UnderWay(d) = (IF OnStream(d) THEN stray[d] + 1 ELSE stray[d])
        /\ handled[d] + UnderWay(d) <= Attempts(d)
    BY Counts DEF Copies
  <2>2. stray'[d] = stray[d] + (IF \E i \in DOMAIN queue : queue[i] = d THEN 1 ELSE 0)
    BY DEF Astray
  <2>3. UnderWay(d)' = stray'[d] + (IF OnStream(d)' THEN 1 ELSE 0)
    BY DEF UnderWay
  <2>4. OnStream(d)' => OnStream(d) /\ ms[d] # m
    <3> SUFFICES ASSUME OnStream(d)'  PROVE OnStream(d) /\ ms[d] # m
      OBVIOUS
    <3>1. PICK n \in Sender : \E i \in DOMAIN out'[n] : out'[n][i] = d
      BY DEF OnStream
    <3>2. n # m /\ \E i \in DOMAIN out[n] : out[n][i] = d
      BY <1>1, <3>1
    <3> QED  BY <3>2 DEF OnStream, Copies
  <2>5. CASE \E i \in DOMAIN queue : queue[i] = d
    <3>1. \/ \E j \in DOMAIN out[m] : out[m][j] = d
          \/ Attempts(d) < Attempts(d)'
      BY <2>5
    <3>2. CASE \E j \in DOMAIN out[m] : out[m][j] = d
      <4>1. OnStream(d) /\ ms[d] = m
        BY <3>2 DEF OnStream, Copies
      <4>2. handled'[d] + UnderWay(d)' = handled[d] + stray[d] + 1 /\ stray'[d] = stray[d] + 1
        BY <2>1, <2>2, <2>3, <2>4, <2>5, <4>1
      <4> QED  BY <2>1, <4>1, <4>2
    <3>3. CASE Attempts(d) < Attempts(d)'
      BY <2>1, <2>2, <2>3, <2>4, <2>5, <3>3
    <3> QED  BY <3>1, <3>2, <3>3
  <2>6. CASE ~ \E i \in DOMAIN queue : queue[i] = d
    BY <2>1, <2>2, <2>3, <2>4, <2>6
  <2> QED  BY <2>5, <2>6
<1>3. DOMAIN stray' = Client /\ stray' = [d \in Client |-> stray'[d]]
  BY DEF Astray
<1> QED  BY <1>2, <1>3

-----------------------------------------------------------------------------
(* The mutexes, when one call moves.                                       *)
LEMMA LockTaken ==
  ASSUME TypeOK, Locks, NEW c \in Client, NEW x \in Holding,
         pc[c] \notin Holding, pc[c] # "idle", Lock(ms[c], c), Goto(c, x), UNCHANGED ms
  PROVE  Locks'
<1>1. /\ ms[c] \in Sender /\ lk[ms[c]] = NoOne
      /\ lk' = [lk EXCEPT ![ms[c]] = c] /\ pc' = [pc EXCEPT ![c] = x]
  BY DEF Lock, Free, Goto, Locks
<1>2. /\ lk'[ms[c]] = c /\ pc'[c] = x
      /\ \A m \in Sender \ {ms[c]} : lk'[m] = lk[m]
      /\ \A d \in Client \ {c} : pc'[d] = pc[d]
  BY <1>1 DEF TypeOK
<1>3. \A d \in Client : pc'[d] # "idle" => ms'[d] \in Sender
  BY <1>1, <1>2 DEF Locks
<1>4. ASSUME NEW d \in Client, pc'[d] \in Holding  PROVE lk'[ms'[d]] = d
  <2>1. CASE d = c
    BY <1>2, <2>1
  <2>2. CASE d # c
    <3>1. lk[ms[d]] = d /\ ms[d] \in Sender
      BY <1>2, <1>4, <2>2 DEF Locks, Holding
    <3>2. ms[d] # ms[c]
      BY <1>1, <3>1, SenderAssumption
    <3> QED  BY <1>2, <3>1, <3>2
  <2> QED  BY <2>1, <2>2
<1>5. ASSUME NEW m \in Sender, lk'[m] # NoOne  PROVE pc'[lk'[m]] \in Holding /\ ms'[lk'[m]] = m
  <2>1. CASE m = ms[c]
    BY <1>2, <2>1
  <2>2. CASE m # ms[c]
    <3>1. lk'[m] = lk[m] /\ lk[m] \in Client /\ pc[lk[m]] \in Holding /\ ms[lk[m]] = m
      BY <1>2, <1>5, <2>2 DEF Locks, TypeOK
    <3> QED  BY <1>2, <2>2, <3>1
  <2> QED  BY <2>1, <2>2
<1> QED  BY <1>3, <1>4, <1>5 DEF Locks

LEMMA LockKept ==
  ASSUME TypeOK, Locks, NEW c \in Client, NEW x \in Steps \ Idle,
         x \in Holding <=> pc[c] \in Holding, Goto(c, x), UNCHANGED lk,
         pc[c] \in Holding => ms'[c] = ms[c],
         \A d \in Client \ {c} : ms'[d] = ms[d],
         ms'[c] \in Sender
  PROVE  Locks'
<1>1. pc'[c] = x /\ \A d \in Client \ {c} : pc'[d] = pc[d]
  BY DEF Goto, TypeOK
<1>2. \A d \in Client : pc'[d] # "idle" => ms'[d] \in Sender
  BY <1>1 DEF Locks
<1>3. \A d \in Client : pc'[d] \in Holding => lk'[ms'[d]] = d
  BY <1>1 DEF Locks
<1>4. ASSUME NEW m \in Sender, lk'[m] # NoOne  PROVE pc'[lk'[m]] \in Holding /\ ms'[lk'[m]] = m
  <2>1. lk[m] \in Client /\ pc[lk[m]] \in Holding /\ ms[lk[m]] = m
    BY <1>4 DEF Locks, TypeOK
  <2> QED  BY <1>1, <2>1
<1> QED  BY <1>2, <1>3, <1>4 DEF Locks

LEMMA LockReleased ==
  ASSUME TypeOK, Locks, NEW c \in Client, NEW x \in Steps \ (Holding \cup Idle),
         pc[c] \in Holding, Goto(c, x), Unlock(ms[c]), UNCHANGED ms
  PROVE  Locks'
<1>1. /\ ms[c] \in Sender /\ lk[ms[c]] = c
      /\ lk' = [lk EXCEPT ![ms[c]] = NoOne] /\ pc' = [pc EXCEPT ![c] = x]
  BY DEF Unlock, Goto, Locks, Holding
<1>2. /\ lk'[ms[c]] = NoOne /\ pc'[c] = x
      /\ \A m \in Sender \ {ms[c]} : lk'[m] = lk[m]
      /\ \A d \in Client \ {c} : pc'[d] = pc[d]
  BY <1>1 DEF TypeOK
<1>3. \A d \in Client : pc'[d] # "idle" => ms'[d] \in Sender
  BY <1>1, <1>2 DEF Locks
<1>4. ASSUME NEW d \in Client, pc'[d] \in Holding  PROVE lk'[ms'[d]] = d
  <2>1. d # c /\ pc[d] \in Holding
    BY <1>2, <1>4
  <2>2. lk[ms[d]] = d /\ ms[d] \in Sender
    BY <2>1 DEF Locks, Holding
  <2> QED  BY <1>1, <1>2, <2>1, <2>2
<1>5. ASSUME NEW m \in Sender, lk'[m] # NoOne  PROVE pc'[lk'[m]] \in Holding /\ ms'[lk'[m]] = m
  <2>1. m # ms[c] /\ lk'[m] = lk[m]
    BY <1>2, <1>5
  <2>2. lk[m] \in Client /\ pc[lk[m]] \in Holding /\ ms[lk[m]] = m
    BY <1>5, <2>1 DEF Locks, TypeOK
  <2> QED  BY <1>2, <2>1, <2>2
<1> QED  BY <1>3, <1>4, <1>5 DEF Locks

(* The map, when a call moves that is not about to tidy it.                *)
LEMMA MapKept ==
  ASSUME IInv, NEW c \in Client, NEW x \in Steps \ Idle, Goto(c, x),
         pc[c] # "prepFailed" \/ strmap # ms[c], \A d \in Client \ {c} : ms'[d] = ms[d],
         ms'[c] \in Sender, ms'[c] = strmap \/ (ms'[c] = ms[c] /\ pc[c] # "idle"),
         UNCHANGED <<strmap, dropping, invalid>>
  PROVE  Unborn' /\ InvalidLeavesMap'
<1>1. pc'[c] = x /\ \A d \in Client \ {c} : pc'[d] = pc[d]
  BY DEF Goto, IInv, TypeOK
<1>2. Unborn'
  <2>1. \A d \in Client : pc'[d] = "idle" => pc[d] = "idle"
    BY <1>1 DEF Idle
  <2>2. \A d \in Client : pc'[d] # "idle" => pc'[ms'[d]] # "idle"
    <3> SUFFICES ASSUME NEW d \in Client, pc'[d] # "idle"  PROVE pc'[ms'[d]] # "idle"
      OBVIOUS
    <3>1. CASE d = c
      <4>1. pc[ms'[c]] # "idle"
        BY DEF IInv, Unborn, Sender
      <4> QED  BY <1>1, <3>1, <4>1 DEF Idle, Sender
    <3>2. CASE d # c
      <4>1. ms[d] \in Sender /\ pc[ms[d]] # "idle" /\ ms'[d] = ms[d]
        BY <1>1, <3>2 DEF IInv, Unborn, Locks
      <4> QED  BY <1>1, <4>1 DEF Idle, Sender
    <3> QED  BY <3>1, <3>2
  <2> QED  BY <2>1, <2>2 DEF IInv, Unborn
<1>3. InvalidLeavesMap'
  <2> SUFFICES ASSUME strmap # NoOne, invalid[strmap]
               PROVE  \E d \in Client : pc'[d] = "prepFailed" /\ ms'[d] = strmap
    BY DEF InvalidLeavesMap
  <2>1. PICK d \in Client : pc[d] = "prepFailed" /\ ms[d] = strmap
    BY DEF IInv, InvalidLeavesMap
  <2> QED  BY <1>1, <2>1
<1> QED  BY <1>2, <1>3

(* Streams and copies, when a call moves that neither reads nor is over.   *)
LEMMA QuietStep ==
  ASSUME IInv, NEW c \in Client, NEW x \in Steps \ {"read"}, Goto(c, x),
         pc[c] \notin {"read", "write"} \cup Returned,
         pc[c] = "ready" => x \in {"write"} \cup Returned,
         \A d \in Client \ {c} : ms'[d] = ms[d],
         \A m \in Sender : lk'[m] = lk[m] \/ lk[m] \in {NoOne, c},
         UNCHANGED <<out, in, stray, handled, retry, got>>
  PROVE  Streams' /\ Copies' /\ OwnAnswer'
<1>1. pc'[c] = x /\ \A d \in Client \ {c} : pc'[d] = pc[d]
  BY DEF Goto, IInv, TypeOK
<1>2. \A d \in Client : pc[d] \in {"read"} \cup Returned => pc'[d] = pc[d] /\ ms'[d] = ms[d]
  BY <1>1
<1>3. ~ OnStream(c)
  BY OnStreamWhere DEF IInv
<1>4. Streams'
  <2>1. ASSUME NEW m \in Sender, NEW i \in DOMAIN out[m]
        PROVE  IF out[m][i] \in Requests
               THEN /\ i = Len(out[m]) /\ lk'[m] = out[m][i]
                    /\ pc'[out[m][i]] = "read" /\ in[m] = <<>>
               ELSE pc'[out[m][i]] \in Returned
    <3>1. out[m][i] \in Client
      BY DEF IInv, TypeOK
    <3>2. CASE out[m][i] \in Requests
      <4>1. /\ i = Len(out[m]) /\ lk[m] = out[m][i]
            /\ pc[out[m][i]] = "read" /\ in[m] = <<>>
        BY <3>2 DEF IInv, Streams
      <4>2. lk'[m] = lk[m]
        BY <3>1, <4>1, SenderAssumption
      <4> QED  BY <1>2, <3>1, <3>2, <4>1, <4>2
    <3>3. CASE out[m][i] \notin Requests
      <4>1. pc[out[m][i]] \in Returned
        BY <3>3 DEF IInv, Streams
      <4> QED  BY <1>2, <3>1, <3>3, <4>1
    <3> QED  BY <3>2, <3>3
  <2>2. ASSUME NEW m \in Sender, in[m] # <<>>
        PROVE  /\ lk'[m] \in Requests /\ in[m] = <<lk'[m]>>
               /\ pc'[lk'[m]] = "read" /\ handled[lk'[m]] > 0
    <3>1. /\ lk[m] \in Requests /\ in[m] = <<lk[m]>>
          /\ pc[lk[m]] = "read" /\ handled[lk[m]] > 0
      BY <2>2 DEF IInv, Streams
    <3>2. lk[m] \in Client /\ lk'[m] = lk[m]
      BY <3>1, SenderAssumption
    <3> QED  BY <1>2, <3>1, <3>2
  <2> QED  BY <2>1, <2>2 DEF Streams
<1>5. Copies'
  <2>1. \A m \in Sender : \A i \in DOMAIN out[m] : out[m][i] \in Client /\ OnStream(out[m][i])
    BY DEF IInv, TypeOK, OnStream
  <2>2. \A m \in Sender : \A i \in DOMAIN out[m] : ms'[out[m][i]] = m
    BY <1>3, <2>1 DEF IInv, Copies
  <2>3. Attempts(c) <= Attempts(c)' /\ Attempts(c)' \in 0..2
    BY <1>1 DEF Attempts, IInv, TypeOK, Returned
  <2>4. \A d \in Client \ {c} : Attempts(d)' = Attempts(d)
    BY <1>1 DEF Attempts
  <2>5. \A d \in Client : UnderWay(d)' = UnderWay(d)
    BY DEF UnderWay, OnStream
  <2>6. \A d \in Client : handled[d] + UnderWay(d)' <= Attempts(d)'
    <3> SUFFICES ASSUME NEW d \in Client  PROVE handled[d] + UnderWay(d)' <= Attempts(d)'
      OBVIOUS
    <3>1. handled[d] \in 0..2 /\ UnderWay(d) \in Nat /\ Attempts(d) \in 0..2
      BY Counts DEF IInv
    <3>2. handled[d] + UnderWay(d) <= Attempts(d)
      BY DEF IInv, Copies
    <3> QED  BY <2>3, <2>4, <2>5, <3>1, <3>2
  <2> QED  BY <2>2, <2>6 DEF IInv, Copies
<1>6. OwnAnswer'
  BY DEF IInv, OwnAnswer
<1> QED  BY <1>4, <1>5, <1>6

-----------------------------------------------------------------------------
(* The steps of a call that send and receive nothing.                      *)
LEMMA FindSenderIInv ==
  ASSUME IInv, NEW c \in Client, FindSender(c)
  PROVE  IInv'
<1>1. /\ pc[c] = "idle" /\ strmap # NoOne /\ strmap \in Sender /\ Goto(c, "lock")
      /\ ms' = [ms EXCEPT ![c] = strmap]
      /\ UNCHANGED <<ctxDone, strmap, dropping, streamVars, senderVars, handled, retry, got>>
  BY DEF FindSender, IInv, TypeOK
<1>2. ms'[c] \in Sender /\ ms'[c] = strmap /\ \A d \in Client \ {c} : ms'[d] = ms[d]
  BY <1>1 DEF IInv, TypeOK
<1>3. "lock" \in Steps \ (Idle \cup {"read"} \cup Holding) /\ pc[c] \notin Holding
  BY <1>1 DEF Steps, Idle, Holding
<1>4. TypeOK'
  BY <1>1, <1>3 DEF IInv, TypeOK, Goto, streamVars, senderVars, Steps
<1>5. Locks'
  BY <1>1, <1>2, <1>3, LockKept DEF IInv, senderVars
<1>6. Streams' /\ Copies' /\ OwnAnswer'
  BY <1>1, <1>2, <1>3, QuietStep DEF streamVars, senderVars, Returned
<1>7. Unborn' /\ InvalidLeavesMap'
  BY <1>1, <1>2, <1>3, MapKept DEF senderVars
<1>8. InvalidStaysClosed'
  BY <1>1 DEF IInv, InvalidStaysClosed, streamVars, senderVars
<1> QED  BY <1>4, <1>5, <1>6, <1>7, <1>8 DEF IInv

LEMMA CreateSenderIInv ==
  ASSUME IInv, NEW c \in Client, CreateSender(c)
  PROVE  IInv'
<1>1. /\ pc[c] = "idle" /\ strmap = NoOne /\ strmap' = c /\ Goto(c, "prepLock")
      /\ ms' = [ms EXCEPT ![c] = c]
      /\ UNCHANGED <<ctxDone, dropping, streamVars, senderVars, handled, retry, got>>
  BY DEF CreateSender
<1>2. ms'[c] \in Sender /\ \A d \in Client \ {c} : ms'[d] = ms[d]
  BY <1>1 DEF IInv, TypeOK, Sender
<1>3. "prepLock" \in Steps \ (Idle \cup {"read"} \cup Holding) /\ pc[c] \notin Holding
  BY <1>1 DEF Steps, Idle, Holding
<1>4. TypeOK'
  BY <1>1, <1>3 DEF IInv, TypeOK, Goto, streamVars, senderVars, Steps, Sender
<1>5. Locks'
  BY <1>1, <1>2, <1>3, LockKept DEF IInv, senderVars
<1>6. Streams' /\ Copies' /\ OwnAnswer'
  BY <1>1, <1>2, <1>3, QuietStep DEF streamVars, senderVars, Returned
<1>7. Unborn'
  BY <1>1 DEF IInv, TypeOK, Unborn, Goto, senderVars
<1>8. InvalidLeavesMap'
  BY <1>1 DEF IInv, Unborn, InvalidLeavesMap, senderVars
<1>9. InvalidStaysClosed'
  BY <1>1 DEF IInv, InvalidStaysClosed, streamVars, senderVars
<1> QED  BY <1>4, <1>5, <1>6, <1>7, <1>8, <1>9 DEF IInv

LEMMA TakeLockIInv ==
  ASSUME IInv, NEW c \in Client, LockForPrep(c) \/ LockForSend(c)
  PROVE  IInv'
<1>1. PICK x \in {"prep", "ready"} :
        /\ pc[c] \in {"prepLock", "lock"} /\ Lock(ms[c], c) /\ Goto(c, x)
        /\ UNCHANGED <<ctxDone, strmap, dropping, streamVars, invalid, singleMes, handled, callVars>>
  BY DEF LockForPrep, LockForSend
<1>2. /\ x \in Holding /\ x \in Steps \ (Idle \cup {"read"})
      /\ pc[c] \notin Holding /\ pc[c] # "idle" /\ pc[c] \notin {"read", "write", "ready"} \cup Returned
      /\ pc[c] # "prepFailed"
  BY <1>1 DEF Steps, Idle, Holding, Returned
<1>3. ms[c] \in Sender /\ lk[ms[c]] = NoOne /\ lk' = [lk EXCEPT ![ms[c]] = c]
  BY <1>1, <1>2 DEF Lock, Free, IInv, Locks
<1>4. UNCHANGED <<ctxDone, strmap, dropping, open, out, in, stray, invalid, singleMes, handled, ms,
                    retry, got>>
  BY <1>1 DEF streamVars, callVars
<1>5. TypeOK'
  BY <1>1, <1>2, <1>3, <1>4 DEF IInv, TypeOK, Goto, Steps
<1>6. Locks'
  BY <1>1, <1>2, <1>4, LockTaken DEF IInv
<1>7. Streams' /\ Copies' /\ OwnAnswer'
  <2>1. \A m \in Sender : lk'[m] = lk[m] \/ lk[m] \in {NoOne, c}
    BY <1>3 DEF IInv, TypeOK
  <2> QED  BY <1>1, <1>2, <1>4, <2>1, QuietStep
<1>8. Unborn' /\ InvalidLeavesMap'
  BY <1>1, <1>2, <1>3, <1>4, MapKept
<1>9. InvalidStaysClosed'
  BY <1>4 DEF IInv, InvalidStaysClosed
<1> QED  BY <1>5, <1>6, <1>7, <1>8, <1>9 DEF IInv

LEMMA GiveUpIInv ==
  ASSUME IInv, NEW c \in Client, GiveUpPrep(c) \/ GiveUpSend(c)
  PROVE  IInv'
<1>1. PICK x \in {"prepFailed", "failed"} :
        /\ pc[c] \in {"prepLock", "lock"} /\ Goto(c, x)
        /\ UNCHANGED <<ctxDone, strmap, dropping, streamVars, senderVars, handled, callVars>>
  BY DEF GiveUpPrep, GiveUpSend
<1>2. /\ x \in Steps \ (Idle \cup {"read"} \cup Holding)
      /\ pc[c] \notin Holding /\ pc[c] # "idle" /\ pc[c] \notin {"read", "write", "ready"} \cup Returned
      /\ pc[c] # "prepFailed"
  BY <1>1 DEF Steps, Idle, Holding, Returned
<1>3. UNCHANGED <<ctxDone, strmap, dropping, open, out, in, stray, lk, invalid, singleMes, handled, ms, retry, got>>
  BY <1>1 DEF streamVars, senderVars, callVars
<1>4. TypeOK'
  BY <1>1, <1>2, <1>3 DEF IInv, TypeOK, Goto, Steps
<1>0. ms[c] \in Sender
  BY <1>2 DEF IInv, Locks
<1>5. Locks'
  BY <1>0, <1>1, <1>2, <1>3, LockKept DEF IInv
<1>6. Streams' /\ Copies' /\ OwnAnswer'
  BY <1>1, <1>2, <1>3, QuietStep
<1>7. Unborn' /\ InvalidLeavesMap'
  BY <1>0, <1>1, <1>2, <1>3, MapKept
<1>8. InvalidStaysClosed'
  BY <1>3 DEF IInv, InvalidStaysClosed
<1> QED  BY <1>4, <1>5, <1>6, <1>7, <1>8 DEF IInv

(* A stream is opened, in prepOrInvalidate or in the call itself.          *)
LEMMA OpeningIInv ==
  ASSUME IInv, NEW c \in Client, Prepared(c) \/ Prep(c)
  PROVE  IInv'
<1>1. /\ pc[c] \in {"prep", "ready"} /\ ~ invalid[ms[c]] /\ OpenStream(ms[c])
      /\ UNCHANGED <<ctxDone, strmap, dropping, invalid, singleMes, handled, callVars>>
  BY DEF Prepared, Prep, senderVars
<1>2. \/ pc[c] = "prep" /\ Goto(c, "lock") /\ Unlock(ms[c])
      \/ pc[c] = "ready" /\ Goto(c, "write") /\ UNCHANGED lk
  BY DEF Prepared, Prep, senderVars
<1>3. /\ pc[c] \in Holding /\ ms[c] \in Sender /\ lk[ms[c]] = c
      /\ pc[c] \notin {"read", "write"} \cup Returned /\ pc[c] # "prepFailed"
      /\ "lock" \in Steps \ (Idle \cup {"read"} \cup Holding)
      /\ "write" \in Steps \ (Idle \cup {"read"}) /\ "write" \in Holding
  BY <1>1 DEF IInv, Locks, Holding, Returned, Steps, Idle
<1>4. /\ UNCHANGED <<ctxDone, strmap, dropping, out, in, stray, invalid, singleMes, handled, ms, retry, got>>
      /\ open' = [open EXCEPT ![ms[c]] = TRUE]
  BY <1>1 DEF OpenStream, callVars
<1>5. TypeOK'
  <2>1. pc' \in [Client -> Steps]
    <3>1. pc \in [Client -> Steps]
      BY DEF IInv, TypeOK, Steps
    <3>2. "lock" \in Steps /\ "write" \in Steps
      BY <1>3
    <3> HIDE DEF Steps
    <3> QED  BY <1>2, <3>1, <3>2 DEF Goto
  <2>3. lk' \in [Sender -> Client \cup {NoOne}]
    BY <1>2 DEF IInv, TypeOK, Unlock
  <2>2. open' \in [Sender -> BOOLEAN]
    BY <1>3, <1>4 DEF IInv, TypeOK
  <2> QED  BY <1>4, <2>1, <2>2, <2>3 DEF IInv, TypeOK, Steps
<1>6. Locks'
  <2>1. CASE pc[c] = "prep"
    BY <1>2, <1>3, <1>4, <2>1, LockReleased DEF IInv
  <2>2. CASE pc[c] = "ready"
    BY <1>2, <1>3, <1>4, <2>2, LockKept DEF IInv
  <2> QED  BY <1>1, <2>1, <2>2
<1>7. Streams' /\ Copies' /\ OwnAnswer'
  <2>1. \A m \in Sender : lk'[m] = lk[m] \/ lk[m] \in {NoOne, c}
    BY <1>2, <1>3 DEF IInv, TypeOK, Unlock
  <2>2. CASE pc[c] = "prep"
    BY <1>2, <1>3, <1>4, <2>1, <2>2, QuietStep
  <2>3. CASE pc[c] = "ready"
    BY <1>2, <1>3, <1>4, <2>1, <2>3, QuietStep
  <2> QED  BY <1>1, <2>2, <2>3
<1>8. Unborn' /\ InvalidLeavesMap'
  <2>1. CASE pc[c] = "prep"
    BY <1>2, <1>3, <1>4, <2>1, MapKept
  <2>2. CASE pc[c] = "ready"
    BY <1>2, <1>3, <1>4, <2>2, MapKept
  <2> QED  BY <1>1, <2>1, <2>2
<1>9. InvalidStaysClosed'
  BY <1>1, <1>3, <1>4 DEF IInv, TypeOK, InvalidStaysClosed
<1> QED  BY <1>5, <1>6, <1>7, <1>8, <1>9 DEF IInv

LEMMA PrepErrorIInv ==
  ASSUME IInv, NEW c \in Client, PrepError(c)
  PROVE  IInv'
<1>1. /\ pc[c] = "ready" /\ Unlock(ms[c]) /\ Goto(c, "failed")
      /\ UNCHANGED <<ctxDone, strmap, dropping, streamVars, invalid, singleMes, handled, callVars>>
  BY DEF PrepError
<1>2. /\ pc[c] \in Holding /\ ms[c] \in Sender /\ lk[ms[c]] = c
      /\ pc[c] \notin {"read", "write"} \cup Returned /\ pc[c] # "prepFailed"
      /\ "failed" \in Steps \ (Idle \cup {"read"} \cup Holding) /\ "failed" \in Returned
  BY <1>1 DEF IInv, Locks, Holding, Returned, Steps, Idle
<1>3. UNCHANGED <<ctxDone, strmap, dropping, open, out, in, stray, invalid, singleMes, handled, ms,
                    retry, got>>
  BY <1>1 DEF streamVars, callVars
<1>4. TypeOK'
  BY <1>1, <1>2, <1>3 DEF IInv, TypeOK, Goto, Unlock, Steps
<1>5. Locks'
  BY <1>1, <1>2, <1>3, LockReleased DEF IInv
<1>6. Streams' /\ Copies' /\ OwnAnswer'
  <2>1. \A m \in Sender : lk'[m] = lk[m] \/ lk[m] \in {NoOne, c}
    BY <1>1, <1>2 DEF IInv, TypeOK, Unlock
  <2> QED  BY <1>1, <1>2, <1>3, <2>1, QuietStep
<1>7. Unborn' /\ InvalidLeavesMap'
  BY <1>1, <1>2, <1>3, MapKept
<1>8. InvalidStaysClosed'
  BY <1>3 DEF IInv, InvalidStaysClosed
<1> QED  BY <1>4, <1>5, <1>6, <1>7, <1>8 DEF IInv

(* The creator of a sender that could not be prepared takes it out of the  *)
(* map, unless the map has another by now, which it uses instead.          *)
LEMMA PrepFailedIInv ==
  ASSUME IInv, NEW c \in Client, PrepFailed(c)
  PROVE  IInv'
<1> DEFINE other == strmap \notin {NoOne, ms[c]}
           x == IF other THEN "lock" ELSE "failed"
<1>1. /\ pc[c] = "prepFailed" /\ Goto(c, x)
      /\ ms' = IF other THEN [ms EXCEPT ![c] = strmap] ELSE ms
      /\ strmap' = IF other THEN strmap ELSE NoOne
      /\ UNCHANGED <<ctxDone, dropping, streamVars, senderVars, handled, retry, got>>
  BY DEF PrepFailed
<1>2. UNCHANGED <<ctxDone, dropping, open, out, in, stray, lk, invalid, singleMes, handled, retry, got>>
  BY <1>1 DEF streamVars, senderVars
<1>3. /\ pc[c] \notin Holding /\ pc[c] \notin {"idle", "read", "write", "ready"} \cup Returned
      /\ x \in Steps \ (Idle \cup {"read"} \cup Holding)
  BY <1>1 DEF Steps, Idle, Holding, Returned
<1>4. /\ ms[c] \in Sender /\ ms'[c] \in Sender /\ \A d \in Client \ {c} : ms'[d] = ms[d]
      /\ other => strmap \in Sender
  BY <1>1, <1>3 DEF IInv, TypeOK, Locks
<1> HIDE DEF other
<1>5. TypeOK'
  BY <1>1, <1>2, <1>3, <1>4 DEF IInv, TypeOK, Goto, Steps
<1> HIDE DEF x
<1>6. Locks'
  BY <1>1, <1>2, <1>3, <1>4, LockKept DEF IInv
<1>7. Streams' /\ Copies' /\ OwnAnswer'
  BY <1>1, <1>2, <1>3, <1>4, QuietStep
<1>8. Unborn' /\ InvalidLeavesMap'
  <2>1. CASE other
    <3>1. strmap' = strmap /\ strmap # ms[c]
      BY <1>1, <2>1 DEF other
    <3> QED  BY <1>1, <1>2, <1>3, <1>4, <3>1, MapKept
  <2>2. CASE ~ other
    <3>1. strmap' = NoOne
      BY <1>1, <2>2
    <3>2. NoOne \notin dropping
      BY SenderAssumption DEF IInv, TypeOK, Sender
    <3>3. \A d \in Client : pc'[d] = "idle" => pc[d] = "idle"
      BY <1>1, <1>3 DEF Goto, IInv, TypeOK, Idle
    <3>4. \A d \in Client : pc'[d] # "idle" => pc'[ms'[d]] # "idle"
      <4> SUFFICES ASSUME NEW d \in Client, pc'[d] # "idle"  PROVE pc'[ms[d]] # "idle"
        BY <1>1, <2>2
      <4>1. pc[d] # "idle"
        BY <1>1, <1>3 DEF Goto, IInv, TypeOK
      <4>2. ms[d] \in Client /\ pc[ms[d]] # "idle"
        BY <4>1 DEF IInv, Unborn, Locks, Sender
      <4> QED  BY <3>3, <4>2
    <3> QED  BY <1>2, <3>1, <3>2, <3>3, <3>4, SenderAssumption DEF IInv, Unborn, InvalidLeavesMap
  <2> QED  BY <2>1, <2>2
<1>9. InvalidStaysClosed'
  BY <1>2 DEF IInv, InvalidStaysClosed
<1> QED  BY <1>5, <1>6, <1>7, <1>8, <1>9 DEF IInv

-----------------------------------------------------------------------------
(* What a stream carries of another sender's does not change hands: its    *)
(* calls are not those of m.                                               *)
LEMMA CarriesOwn ==
  ASSUME IInv, NEW m \in Sender, NEW i \in DOMAIN out[m]
  PROVE  /\ out[m][i] \in Client
         /\ ms[out[m][i]] = m
         /\ OnStream(out[m][i])
BY DEF IInv, TypeOK, Copies, OnStream

(* Streams and copies when m's stream is reset, by a call that holds it or *)
(* by the goroutine of OnDisconnect.                                       *)
LEMMA ResetStep ==
  ASSUME IInv, NEW m \in Sender, NEW queue \in Seq(Client), ResetStream(m, queue),
         UNCHANGED <<ms, handled, got>>,
         \A n \in Sender \ {m} : lk'[n] = lk[n],
         \A d \in Client : pc'[d] = pc[d] \/ (pc[d] \in Holding /\ ms[d] = m),
         \A d \in Client : Attempts(d) <= Attempts(d)' /\ Attempts(d)' \in 0..2,
         \A i \in DOMAIN queue : \/ \E j \in DOMAIN out[m] : out[m][j] = queue[i]
                                 \/ Attempts(queue[i]) < Attempts(queue[i])'
  PROVE  Streams' /\ Copies' /\ OwnAnswer' /\ stray' \in [Client -> 0..2]
<1>1. /\ out' = [out EXCEPT ![m] = <<>>] /\ in' = [in EXCEPT ![m] = <<>>]
      /\ out'[m] = <<>> /\ in'[m] = <<>>
      /\ \A n \in Sender \ {m} : out'[n] = out[n] /\ in'[n] = in[n]
  BY DEF ResetStream, IInv, TypeOK
<1>2. DOMAIN out'[m] = {}
  BY <1>1
<1>3. \A d \in Client : pc[d] \in Returned => pc'[d] = pc[d]
  BY DEF Returned, Holding
<1>4. \A d \in Client : ms[d] # m => pc'[d] = pc[d]
  OBVIOUS
<1>5. Streams'
  <2>1. ASSUME NEW n \in Sender, NEW i \in DOMAIN out'[n]
        PROVE  IF out'[n][i] \in Requests
               THEN /\ i = Len(out'[n]) /\ lk'[n] = out'[n][i]
                    /\ pc'[out'[n][i]] = "read" /\ in'[n] = <<>>
               ELSE pc'[out'[n][i]] \in Returned
    <3>1. n # m /\ out'[n] = out[n] /\ in'[n] = in[n] /\ lk'[n] = lk[n]
      BY <1>1, <1>2
    <3>2. out[n][i] \in Client /\ pc'[out[n][i]] = pc[out[n][i]]
      BY <1>4, <3>1, CarriesOwn
    <3>3. IF out[n][i] \in Requests
          THEN i = Len(out[n]) /\ lk[n] = out[n][i] /\ pc[out[n][i]] = "read" /\ in[n] = <<>>
          ELSE pc[out[n][i]] \in Returned
      BY <3>1 DEF IInv, Streams
    <3> QED  BY <3>1, <3>2, <3>3
  <2>2. ASSUME NEW n \in Sender, in'[n] # <<>>
        PROVE  /\ lk'[n] \in Requests /\ in'[n] = <<lk'[n]>>
               /\ pc'[lk'[n]] = "read" /\ handled[lk'[n]] > 0
    <3>1. n # m /\ in'[n] = in[n] /\ lk'[n] = lk[n]
      BY <1>1, <2>2
    <3>2. /\ lk[n] \in Requests /\ in[n] = <<lk[n]>>
          /\ pc[lk[n]] = "read" /\ handled[lk[n]] > 0
      BY <2>2, <3>1 DEF IInv, Streams
    <3>3. lk[n] \in Client /\ ms[lk[n]] = n
      BY <3>2, SenderAssumption DEF IInv, Locks
    <3> QED  BY <1>4, <3>1, <3>2, <3>3
  <2> QED  BY <1>1, <2>1, <2>2 DEF Streams
<1>6. Copies' /\ stray' \in [Client -> 0..2]
  <2>1. ASSUME NEW n \in Sender, NEW i \in DOMAIN out'[n]
        PROVE  /\ ms[out'[n][i]] = n
               /\ \A j \in DOMAIN out'[n] : out'[n][i] = out'[n][j] => i = j
    <3>1. n # m /\ out'[n] = out[n]
      BY <1>1, <1>2
    <3> QED  BY <3>1 DEF IInv, Copies
  <2>2. /\ stray' \in [Client -> 0..2]
        /\ \A d \in Client : handled'[d] + UnderWay(d)' <= Attempts(d)'
    BY <1>1, GoneAstray DEF IInv, ResetStream
  <2> QED  BY <1>1, <2>1, <2>2 DEF Copies
<1>7. OwnAnswer'
  BY DEF IInv, OwnAnswer
<1> QED  BY <1>5, <1>6, <1>7

LEMMA PrepFailsIInv ==
  ASSUME IInv, NEW c \in Client, PrepFails(c)
  PROVE  IInv'
<1>1. /\ pc[c] = "prep" /\ invalid' = [invalid EXCEPT ![ms[c]] = TRUE]
      /\ ResetStream(ms[c], out[ms[c]]) /\ Unlock(ms[c]) /\ Goto(c, "prepFailed")
      /\ UNCHANGED <<ctxDone, strmap, dropping, singleMes, handled, ms, retry, got>>
  BY DEF PrepFails, callVars
<1>2. /\ pc[c] \in Holding /\ ms[c] \in Sender /\ lk[ms[c]] = c
      /\ "prepFailed" \in Steps \ (Holding \cup Idle)
  BY <1>1 DEF IInv, Locks, Holding, Steps, Idle, Returned
<1>3. pc'[c] = "prepFailed" /\ \A d \in Client \ {c} : pc'[d] = pc[d]
  BY <1>1 DEF Goto, IInv, TypeOK
<1>5. Locks'
  BY <1>1, <1>2, LockReleased DEF IInv
<1>6. Streams' /\ Copies' /\ OwnAnswer' /\ stray' \in [Client -> 0..2]
  <2>1. \A n \in Sender \ {ms[c]} : lk'[n] = lk[n]
    BY <1>1 DEF Unlock, IInv, TypeOK
  <2>2. \A d \in Client : pc'[d] = pc[d] \/ (pc[d] \in Holding /\ ms[d] = ms[c])
    BY <1>2, <1>3
  <2>3. \A d \in Client : Attempts(d) <= Attempts(d)' /\ Attempts(d)' \in 0..2
    BY <1>1, <1>3 DEF Attempts, Returned
  <2>4. out[ms[c]] \in Seq(Client)
    BY <1>2 DEF IInv, TypeOK
  <2> QED  BY <1>1, <1>2, <2>1, <2>2, <2>3, <2>4, ResetStep
<1>4. TypeOK'
  <2>1. /\ open' \in [Sender -> BOOLEAN] /\ out' \in [Sender -> Seq(Client)]
        /\ in' \in [Sender -> Seq(Requests)] /\ stray' \in [Client -> 0..2]
        /\ invalid' \in [Sender -> BOOLEAN]
    BY <1>1, <1>2, <1>6 DEF ResetStream, IInv, TypeOK
  <2>2. lk' \in [Sender -> Client \cup {NoOne}]
    BY <1>1 DEF Unlock, IInv, TypeOK
  <2>3. pc' \in [Client -> Steps]
    BY <1>1, <1>2 DEF Goto, IInv, TypeOK, Steps
  <2> QED  BY <1>1, <2>1, <2>2, <2>3 DEF IInv, TypeOK, Steps
<1>7. Unborn'
  <2>1. \A d \in Client : pc'[d] = "idle" => invalid'[d] = invalid[d] /\ pc[d] = "idle"
    <3>1. \A d \in Client : pc'[d] = "idle" => pc[d] = "idle"
      BY <1>3
    <3>2. pc[ms[c]] # "idle"
      BY <1>1 DEF IInv, Unborn
    <3> QED  BY <1>1, <3>1, <3>2 DEF IInv, TypeOK, Sender
  <2>2. \A d \in Client : pc'[d] # "idle" => pc'[ms[d]] # "idle"
    <3> SUFFICES ASSUME NEW d \in Client, pc'[d] # "idle"  PROVE pc'[ms[d]] # "idle"
      OBVIOUS
    <3>1. pc[d] # "idle"
      BY <1>1, <1>3
    <3>2. ms[d] \in Client /\ pc[ms[d]] # "idle"
      BY <3>1 DEF IInv, Unborn, Locks, Sender
    <3> QED  BY <1>3, <3>2
  <2> QED  BY <1>1, <2>1, <2>2 DEF IInv, Unborn
<1>8. InvalidLeavesMap'
  <2> SUFFICES ASSUME strmap # NoOne, invalid'[strmap]
               PROVE  \E d \in Client : pc'[d] = "prepFailed" /\ ms[d] = strmap
    BY <1>1 DEF InvalidLeavesMap
  <2>1. CASE strmap = ms[c]
    BY <1>3, <2>1
  <2>2. CASE strmap # ms[c]
    <3>1. invalid[strmap]
      BY <1>1, <2>2 DEF IInv, TypeOK
    <3>2. PICK d \in Client : pc[d] = "prepFailed" /\ ms[d] = strmap
      BY <3>1 DEF IInv, InvalidLeavesMap
    <3> QED  BY <1>1, <1>3, <3>2
  <2> QED  BY <2>1, <2>2
<1>9. InvalidStaysClosed'
  BY <1>1, <1>2 DEF ResetStream, IInv, TypeOK, InvalidStaysClosed
<1> QED  BY <1>4, <1>5, <1>6, <1>7, <1>8, <1>9 DEF IInv

LEMMA BrokenIInv ==
  ASSUME IInv, NEW c \in Client, Broken(c)
  PROVE  IInv'
<1>q. PICK queue \in {out[ms[c]], Append(out[ms[c]], c)} :
        /\ ResetStream(ms[c], queue)
        /\ pc[c] = "write" \/ queue = out[ms[c]]
  BY DEF Broken
<1>1. /\ pc[c] \in {"write", "read"} /\ ResetStream(ms[c], queue)
      /\ UNCHANGED <<ctxDone, strmap, dropping, invalid, singleMes, handled, ms, got>>
  BY <1>q DEF Broken
<1>2. PICK x \in {"failed", "ready"} :
        /\ Goto(c, x)
        /\ \/ retry[c] /\ x = "failed" /\ Unlock(ms[c]) /\ retry' = retry
           \/ ~ retry[c] /\ x = "ready" /\ retry' = [retry EXCEPT ![c] = TRUE] /\ lk' = lk
  BY DEF Broken
<1>3. /\ pc[c] \in Holding /\ ms[c] \in Sender /\ lk[ms[c]] = c
      /\ pc[c] # "prepFailed" /\ pc[c] # "idle"
      /\ "failed" \in Steps \ (Holding \cup Idle) /\ "ready" \in Steps \ Idle
      /\ "ready" \in Holding /\ x \in Steps \ Idle
  BY <1>1, <1>2 DEF IInv, Locks, Holding, Steps, Idle, Returned
<1>4. pc'[c] = x /\ \A d \in Client \ {c} : pc'[d] = pc[d]
  BY <1>2 DEF Goto, IInv, TypeOK
<1>6. Locks'
  <2>1. CASE x = "failed"
    BY <1>1, <1>2, <1>3, <2>1, LockReleased DEF IInv
  <2>2. CASE x = "ready"
    BY <1>1, <1>2, <1>3, <2>2, LockKept DEF IInv
  <2> QED  BY <2>1, <2>2
<1>7. Streams' /\ Copies' /\ OwnAnswer' /\ stray' \in [Client -> 0..2]
  <2>1. \A n \in Sender \ {ms[c]} : lk'[n] = lk[n]
    BY <1>2 DEF Unlock, IInv, TypeOK
  <2>2. \A d \in Client : pc'[d] = pc[d] \/ (pc[d] \in Holding /\ ms[d] = ms[c])
    BY <1>3, <1>4
  <2>3. ASSUME NEW d \in Client
        PROVE  Attempts(d) <= Attempts(d)' /\ Attempts(d)' \in 0..2
    <3>1. CASE d # c
      <4>1. pc'[d] = pc[d] /\ retry'[d] = retry[d]
        BY <1>2, <1>4, <3>1 DEF IInv, TypeOK
      <4> QED  BY <4>1 DEF Attempts
    <3>2. CASE d = c /\ retry[c]
      BY <1>1, <1>2, <1>4, <3>2 DEF Attempts, Returned
    <3>3. CASE d = c /\ ~ retry[c]
      <4>1. pc'[c] = "ready" /\ retry'[c]
        BY <1>2, <1>4, <3>3 DEF IInv, TypeOK
      <4> QED  BY <1>1, <3>3, <4>1 DEF Attempts, Returned
    <3> QED  BY <3>1, <3>2, <3>3
  <2>4. out[ms[c]] \in Seq(Client) /\ queue \in Seq(Client)
    <3>1. out[ms[c]] \in Seq(Client)
      BY <1>3 DEF IInv, TypeOK
    <3> QED  BY <3>1
  <2>5. ASSUME NEW i \in DOMAIN queue
        PROVE  \/ \E j \in DOMAIN out[ms[c]] : out[ms[c]][j] = queue[i]
               \/ Attempts(queue[i]) < Attempts(queue[i])'
    <3>1. CASE queue = out[ms[c]]
      BY <3>1
    <3>2. CASE pc[c] = "write" /\ queue = Append(out[ms[c]], c)
      <4>1. queue[i] = c \/ \E j \in DOMAIN out[ms[c]] : out[ms[c]][j] = queue[i]
        BY <2>4, <3>2
      <4>2. Attempts(c) < Attempts(c)'
        <5>1. CASE retry[c]
          <6>1. Attempts(c) = 1
            BY <3>2, <5>1 DEF Attempts, Returned
          <6>2. Attempts(c)' = 2
            BY <1>2, <1>4, <5>1 DEF Attempts, Returned
          <6> QED  BY <6>1, <6>2
        <5>2. CASE ~ retry[c]
          <6>1. Attempts(c) = 0
            BY <3>2, <5>2 DEF Attempts, Returned
          <6>2. pc'[c] = "ready" /\ retry'[c]
            BY <1>2, <1>4, <5>2 DEF IInv, TypeOK
          <6>3. Attempts(c)' = 1
            BY <6>2 DEF Attempts, Returned
          <6> QED  BY <6>1, <6>3
        <5> QED  BY <5>1, <5>2
      <4> QED  BY <4>1, <4>2
    <3> QED  BY <1>q, <3>1, <3>2
  <2> QED  BY <1>1, <1>3, <2>1, <2>2, <2>3, <2>4, <2>5, ResetStep
<1>5. TypeOK'
  <2>1. /\ open' \in [Sender -> BOOLEAN] /\ out' \in [Sender -> Seq(Client)]
        /\ in' \in [Sender -> Seq(Requests)] /\ stray' \in [Client -> 0..2]
    BY <1>1, <1>3, <1>7 DEF ResetStream, IInv, TypeOK
  <2>2. lk' \in [Sender -> Client \cup {NoOne}]
    BY <1>2 DEF Unlock, IInv, TypeOK
  <2>3. pc' \in [Client -> Steps]
    BY <1>2, <1>3 DEF Goto, IInv, TypeOK, Steps
  <2>4. retry' \in [Client -> BOOLEAN]
    BY <1>2 DEF IInv, TypeOK
  <2> QED  BY <1>1, <2>1, <2>2, <2>3, <2>4 DEF IInv, TypeOK, Steps
<1>8. Unborn' /\ InvalidLeavesMap'
  BY <1>1, <1>2, <1>3, MapKept
<1>9. InvalidStaysClosed'
  BY <1>1, <1>3 DEF ResetStream, IInv, TypeOK, InvalidStaysClosed
<1> QED  BY <1>5, <1>6, <1>7, <1>8, <1>9 DEF IInv

(* A sender is invalidated by OnDisconnect only after it left the map.     *)
LEMMA InvalidateIInv ==
  ASSUME IInv, NEW m \in Sender, Invalidate(m)
  PROVE  IInv'
<1>1. /\ m \in dropping /\ lk[m] = NoOne /\ dropping' = dropping \ {m}
      /\ invalid' = [invalid EXCEPT ![m] = TRUE] /\ ResetStream(m, out[m])
      /\ UNCHANGED <<ctxDone, strmap, lk, singleMes, handled, pc, ms, retry, got>>
  BY DEF Invalidate, Free, callVars
<1>2. strmap # m /\ pc[m] # "idle"
  BY <1>1 DEF IInv, Unborn, Sender
<1>4. Locks'
  BY <1>1 DEF IInv, Locks
<1>5. Streams' /\ Copies' /\ OwnAnswer' /\ stray' \in [Client -> 0..2]
  <2>1. \A d \in Client : Attempts(d) <= Attempts(d)' /\ Attempts(d)' \in 0..2
    BY <1>1 DEF Attempts
  <2>2. out[m] \in Seq(Client)
    BY DEF IInv, TypeOK
  <2> QED  BY <1>1, <2>1, <2>2, ResetStep
<1>3. TypeOK'
  <2>1. /\ open' \in [Sender -> BOOLEAN] /\ out' \in [Sender -> Seq(Client)]
        /\ in' \in [Sender -> Seq(Requests)] /\ stray' \in [Client -> 0..2]
        /\ invalid' \in [Sender -> BOOLEAN]
    BY <1>1, <1>5 DEF ResetStream, IInv, TypeOK
  <2> QED  BY <1>1, <2>1 DEF IInv, TypeOK
<1>6. Unborn' /\ InvalidLeavesMap' /\ InvalidStaysClosed'
  <2>1. \A n \in Sender \ {m} : invalid'[n] = invalid[n] /\ open'[n] = open[n]
    BY <1>1 DEF ResetStream, IInv, TypeOK
  <2>2. Unborn'
    BY <1>1, <1>2, <2>1 DEF IInv, Unborn, Sender
  <2>3. InvalidLeavesMap'
    <3>1. strmap # NoOne => strmap \in Sender \ {m}
      BY <1>2 DEF IInv, TypeOK
    <3> QED  BY <1>1, <2>1, <3>1 DEF IInv, InvalidLeavesMap
  <2>4. InvalidStaysClosed'
    <3>1. open'[m] = FALSE
      BY <1>1 DEF ResetStream, IInv, TypeOK
    <3> QED  BY <2>1, <3>1 DEF IInv, InvalidStaysClosed
  <2> QED  BY <2>2, <2>3, <2>4
<1> QED  BY <1>3, <1>4, <1>5, <1>6 DEF IInv

LEMMA OnDisconnectIInv ==
  ASSUME IInv, OnDisconnect
  PROVE  IInv'
<1>1. /\ strmap # NoOne /\ dropping' = dropping \cup {strmap} /\ strmap' = NoOne
      /\ UNCHANGED <<ctxDone, open, out, in, stray, lk, invalid, singleMes, handled, pc, ms, retry, got>>
  BY DEF OnDisconnect, streamVars, senderVars, callVars
<1>2. TypeOK'
  BY <1>1 DEF IInv, TypeOK
<1>3. Locks' /\ InvalidStaysClosed' /\ OwnAnswer' /\ InvalidLeavesMap'
  BY <1>1 DEF IInv, Locks, InvalidStaysClosed, OwnAnswer, InvalidLeavesMap
<1>4. Streams'
  BY <1>1 DEF IInv, Streams
<1>5. Copies'
  <2>1. \A c \in Client : Attempts(c)' = Attempts(c) /\ UnderWay(c)' = UnderWay(c)
    BY <1>1 DEF Attempts, UnderWay, OnStream
  <2> QED  BY <1>1, <2>1 DEF IInv, Copies
<1>6. Unborn'
  <2>1. NoOne \notin dropping'
    BY <1>1, SenderAssumption DEF IInv, TypeOK, Sender
  <2> QED  BY <1>1, <2>1, SenderAssumption DEF IInv, Unborn
<1> QED  BY <1>2, <1>3, <1>4, <1>5, <1>6 DEF IInv

(* The end of dht.ctx, or a goroutine of OnDisconnect that gives up for it. *)
LEMMA ContextIInv ==
  ASSUME IInv, EndContext \/ \E m \in Sender : Abandon(m)
  PROVE  IInv'
<1>1. /\ ctxDone' \in BOOLEAN /\ dropping' \subseteq dropping
      /\ UNCHANGED <<strmap, open, out, in, stray, lk, invalid, singleMes, handled, pc, ms, retry, got>>
  BY DEF EndContext, Abandon, streamVars, senderVars, callVars, IInv, TypeOK
<1>2. TypeOK'
  BY <1>1 DEF IInv, TypeOK
<1>3. Locks' /\ InvalidStaysClosed' /\ OwnAnswer' /\ InvalidLeavesMap' /\ Unborn'
  BY <1>1 DEF IInv, Locks, InvalidStaysClosed, OwnAnswer, InvalidLeavesMap, Unborn
<1>4. Streams'
  BY <1>1 DEF IInv, Streams
<1>5. Copies'
  <2>1. \A c \in Client : Attempts(c)' = Attempts(c) /\ UnderWay(c)' = UnderWay(c)
    BY <1>1 DEF Attempts, UnderWay, OnStream
  <2> QED  BY <1>1, <2>1 DEF IInv, Copies
<1> QED  BY <1>2, <1>3, <1>4, <1>5 DEF IInv

-----------------------------------------------------------------------------
(* Streams that carry something.                                           *)
LEMMA WriteRequestIInv ==
  ASSUME IInv, NEW c \in Client, WriteRequest(c)
  PROVE  IInv'
<1> DEFINE m == ms[c]
<1>1. /\ pc[c] = "write" /\ c \in Requests /\ out' = [out EXCEPT ![m] = Append(@, c)]
      /\ Goto(c, "read")
      /\ UNCHANGED <<ctxDone, strmap, dropping, open, in, stray, lk, invalid, singleMes, handled, ms, retry, got>>
  BY DEF WriteRequest, senderVars, callVars
<1>2. /\ pc[c] \in Holding /\ m \in Sender /\ lk[m] = c
      /\ pc[c] \notin {"read"} \cup Returned
      /\ pc[c] # "prepFailed" /\ pc[c] # "idle"
      /\ "read" \in Steps \ Idle /\ "read" \in Holding
  BY <1>1 DEF IInv, Locks, Holding, Steps, Idle, Returned
<1> HIDE DEF m
<1>3. pc'[c] = "read" /\ \A d \in Client \ {c} : pc'[d] = pc[d]
  BY <1>1 DEF Goto, IInv, TypeOK
<1>4. ~ OnStream(c)
  BY <1>2, OnStreamWhere DEF IInv
<1>5. in[m] = <<>> /\ \A i \in DOMAIN out[m] : out[m][i] \notin Requests
  BY <1>1, <1>2 DEF IInv, Streams
<1>6. out[m] \in Seq(Client) /\ out'[m] = Append(out[m], c) /\ \A n \in Sender \ {m} : out'[n] = out[n]
  BY <1>1, <1>2 DEF IInv, TypeOK
<1>7. /\ Len(out'[m]) = Len(out[m]) + 1 /\ Len(out[m]) \in Nat
      /\ DOMAIN out'[m] = DOMAIN out[m] \cup {Len(out'[m])}
      /\ out'[m][Len(out'[m])] = c
      /\ \A i \in DOMAIN out[m] : out'[m][i] = out[m][i]
  BY <1>6
<1>8. TypeOK'
  <2>1. pc' \in [Client -> Steps] /\ out' \in [Sender -> Seq(Client)]
    BY <1>1, <1>2 DEF Goto, IInv, TypeOK, Steps
  <2> QED  BY <1>1, <2>1 DEF IInv, TypeOK, Steps
<1>9. Locks'
  BY <1>1, <1>2, LockKept DEF IInv, m
<1>10. \A d \in Client : d # c /\ pc[d] \in {"read"} \cup Returned => pc'[d] = pc[d]
  BY <1>3
<1>11. Streams'
  <2>1. ASSUME NEW n \in Sender, NEW i \in DOMAIN out'[n]
        PROVE  IF out'[n][i] \in Requests
               THEN i = Len(out'[n]) /\ lk[n] = out'[n][i] /\ pc'[out'[n][i]] = "read" /\ in[n] = <<>>
               ELSE pc'[out'[n][i]] \in Returned
    <3>1. CASE n = m /\ i = Len(out'[m])
      BY <1>1, <1>2, <1>3, <1>5, <1>7, <3>1
    <3>2. CASE n # m \/ i # Len(out'[m])
      <4>1. i \in DOMAIN out[n] /\ out'[n][i] = out[n][i]
        BY <1>6, <1>7, <3>2
      <4>2. out[n][i] \in Client /\ out[n][i] # c
        BY <1>4, <4>1, CarriesOwn
      <4>3. IF out[n][i] \in Requests
            THEN i = Len(out[n]) /\ lk[n] = out[n][i] /\ pc[out[n][i]] = "read" /\ in[n] = <<>>
            ELSE pc[out[n][i]] \in Returned
        BY <4>1 DEF IInv, Streams
      <4>4. out[n][i] \in Requests => out'[n] = out[n]
        BY <1>5, <1>6, <4>1
      <4> QED  BY <1>10, <4>1, <4>2, <4>3, <4>4
    <3> QED  BY <3>1, <3>2
  <2>2. ASSUME NEW n \in Sender, in[n] # <<>>
        PROVE  /\ lk[n] \in Requests /\ in[n] = <<lk[n]>>
               /\ pc'[lk[n]] = "read" /\ handled[lk[n]] > 0
    <3>1. /\ lk[n] \in Requests /\ in[n] = <<lk[n]>> /\ pc[lk[n]] = "read" /\ handled[lk[n]] > 0
      BY <2>2 DEF IInv, Streams
    <3> QED  BY <1>3, <3>1, SenderAssumption
  <2> QED  BY <1>1, <2>1, <2>2 DEF Streams
<1>12. Copies'
  <2>1. \A n \in Sender : \A i \in DOMAIN out[n] : out[n][i] # c
    BY <1>4, CarriesOwn
  <2>2. ASSUME NEW n \in Sender
        PROVE  \A i, j \in DOMAIN out'[n] : out'[n][i] = out'[n][j] => i = j
    <3>1. \A i, j \in DOMAIN out[n] : out[n][i] = out[n][j] => i = j
      BY DEF IInv, Copies
    <3>2. CASE n # m
      BY <1>6, <3>1, <3>2
    <3>3. CASE n = m
      <4>1. \A i \in DOMAIN out[m] : out[m][i] # c
        BY <1>2, <2>1
      <4> QED  BY <1>7, <3>1, <3>3, <4>1
    <3> QED  BY <3>2, <3>3
  <2>3. ASSUME NEW n \in Sender, NEW i \in DOMAIN out'[n]
        PROVE  ms[out'[n][i]] = n
    <3>1. \A j \in DOMAIN out[n] : ms[out[n][j]] = n
      BY DEF IInv, Copies
    <3>2. ms[c] = m
      BY DEF m
    <3> QED  BY <1>6, <1>7, <3>1, <3>2
  <2>4. Attempts(c)' = Attempts(c) + 1
    BY <1>1, <1>3 DEF Attempts, Returned
  <2>5. \A d \in Client \ {c} : Attempts(d)' = Attempts(d)
    BY <1>1, <1>3 DEF Attempts
  <2>6. ASSUME NEW d \in Client, d # c, OnStream(d)'  PROVE OnStream(d)
    <3>1. PICK n \in Sender : \E i \in DOMAIN out'[n] : out'[n][i] = d
      BY <2>6 DEF OnStream
    <3>2. PICK i \in DOMAIN out'[n] : out'[n][i] = d
      BY <3>1
    <3>3. i \in DOMAIN out[n] /\ out[n][i] = d
      BY <1>6, <1>7, <2>6, <3>2
    <3> QED  BY <3>3 DEF OnStream
  <2>7. ASSUME NEW d \in Client  PROVE handled[d] + UnderWay(d)' <= Attempts(d)'
    <3>1. /\ handled[d] \in 0..2 /\ stray[d] \in 0..2 /\ Attempts(d) \in 0..2
          /\ UnderWay(d) = (IF OnStream(d) THEN stray[d] + 1 ELSE stray[d])
          /\ handled[d] + UnderWay(d) <= Attempts(d)
      BY Counts DEF IInv, Copies
    <3>2. UnderWay(d)' = IF OnStream(d)' THEN stray[d] + 1 ELSE stray[d]
      BY <1>1, <3>1 DEF UnderWay
    <3> QED  BY <1>4, <2>4, <2>5, <2>6, <3>1, <3>2
  <2> QED  BY <1>1, <2>2, <2>3, <2>7 DEF Copies
<1>13. Unborn' /\ InvalidLeavesMap'
  BY <1>1, <1>2, MapKept DEF m
<1>14. InvalidStaysClosed' /\ OwnAnswer'
  BY <1>1 DEF IInv, InvalidStaysClosed, OwnAnswer
<1> QED  BY <1>8, <1>9, <1>11, <1>12, <1>13, <1>14 DEF IInv

(* The remote handles what it finds first on a stream.                     *)
LEMMA ServeIInv ==
  ASSUME IInv, NEW m \in Sender, Serve(m)
  PROVE  IInv'
<1>0. out[m] \in Seq(Client) /\ out[m] # <<>>
  BY DEF Serve, IInv, TypeOK
<1>c. PICK c \in Client : c = Head(out[m])
  BY <1>0
<1>1. /\ handled' = [handled EXCEPT ![c] = @ + 1]
      /\ in' = IF c \in Requests THEN [in EXCEPT ![m] = Append(@, c)] ELSE in
      /\ out' = [out EXCEPT ![m] = Tail(@)]
      /\ UNCHANGED <<ctxDone, strmap, dropping, open, stray, lk, invalid, singleMes, pc, ms, retry, got>>
  BY <1>c DEF Serve, senderVars, callVars
<1>2. /\ 1 \in DOMAIN out[m] /\ c = out[m][1] /\ out'[m] = Tail(out[m])
      /\ \A n \in Sender \ {m} : out'[n] = out[n] /\ in'[n] = in[n]
  BY <1>0, <1>c, <1>1 DEF IInv, TypeOK
<1>3. /\ Len(out[m]) = Len(out'[m]) + 1 /\ Len(out'[m]) \in Nat
      /\ \A i \in DOMAIN out'[m] : i \in Nat /\ i > 0 /\ i + 1 \in DOMAIN out[m] /\ out'[m][i] = out[m][i + 1]
  BY <1>0, <1>2
<1>4. ms[c] = m /\ OnStream(c)
  BY <1>2, CarriesOwn
<1>5. handled'[c] = handled[c] + 1 /\ \A d \in Client \ {c} : handled'[d] = handled[d]
  BY <1>1, <1>4 DEF IInv, TypeOK
<1>6. \A d \in Client : handled[d] \in Nat /\ Attempts(d) \in 0..2 /\ Attempts(d)' = Attempts(d)
  <2>1. \A d \in Client : handled[d] \in 0..2
    BY DEF IInv, TypeOK
  <2>2. \A d \in Client : Attempts(d) \in 0..2
    BY DEF Attempts
  <2>3. \A d \in Client : Attempts(d)' = Attempts(d)
    BY <1>1 DEF Attempts
  <2> QED  BY <2>1, <2>2, <2>3
<1>7. handled[c] < Attempts(c)
  <2>1. handled[c] + UnderWay(c) <= Attempts(c) /\ UnderWay(c) = stray[c] + 1 /\ stray[c] \in 0..2
    BY <1>4, Counts DEF IInv, Copies
  <2> QED  BY <1>6, <2>1
<1>8. c \in Requests => /\ Len(out[m]) = 1 /\ lk[m] = c /\ pc[c] = "read"
                        /\ in[m] = <<>> /\ in'[m] = <<c>>
  <2> SUFFICES ASSUME c \in Requests
               PROVE  Len(out[m]) = 1 /\ lk[m] = c /\ pc[c] = "read" /\ in[m] = <<>> /\ in'[m] = <<c>>
    OBVIOUS
  <2>1. Len(out[m]) = 1 /\ lk[m] = c /\ pc[c] = "read" /\ in[m] = <<>>
    BY <1>2 DEF IInv, Streams
  <2> QED  BY <1>1, <2>1 DEF IInv, TypeOK
<1>9. TypeOK'
  <2>1. handled' \in [Client -> 0..2]
    <3>1. handled[c] + 1 \in 0..2
      BY <1>6, <1>7
    <3>2. handled \in [Client -> 0..2]
      BY DEF IInv, TypeOK
    <3> QED  BY <1>1, <3>1, <3>2
  <2>2. out' \in [Sender -> Seq(Client)]
    BY <1>0, <1>1 DEF IInv, TypeOK
  <2>3. in' \in [Sender -> Seq(Requests)]
    BY <1>1 DEF IInv, TypeOK
  <2> QED  BY <1>1, <2>1, <2>2, <2>3 DEF IInv, TypeOK
<1>10. Locks' /\ Unborn' /\ InvalidLeavesMap' /\ InvalidStaysClosed' /\ OwnAnswer'
  BY <1>1 DEF IInv, Locks, Unborn, InvalidLeavesMap, InvalidStaysClosed, OwnAnswer
<1>11. Streams'
  <2>1. ASSUME NEW n \in Sender, NEW i \in DOMAIN out'[n]
        PROVE  IF out'[n][i] \in Requests
               THEN i = Len(out'[n]) /\ lk[n] = out'[n][i] /\ pc[out'[n][i]] = "read" /\ in'[n] = <<>>
               ELSE pc[out'[n][i]] \in Returned
    <3>1. CASE n # m
      <4>1. out'[n] = out[n] /\ in'[n] = in[n]
        BY <1>2, <3>1
      <4> QED  BY <4>1 DEF IInv, Streams
    <3>2. CASE n = m
      <4>1. i + 1 \in DOMAIN out[m] /\ out'[m][i] = out[m][i + 1] /\ i \in Nat /\ i > 0
        BY <1>3, <3>2
      <4>2. IF out[m][i + 1] \in Requests
            THEN i + 1 = Len(out[m]) /\ lk[m] = out[m][i + 1] /\ pc[out[m][i + 1]] = "read" /\ in[m] = <<>>
            ELSE pc[out[m][i + 1]] \in Returned
        BY <4>1 DEF IInv, Streams
      <4>3. c \notin Requests
        <5> SUFFICES ASSUME Len(out[m]) = 1  PROVE FALSE
          BY <1>8
        <5>1. i + 1 \in 1..1
          BY <1>0, <1>2, <4>1
        <5> QED  BY <4>1, <5>1
      <4> QED  BY <1>1, <1>3, <3>2, <4>1, <4>2, <4>3
    <3> QED  BY <3>1, <3>2
  <2>2. ASSUME NEW n \in Sender, in'[n] # <<>>
        PROVE  lk[n] \in Requests /\ in'[n] = <<lk[n]>> /\ pc[lk[n]] = "read" /\ handled'[lk[n]] > 0
    <3>1. CASE n = m /\ c \in Requests
      BY <1>4, <1>5, <1>6, <1>8, <3>1
    <3>2. CASE n # m \/ c \notin Requests
      <4>1. in'[n] = in[n]
        BY <1>1, <1>2, <3>2
      <4>2. lk[n] \in Requests /\ in[n] = <<lk[n]>> /\ pc[lk[n]] = "read" /\ handled[lk[n]] > 0
        BY <2>2, <4>1 DEF IInv, Streams
      <4> QED  BY <1>5, <1>6, <4>1, <4>2, SenderAssumption
    <3> QED  BY <3>1, <3>2
  <2> QED  BY <1>1, <2>1, <2>2 DEF IInv, Streams
<1>12. Copies'
  <2>1. \A i \in DOMAIN out'[m] : out'[m][i] # c
    <3>1. \A i, j \in DOMAIN out[m] : out[m][i] = out[m][j] => i = j
      BY DEF IInv, Copies
    <3> QED  BY <1>2, <1>3, <3>1
  <2>2. ~ OnStream(c)'
    <3>1. \A n \in Sender \ {m} : \A i \in DOMAIN out[n] : out[n][i] # c
      BY <1>4, CarriesOwn
    <3> QED  BY <1>1, <1>2, <2>1, <3>1 DEF OnStream
  <2>3. ASSUME NEW n \in Sender, NEW i \in DOMAIN out'[n]
        PROVE  \E j \in DOMAIN out[n] : out'[n][i] = out[n][j]
    BY <1>2, <1>3
  <2>4. \A d \in Client : OnStream(d)' => OnStream(d)
    BY <1>1, <2>3 DEF OnStream
  <2>5. \A n \in Sender : \A i, j \in DOMAIN out'[n] : out'[n][i] = out'[n][j] => i = j
    <3>1. \A n \in Sender : \A i, j \in DOMAIN out[n] : out[n][i] = out[n][j] => i = j
      BY DEF IInv, Copies
    <3>2. ASSUME NEW i \in DOMAIN out'[m], NEW j \in DOMAIN out'[m], out'[m][i] = out'[m][j]
          PROVE  i = j
      <4>1. i + 1 = j + 1
        BY <1>3, <3>1, <3>2
      <4> QED  BY <1>3, <4>1
    <3> QED  BY <1>2, <3>1, <3>2
  <2>6. \A n \in Sender : \A i \in DOMAIN out'[n] : ms[out'[n][i]] = n
    BY <2>3 DEF IInv, Copies
  <2>7. ASSUME NEW d \in Client  PROVE handled'[d] + UnderWay(d)' <= Attempts(d)'
    <3>1. /\ handled[d] \in 0..2 /\ stray[d] \in 0..2 /\ Attempts(d) \in 0..2
          /\ UnderWay(d) = (IF OnStream(d) THEN stray[d] + 1 ELSE stray[d])
          /\ handled[d] + UnderWay(d) <= Attempts(d)
      BY Counts DEF IInv, Copies
    <3>2. UnderWay(d)' = IF OnStream(d)' THEN stray[d] + 1 ELSE stray[d]
      BY <1>1, <3>1 DEF UnderWay
    <3> QED  BY <1>4, <1>5, <1>6, <2>2, <2>4, <3>1, <3>2
  <2> QED  BY <1>1, <2>5, <2>6, <2>7 DEF Copies
<1> QED  BY <1>9, <1>10, <1>11, <1>12 DEF IInv

LEMMA ServeStrayIInv ==
  ASSUME IInv, NEW c \in Client, ServeStray(c)
  PROVE  IInv'
<1>1. /\ stray[c] > 0 /\ handled' = [handled EXCEPT ![c] = @ + 1] /\ stray' = [stray EXCEPT ![c] = @ - 1]
      /\ UNCHANGED <<ctxDone, strmap, dropping, open, out, in, lk, invalid, singleMes, pc, ms, retry, got>>
  BY DEF ServeStray, senderVars, callVars
<1>2. /\ handled'[c] = handled[c] + 1 /\ stray'[c] = stray[c] - 1
      /\ \A d \in Client \ {c} : handled'[d] = handled[d] /\ stray'[d] = stray[d]
  BY <1>1 DEF IInv, TypeOK
<1>3. \A d \in Client : handled[d] \in Nat /\ Attempts(d) \in 0..2 /\ Attempts(d)' = Attempts(d)
  <2>1. \A d \in Client : handled[d] \in 0..2
    BY DEF IInv, TypeOK
  <2>2. \A d \in Client : Attempts(d) \in 0..2
    BY DEF Attempts
  <2>3. \A d \in Client : Attempts(d)' = Attempts(d)
    BY <1>1 DEF Attempts
  <2> QED  BY <2>1, <2>2, <2>3
<1>4. handled[c] < Attempts(c) /\ stray[c] \in 1..2
  <2>1. handled[c] + UnderWay(c) <= Attempts(c)
    BY DEF IInv, Copies
  <2>2. /\ handled[c] \in 0..2 /\ stray[c] \in 0..2 /\ UnderWay(c) \in Nat
        /\ UnderWay(c) = (IF OnStream(c) THEN stray[c] + 1 ELSE stray[c])
    BY Counts DEF IInv
  <2>3. stray[c] > 0
    BY <1>1
  <2> QED  BY <1>3, <2>1, <2>2, <2>3
<1>5. TypeOK'
  <2>1. handled[c] + 1 \in 0..2 /\ stray[c] - 1 \in 0..2
    BY <1>3, <1>4
  <2> QED  BY <1>1, <2>1 DEF IInv, TypeOK
<1>6. Locks' /\ Unborn' /\ InvalidLeavesMap' /\ InvalidStaysClosed' /\ OwnAnswer'
  BY <1>1 DEF IInv, Locks, Unborn, InvalidLeavesMap, InvalidStaysClosed, OwnAnswer
<1>7. Streams'
  <2>1. ASSUME NEW n \in Sender, in[n] # <<>>
        PROVE  lk[n] \in Requests /\ in[n] = <<lk[n]>> /\ pc[lk[n]] = "read" /\ handled'[lk[n]] > 0
    <3>1. lk[n] \in Requests /\ in[n] = <<lk[n]>> /\ pc[lk[n]] = "read" /\ handled[lk[n]] > 0
      BY <2>1 DEF IInv, Streams
    <3> QED  BY <1>2, <1>3, <3>1, SenderAssumption
  <2> QED  BY <1>1, <2>1 DEF IInv, Streams
<1>8. Copies'
  <2>1. ASSUME NEW d \in Client  PROVE handled'[d] + UnderWay(d)' <= Attempts(d)'
    <3>1. /\ handled[d] \in 0..2 /\ stray[d] \in 0..2 /\ Attempts(d) \in 0..2
          /\ UnderWay(d) = (IF OnStream(d) THEN stray[d] + 1 ELSE stray[d])
          /\ handled[d] + UnderWay(d) <= Attempts(d)
      BY Counts DEF IInv, Copies
    <3>2. OnStream(d)' <=> OnStream(d)
      BY <1>1 DEF OnStream
    <3>3. UnderWay(d)' = stray'[d] + (IF OnStream(d) THEN 1 ELSE 0)
      BY <3>2 DEF UnderWay
    <3> QED  BY <1>2, <1>3, <3>1, <3>3
  <2> QED  BY <1>1, <2>1 DEF IInv, Copies
<1> QED  BY <1>5, <1>6, <1>7, <1>8 DEF IInv

(* The end of a call, when what is left on its stream are messages that    *)
(* need no answer.                                                         *)
LEMMA FinishIInv ==
  ASSUME IInv, NEW c \in Client, NEW unhandled \in Seq(Client \ Requests),
         pc[c] \in {"write", "read"}, Finish(c, unhandled),
         \A i, j \in DOMAIN unhandled : unhandled[i] = unhandled[j] => i = j,
         \A i \in DOMAIN unhandled :
           unhandled[i] # c => \E j \in DOMAIN out[ms[c]] : out[ms[c]][j] = unhandled[i],
         c \notin Requests => Attempts(c) < 2,
         in' \in [Sender -> Seq(Requests)], in'[ms[c]] = <<>>,
         \A n \in Sender \ {ms[c]} : in'[n] = in[n],
         got' \in [Client -> Requests \cup {NoOne}], OwnAnswer',
         UNCHANGED <<ctxDone, strmap, dropping, invalid, handled, ms, retry>>
  PROVE  IInv'
<1>1. PICK m \in Sender : m = ms[c] /\ lk[m] = c
  BY DEF IInv, Locks, Holding
<1>2. PICK x \in Returned : Goto(c, x)
  BY DEF Finish, Returned
<1>3. /\ Unlock(m)
      /\ \/ /\ open' = [open EXCEPT ![m] = FALSE] /\ out' = [out EXCEPT ![m] = <<>>]
            /\ stray' = Astray(unhandled)
            /\ singleMes' = singleMes
         \/ /\ singleMes[m] <= ReuseTries
            /\ singleMes' = [singleMes EXCEPT ![m] = IF retry[c] THEN @ + 1 ELSE @]
            /\ out' = [out EXCEPT ![m] = unhandled]
            /\ open' = open /\ stray' = stray
  BY <1>1 DEF Finish
<1>4. /\ pc[c] \in Holding /\ pc[c] \notin Returned /\ pc[c] # "prepFailed" /\ pc[c] # "idle"
      /\ x \in Steps \ (Holding \cup Idle)
  BY DEF Holding, Returned, Steps, Idle
<1>5. pc'[c] = x /\ \A d \in Client \ {c} : pc'[d] = pc[d]
  BY <1>2 DEF Goto, IInv, TypeOK
<1>6. \A n \in Sender \ {m} : out'[n] = out[n] /\ lk'[n] = lk[n]
  BY <1>3 DEF Unlock, IInv, TypeOK
<1>7. \/ out'[m] = <<>> /\ out' = [out EXCEPT ![m] = <<>>] /\ stray' = Astray(unhandled)
      \/ out'[m] = unhandled /\ stray' = stray
  <2>1. DOMAIN out = Sender
    BY DEF IInv, TypeOK
  <2> QED  BY <1>3, <2>1
(* What the stream carries once the call is over.                          *)
<1>8. ASSUME NEW i \in DOMAIN unhandled
      PROVE  /\ unhandled[i] \in Client \ Requests /\ pc'[unhandled[i]] \in Returned
             /\ ms[unhandled[i]] = m
             /\ unhandled[i] # c => OnStream(unhandled[i])
  <2>1. unhandled[i] \in Client \ Requests
    OBVIOUS
  <2>2. CASE unhandled[i] = c
    BY <1>1, <1>5, <2>1, <2>2
  <2>3. CASE unhandled[i] # c
    <3>1. PICK j \in DOMAIN out[m] : out[m][j] = unhandled[i]
      BY <1>1, <2>3
    <3>2. /\ ms[unhandled[i]] = m /\ OnStream(unhandled[i])
          /\ pc[unhandled[i]] \in Returned
      BY <2>1, <3>1, CarriesOwn DEF IInv, Copies, Streams
    <3> QED  BY <1>5, <2>1, <2>3, <3>2
  <2> QED  BY <2>2, <2>3
<1>c. /\ Attempts(c)' = 2 /\ \A d \in Client \ {c} : Attempts(d)' = Attempts(d)
  BY <1>5 DEF Attempts
<1>s. /\ stray' \in [Client -> 0..2]
      /\ \A d \in Client : handled[d] + UnderWay(d)' <= Attempts(d)'
  <2>1. \A d \in Client : /\ Attempts(d) <= Attempts(d)' /\ Attempts(d)' \in 0..2
                          /\ Attempts(d) \in 0..2
    BY <1>c, Counts DEF IInv
  <2>2. CASE out' = [out EXCEPT ![m] = <<>>] /\ stray' = Astray(unhandled)
    <3>1. unhandled \in Seq(Client)
      OBVIOUS
    <3>2. ASSUME NEW i \in DOMAIN unhandled
          PROVE  \/ \E j \in DOMAIN out[m] : out[m][j] = unhandled[i]
                 \/ Attempts(unhandled[i]) < Attempts(unhandled[i])'
      BY <1>1, <1>8, <1>c, <3>2
    <3> HIDE DEF Attempts
    <3> QED  BY <2>1, <2>2, <3>1, <3>2, GoneAstray DEF IInv
  <2>3. CASE out'[m] = unhandled /\ stray' = stray
    <3>1. ASSUME NEW d \in Client, OnStream(d)'
          PROVE  OnStream(d) \/ (d = c /\ c \notin Requests)
      <4>1. PICK n \in Sender : \E i \in DOMAIN out'[n] : out'[n][i] = d
        BY <3>1 DEF OnStream
      <4>2. CASE n = m
        <5>1. PICK i \in DOMAIN unhandled : unhandled[i] = d
          BY <2>3, <4>1, <4>2
        <5>2. d \notin Requests /\ (d # c => OnStream(d))
          BY <1>8, <5>1
        <5> QED  BY <5>2
      <4>3. CASE n # m
        <5>1. out'[n] = out[n]
          BY <1>6, <4>3
        <5>2. \E i \in DOMAIN out[n] : out[n][i] = d
          BY <4>1, <5>1
        <5> QED  BY <5>2 DEF OnStream
      <4> QED  BY <4>2, <4>3
    <3>2. ASSUME NEW d \in Client  PROVE handled[d] + UnderWay(d)' <= Attempts(d)'
      <4>1. /\ handled[d] \in 0..2 /\ stray[d] \in 0..2
            /\ UnderWay(d) = (IF OnStream(d) THEN stray[d] + 1 ELSE stray[d])
            /\ handled[d] + UnderWay(d) <= Attempts(d)
        BY Counts DEF IInv, Copies
      <4>2. UnderWay(d)' = IF OnStream(d)' THEN stray[d] + 1 ELSE stray[d]
        BY <2>3, <4>1 DEF UnderWay
      <4>a. Attempts(d) <= Attempts(d)' /\ Attempts(d)' \in 0..2 /\ Attempts(d) \in 0..2
        BY <2>1
      <4>3. CASE d = c /\ c \notin Requests
        <5>1. Attempts(d) < 2 /\ Attempts(d)' = 2
          BY <1>c, <4>3
        <5>2. handled[d] + stray[d] + 1 <= 2
          BY <4>1, <4>a, <5>1
        <5> QED  BY <4>1, <4>2, <5>1, <5>2
      <4>4. CASE ~ (d = c /\ c \notin Requests)
        <5>1. OnStream(d)' => OnStream(d)
          BY <3>1, <4>4
        <5> QED  BY <4>1, <4>2, <4>a, <5>1
      <4> QED  BY <4>3, <4>4
    <3> QED  BY <2>3, <3>2 DEF IInv, TypeOK
  <2> QED  BY <1>7, <2>2, <2>3
<1>9. TypeOK'
  <2>0. open' \in [Sender -> BOOLEAN]
    BY <1>3 DEF IInv, TypeOK
  <2>1. out' \in [Sender -> Seq(Client)]
    <3>1. unhandled \in Seq(Client) /\ <<>> \in Seq(Client)
      OBVIOUS
    <3>2. out \in [Sender -> Seq(Client)]
      BY DEF IInv, TypeOK
    <3>3. out' = [out EXCEPT ![m] = <<>>] \/ out' = [out EXCEPT ![m] = unhandled]
      BY <1>3
    <3> HIDE <1>3
    <3> QED  BY <3>1, <3>2, <3>3
  <2>2. stray' \in [Client -> 0..2]
    BY <1>s
  <2>3. singleMes' \in [Sender -> 0..ReuseTries + 1]
    <3>1. singleMes \in [Sender -> 0..ReuseTries + 1] /\ ReuseTries \in Nat
      BY SenderAssumption DEF IInv, TypeOK
    <3>2. singleMes[m] <= ReuseTries => singleMes[m] + 1 \in 0..ReuseTries + 1
      BY <3>1
    <3>3. CASE singleMes' = singleMes
      BY <3>1, <3>3
    <3>4. CASE singleMes' = [singleMes EXCEPT ![m] = @ + 1] /\ singleMes[m] <= ReuseTries
      BY <3>1, <3>2, <3>4
    <3>5. CASE singleMes' = [singleMes EXCEPT ![m] = @]
      BY <3>1, <3>5
    <3> QED  BY <1>3, <3>3, <3>4, <3>5
  <2>4. lk' \in [Sender -> Client \cup {NoOne}]
    BY <1>3 DEF Unlock, IInv, TypeOK
  <2>5. pc' \in [Client -> Steps]
    BY <1>2, <1>4 DEF Goto, IInv, TypeOK, Steps
  <2> QED  BY <2>0, <2>1, <2>2, <2>3, <2>4, <2>5 DEF IInv, TypeOK, Steps
<1>10. Locks'
  BY <1>1, <1>2, <1>3, <1>4, LockReleased DEF IInv
<1>11. Streams'
  <2>1. ASSUME NEW n \in Sender, NEW i \in DOMAIN out'[n]
        PROVE  IF out'[n][i] \in Requests
               THEN i = Len(out'[n]) /\ lk'[n] = out'[n][i] /\ pc'[out'[n][i]] = "read" /\ in'[n] = <<>>
               ELSE pc'[out'[n][i]] \in Returned
    <3>1. CASE n = m
      BY <1>7, <1>8, <3>1
    <3>2. CASE n # m
      <4>1. out'[n] = out[n] /\ lk'[n] = lk[n] /\ in'[n] = in[n]
        BY <1>1, <1>6, <3>2
      <4>2. out[n][i] \in Client /\ out[n][i] # c
        BY <1>1, <3>2, <4>1, CarriesOwn
      <4>3. IF out[n][i] \in Requests
            THEN i = Len(out[n]) /\ lk[n] = out[n][i] /\ pc[out[n][i]] = "read" /\ in[n] = <<>>
            ELSE pc[out[n][i]] \in Returned
        BY <4>1 DEF IInv, Streams
      <4> QED  BY <1>5, <4>1, <4>2, <4>3
    <3> QED  BY <3>1, <3>2
  <2>2. ASSUME NEW n \in Sender, in'[n] # <<>>
        PROVE  lk'[n] \in Requests /\ in'[n] = <<lk'[n]>> /\ pc'[lk'[n]] = "read" /\ handled[lk'[n]] > 0
    <3>1. n # m /\ in'[n] = in[n] /\ lk'[n] = lk[n]
      BY <1>1, <1>6, <2>2
    <3>2. lk[n] \in Requests /\ in[n] = <<lk[n]>> /\ pc[lk[n]] = "read" /\ handled[lk[n]] > 0
      BY <2>2, <3>1 DEF IInv, Streams
    <3>3. lk[n] \in Client /\ lk[n] # c
      BY <1>1, <3>1, <3>2, SenderAssumption DEF IInv, Locks
    <3> QED  BY <1>5, <3>1, <3>2, <3>3
  <2> QED  BY <2>1, <2>2 DEF Streams
<1>12. Copies'
  <2>1. \A n \in Sender : \A i, j \in DOMAIN out'[n] : out'[n][i] = out'[n][j] => i = j
    <3>1. \A n \in Sender : \A i, j \in DOMAIN out[n] : out[n][i] = out[n][j] => i = j
      BY DEF IInv, Copies
    <3>2. \A i, j \in DOMAIN out'[m] : out'[m][i] = out'[m][j] => i = j
      BY <1>7
    <3>3. \A n \in Sender \ {m} : \A i, j \in DOMAIN out'[n] : out'[n][i] = out'[n][j] => i = j
      BY <1>6, <3>1
    <3> QED  BY <3>2, <3>3
  <2>2. ASSUME NEW n \in Sender, NEW i \in DOMAIN out'[n]
        PROVE  ms[out'[n][i]] = n
    <3>1. CASE n = m
      BY <1>7, <1>8, <3>1
    <3>2. CASE n # m
      BY <1>6, <3>2 DEF IInv, Copies
    <3> QED  BY <3>1, <3>2
  <2> QED  BY <1>s, <2>1, <2>2 DEF Copies
<1>13. Unborn' /\ InvalidLeavesMap'
  BY <1>1, <1>2, <1>4, MapKept
<1>14. InvalidStaysClosed'
  <2>1. \A n \in Sender : open'[n] => open[n]
    BY <1>3 DEF IInv, TypeOK
  <2> QED  BY <2>1 DEF IInv, InvalidStaysClosed
<1> QED  BY <1>9, <1>10, <1>11, <1>12, <1>13, <1>14 DEF IInv

LEMMA WriteMessageIInv ==
  ASSUME IInv, NEW c \in Client, WriteMessage(c)
  PROVE  IInv'
<1> DEFINE m == ms[c]
           unhandled == Append(out[m], c)
<1>1. /\ pc[c] = "write" /\ c \notin Requests /\ Finish(c, unhandled)
      /\ UNCHANGED <<ctxDone, strmap, dropping, in, invalid, handled, ms, retry, got>>
  BY DEF WriteMessage, callVars
<1>2. m \in Sender /\ lk[m] = c /\ out[m] \in Seq(Client)
  BY <1>1 DEF IInv, Locks, Holding, TypeOK
<1>3. ~ OnStream(c)
  BY <1>1, OnStreamWhere DEF IInv, Returned
<1>4. in[m] = <<>>
  BY <1>1, <1>2 DEF IInv, Streams
<1>5. \A i \in DOMAIN out[m] : out[m][i] \in Client \ Requests /\ out[m][i] # c
  <2>1. \A i \in DOMAIN out[m] : out[m][i] \in Requests => lk[m] = out[m][i]
    BY <1>2 DEF IInv, Streams
  <2> QED  BY <1>1, <1>2, <1>3, <2>1, CarriesOwn
<1>6. unhandled \in Seq(Client \ Requests)
  <2>1. out[m] \in Seq(Client \ Requests)
    BY <1>2, <1>5
  <2> QED  BY <1>1, <2>1
<1>7. /\ DOMAIN unhandled = DOMAIN out[m] \cup {Len(out[m]) + 1}
      /\ unhandled[Len(out[m]) + 1] = c
      /\ \A i \in DOMAIN out[m] : unhandled[i] = out[m][i]
  BY <1>2
<1> HIDE DEF unhandled
<1>8. /\ \A i, j \in DOMAIN unhandled : unhandled[i] = unhandled[j] => i = j
      /\ \A i \in DOMAIN unhandled :
           unhandled[i] # c => \E j \in DOMAIN out[m] : out[m][j] = unhandled[i]
  <2>1. \A i, j \in DOMAIN out[m] : out[m][i] = out[m][j] => i = j
    BY <1>2 DEF IInv, Copies
  <2> QED  BY <1>5, <1>7, <2>1
<1>9. Attempts(c) < 2
  BY <1>1 DEF Attempts, Returned
<1>10. in' \in [Sender -> Seq(Requests)] /\ got' \in [Client -> Requests \cup {NoOne}] /\ OwnAnswer'
  BY <1>1 DEF IInv, TypeOK, OwnAnswer
<1> QED  BY <1>1, <1>3, <1>4, <1>6, <1>8, <1>9, <1>10, FinishIInv

LEMMA ReadResponseIInv ==
  ASSUME IInv, NEW c \in Client, ReadResponse(c)
  PROVE  IInv' /\ handled[c] > 0
<1> DEFINE m == ms[c]
<1>1. /\ pc[c] = "read" /\ in[m] # <<>> /\ Finish(c, out[m])
      /\ got' = [got EXCEPT ![c] = Head(in[m])] /\ in' = [in EXCEPT ![m] = Tail(@)]
      /\ UNCHANGED <<ctxDone, strmap, dropping, invalid, handled, ms, retry>>
  BY DEF ReadResponse
<1>2. m \in Sender /\ lk[m] = c /\ out[m] \in Seq(Client)
  BY <1>1 DEF IInv, Locks, Holding, TypeOK
<1>3. c \in Requests /\ in[m] = <<c>> /\ handled[c] > 0
  BY <1>1, <1>2 DEF IInv, Streams
<1>4. out[m] \in Seq(Client \ Requests)
  <2>1. \A i \in DOMAIN out[m] : out[m][i] \in Client \ Requests
    BY <1>1, <1>2 DEF IInv, Streams, TypeOK
  <2> QED  BY <1>2, <2>1
<1>5. \A i, j \in DOMAIN out[m] : out[m][i] = out[m][j] => i = j
  BY <1>2 DEF IInv, Copies
<1>6. /\ in' \in [Sender -> Seq(Requests)] /\ in'[m] = <<>>
      /\ \A n \in Sender \ {m} : in'[n] = in[n]
  <2>1. Tail(in[m]) = <<>> /\ <<>> \in Seq(Requests)
    BY <1>3
  <2> QED  BY <1>1, <1>2, <2>1 DEF IInv, TypeOK
<1>7. got' = [got EXCEPT ![c] = c]
  BY <1>1, <1>3
<1>8. got' \in [Client -> Requests \cup {NoOne}] /\ OwnAnswer'
  BY <1>3, <1>7 DEF IInv, TypeOK, OwnAnswer
<1> QED  BY <1>1, <1>3, <1>4, <1>5, <1>6, <1>8, FinishIInv

-----------------------------------------------------------------------------
LEMMA NextIInv == IInv /\ [Next]_vars => IInv'
<1> SUFFICES ASSUME IInv, [Next]_vars PROVE IInv'
  OBVIOUS
<1>1. ASSUME NEW c \in Client, Call(c) PROVE IInv'
  BY <1>1, FindSenderIInv, CreateSenderIInv, TakeLockIInv, OpeningIInv, PrepFailsIInv,
     PrepFailedIInv, PrepErrorIInv, WriteRequestIInv, WriteMessageIInv, ReadResponseIInv,
     BrokenIInv DEF Call
<1>2. ASSUME NEW c \in Client, GiveUpPrep(c) \/ GiveUpSend(c) \/ ServeStray(c) PROVE IInv'
  BY <1>2, GiveUpIInv, ServeStrayIInv
<1>3. ASSUME NEW m \in Sender, Invalidate(m) \/ Serve(m) PROVE IInv'
  BY <1>3, InvalidateIInv, ServeIInv
<1>4. CASE OnDisconnect \/ EndContext \/ \E m \in Sender : Abandon(m)
  BY <1>4, OnDisconnectIInv, ContextIInv
<1>5. CASE UNCHANGED vars
  <2>1. UNCHANGED <<ctxDone, strmap, dropping, open, out, in, stray, lk, invalid, singleMes, handled,
                    pc, ms, retry, got>>
    BY <1>5 DEF vars, streamVars, senderVars, callVars
  <2>2. TypeOK' /\ Locks' /\ Streams' /\ Unborn'
    BY <2>1 DEF IInv, TypeOK, Locks, Streams, Unborn
  <2>3. InvalidStaysClosed' /\ InvalidLeavesMap' /\ OwnAnswer'
    BY <2>1 DEF IInv, InvalidStaysClosed, InvalidLeavesMap, OwnAnswer
  <2>4. Copies'
    BY <2>1 DEF IInv, Copies, Attempts, UnderWay, OnStream
  <2> QED  BY <2>2, <2>3, <2>4 DEF IInv
<1> QED  BY <1>1, <1>2, <1>3, <1>4, <1>5 DEF Next

(* The invariant holds of every run of the sender.                         *)
THEOREM Inductive == Spec => []IInv
BY InitIInv, NextIInv, PTL DEF Spec

THEOREM TypeCorrect == Spec => []TypeOK
<1>1. IInv => TypeOK
  BY DEF IInv
<1> QED  BY <1>1, Inductive, PTL

(* SendRequest returns the answer to its own request, though answers carry *)
(* no identity and calls share a stream, are retried and given up.         *)
THEOREM OwnAnswers == Spec => []OwnAnswer
<1>1. IInv => OwnAnswer
  BY DEF IInv
<1> QED  BY <1>1, Inductive, PTL

(* A peerMessageSender that was invalidated never has a stream again.      *)
THEOREM StaysClosed == Spec => []InvalidStaysClosed
<1>1. IInv => InvalidStaysClosed
  BY DEF IInv
<1> QED  BY <1>1, Inductive, PTL

(* An invalid sender in strmap is being taken out by its creator.          *)
THEOREM LeavesMap == Spec => []InvalidLeavesMap
<1>1. IInv => InvalidLeavesMap
  BY DEF IInv
<1> QED  BY <1>1, Inductive, PTL

-----------------------------------------------------------------------------
(* A step of one call, as Rpc sees it.                                     *)
LEMMA CallStep ==
  ASSUME IInv, NEW c \in Client, NEW x \in Steps \ Idle, Goto(c, x),
         pc[c] \notin Returned, pc[c] = "idle" => x \notin Returned,
         x = "ok" /\ c \in Requests => handled[c] > 0,
         UNCHANGED handled
  PROVE  [R!RpcNext]_R!rpcVars
<1>1. pc'[c] = x /\ \A d \in Client \ {c} : pc'[d] = pc[d]
  BY DEF Goto, IInv, TypeOK
<1> DEFINE call    == [d \in Client |-> CallOf(d)]
           to      == IF x \in Returned THEN x ELSE "pending"
<1>2. call' = [call EXCEPT ![c] = to]
  <2>1. CallOf(c)' = to
    BY <1>1 DEF CallOf, Idle
  <2>2. \A d \in Client \ {c} : CallOf(d)' = CallOf(d)
    BY <1>1 DEF CallOf
  <2> QED  BY <2>1, <2>2
<1>3. call[c] = IF pc[c] = "idle" THEN "idle" ELSE "pending"
  BY DEF CallOf
<1>4. to \in {"pending", "ok", "failed"} /\ (to = "ok" => x = "ok")
  BY DEF Returned
<1>5. CASE pc[c] = "idle"
  <2>1. to = "pending"
    BY <1>5
  <2>2. R!Begin(c)
    BY <1>2, <1>3, <1>5, <2>1 DEF R!Begin
  <2> QED  BY <2>2 DEF R!RpcNext
<1>6. CASE pc[c] # "idle" /\ to = "pending"
  <2>1. call' = call
    BY <1>2, <1>3, <1>6
  <2> QED  BY <2>1 DEF R!rpcVars
<1>7. CASE pc[c] # "idle" /\ to = "ok"
  <2>1. R!Succeed(c)
    BY <1>2, <1>3, <1>4, <1>7 DEF R!Succeed
  <2> QED  BY <2>1 DEF R!RpcNext
<1>8. CASE pc[c] # "idle" /\ to = "failed"
  <2>1. R!GiveUp(c)
    BY <1>2, <1>3, <1>8 DEF R!GiveUp
  <2> QED  BY <2>1 DEF R!RpcNext
<1> QED  BY <1>4, <1>5, <1>6, <1>7, <1>8

(* The remote handles what is under way.                                   *)
LEMMA HandleStep ==
  ASSUME IInv, NEW c \in Client, OnStream(c) \/ stray[c] > 0,
         pc' = pc, handled' = [handled EXCEPT ![c] = @ + 1]
  PROVE  [R!RpcNext]_R!rpcVars
<1> DEFINE call == [d \in Client |-> CallOf(d)]
<1>1. call' = call
  BY DEF CallOf
<1>2. /\ handled[c] \in 0..2 /\ stray[c] \in 0..2 /\ Attempts(c) \in 0..2
      /\ UnderWay(c) = (IF OnStream(c) THEN stray[c] + 1 ELSE stray[c])
      /\ handled[c] + UnderWay(c) <= Attempts(c)
  BY Counts DEF IInv, Copies
<1>3. handled[c] < 2 /\ Attempts(c) > 0
  BY <1>2
<1>4. call[c] # "idle"
  <2>1. pc[c] # "idle"
    BY <1>3 DEF Attempts, Returned
  <2> QED  BY <2>1 DEF CallOf, Returned
<1>5. R!Handle(c)
  BY <1>1, <1>3, <1>4 DEF R!Handle
<1> QED  BY <1>5 DEF R!RpcNext

LEMMA NextRpc == IInv /\ [Next]_vars => [R!RpcNext]_R!rpcVars
<1> SUFFICES ASSUME IInv, [Next]_vars PROVE [R!RpcNext]_R!rpcVars
  OBVIOUS
<1>1. ASSUME NEW c \in Client, Call(c) \/ GiveUpPrep(c) \/ GiveUpSend(c)
      PROVE  [R!RpcNext]_R!rpcVars
  <2>1. PICK x \in Steps \ Idle :
          /\ Goto(c, x) /\ pc[c] \notin Returned /\ (pc[c] = "idle" => x \notin Returned)
          /\ (x = "ok" /\ c \in Requests => handled[c] > 0)
          /\ UNCHANGED handled
    <3>1. CASE \/ FindSender(c) \/ CreateSender(c) \/ LockForPrep(c) \/ Prepared(c) \/ PrepFails(c)
               \/ LockForSend(c) \/ Prep(c) \/ GiveUpPrep(c) \/ WriteRequest(c)
      BY <3>1 DEF FindSender, CreateSender, LockForPrep, Prepared, PrepFails, LockForSend, Prep,
         GiveUpPrep, WriteRequest, Steps, Idle, Holding, Returned
    <3>2. CASE PrepFailed(c) \/ PrepError(c) \/ Broken(c) \/ GiveUpSend(c)
      BY <3>2 DEF PrepFailed, PrepError, Broken, GiveUpSend, Steps, Idle, Holding, Returned
    <3>3. CASE WriteMessage(c)
      BY <3>3 DEF WriteMessage, Finish, Steps, Idle, Holding, Returned
    <3>4. CASE ReadResponse(c)
      BY <3>4, ReadResponseIInv DEF ReadResponse, Finish, Steps, Idle, Holding, Returned
    <3> QED  BY <1>1, <3>1, <3>2, <3>3, <3>4 DEF Call
  <2> QED  BY <2>1, CallStep
<1>2. ASSUME NEW c \in Client, ServeStray(c) PROVE [R!RpcNext]_R!rpcVars
  BY <1>2, HandleStep DEF ServeStray
<1>3. ASSUME NEW m \in Sender, Serve(m) PROVE [R!RpcNext]_R!rpcVars
  <2>1. out[m] \in Seq(Client) /\ out[m] # <<>>
    BY <1>3 DEF Serve, IInv, TypeOK
  <2>2. Head(out[m]) \in Client /\ OnStream(Head(out[m]))
    BY <2>1 DEF OnStream
  <2> QED  BY <1>3, <2>2, HandleStep DEF Serve
<1>4. CASE \/ \E m \in Sender : Invalidate(m) \/ Abandon(m)
         \/ OnDisconnect \/ EndContext \/ UNCHANGED vars
  <2>1. pc' = pc /\ handled' = handled
    BY <1>4 DEF Invalidate, Abandon, OnDisconnect, EndContext, vars
  <2> QED  BY <2>1 DEF R!rpcVars, CallOf
<1> QED  BY <1>1, <1>2, <1>3, <1>4 DEF Next

(* For callers, the sender with its shared streams, retries and            *)
(* disconnections is a remote call that is handled at most twice.          *)
THEOREM ImplementsRpc == Spec => RpcSpec
<1>1. Init => R!RpcInit
  BY DEF Init, R!RpcInit, CallOf
<1> QED  BY <1>1, NextRpc, Inductive, PTL DEF Spec, RpcSpec, R!RpcSpec

-----------------------------------------------------------------------------
(* Streams are not forgotten while nobody cancels and the DHT is open: the *)
(* sender of a call under way is in the map, or it is or will be invalid,  *)
(* and only such calls open streams.  A call cancelled in prepOrInvalidate *)
(* breaks this, taking out of the map a sender that is not invalid; and    *)
(* once dht.ctx is done OnDisconnect's goroutine need not invalidate.      *)
Active == {"prepLock", "lock"} \cup Holding

Tracked ==
  /\ \A c \in Client : pc[c] \in Active => \/ invalid[ms[c]]
                                           \/ strmap = ms[c]
                                           \/ ms[c] \in dropping
  /\ \A c \in Client : pc[c] = "prepFailed" => invalid[ms[c]]
  /\ \A m \in Sender : open[m] => strmap = m \/ m \in dropping

TrackedWhileOpen == ctxDone \/ Tracked

LEMMA TrackedKept ==
  ASSUME IInv, Tracked, UNCHANGED <<strmap, dropping, ms>>,
         \A m \in Sender : invalid[m] => invalid'[m],
         \A m \in Sender : open'[m] => open[m] \/ strmap = m \/ m \in dropping,
         \A c \in Client : pc'[c] \in Active => pc[c] \in Active,
         \A c \in Client : pc'[c] = "prepFailed" => pc[c] = "prepFailed" \/ invalid'[ms[c]]
  PROVE  Tracked'
<1>1. \A c \in Client : pc[c] \in Active \/ pc[c] = "prepFailed" => ms[c] \in Sender
  BY DEF IInv, Locks, Active, Holding
<1> HIDE DEF Active
<1> QED  BY <1>1 DEF Tracked

LEMMA NextTracked ==
  ASSUME MayCancel = {}, IInv, Tracked, ~ ctxDone, [Next]_vars
  PROVE  TrackedWhileOpen'
<1>1. ASSUME NEW c \in Client, FindSender(c) PROVE Tracked'
  <2>1. /\ UNCHANGED <<strmap, dropping, open, invalid>>
        /\ ms'[c] = strmap /\ pc'[c] = "lock"
        /\ \A d \in Client \ {c} : ms'[d] = ms[d] /\ pc'[d] = pc[d]
    BY <1>1 DEF FindSender, Goto, streamVars, senderVars, IInv, TypeOK
  <2> QED  BY <2>1 DEF Tracked
<1>2. ASSUME NEW c \in Client, CreateSender(c) PROVE Tracked'
  <2>1. /\ strmap = NoOne /\ strmap' = c /\ UNCHANGED <<dropping, open, invalid>>
        /\ ms'[c] = c /\ pc'[c] = "prepLock"
        /\ \A d \in Client \ {c} : ms'[d] = ms[d] /\ pc'[d] = pc[d]
    BY <1>2 DEF CreateSender, Goto, streamVars, senderVars, IInv, TypeOK
  <2>2. \A d \in Client : pc[d] \in Active => ms[d] # NoOne
    BY SenderAssumption DEF IInv, Locks, Active, Holding, Sender
  <2>3. \A m \in Sender : m # NoOne
    BY SenderAssumption DEF Sender
  <2> QED  BY <2>1, <2>2, <2>3 DEF Tracked
<1>3. ASSUME NEW c \in Client, PrepFailed(c) PROVE Tracked'
  <2>1. /\ pc[c] = "prepFailed" /\ invalid[ms[c]] /\ UNCHANGED <<dropping, open, invalid>>
        /\ \A d \in Client \ {c} : ms'[d] = ms[d] /\ pc'[d] = pc[d]
        /\ \/ strmap \notin {NoOne, ms[c]} /\ ms'[c] = strmap /\ pc'[c] = "lock" /\ strmap' = strmap
           \/ strmap \in {NoOne, ms[c]} /\ ms' = ms /\ pc'[c] = "failed" /\ strmap' = NoOne
    BY <1>3 DEF PrepFailed, Goto, streamVars, senderVars, IInv, TypeOK, Tracked
  <2>2. CASE strmap \notin {NoOne, ms[c]}
    BY <2>1, <2>2 DEF Tracked
  <2>3. CASE strmap \in {NoOne, ms[c]}
    <3>1. strmap' = strmap \/ (strmap = ms[c] /\ invalid[strmap])
      BY <2>1, <2>3
    <3>2. \A d \in Client : pc'[d] \in Active \/ pc'[d] = "prepFailed" => d # c
      BY <2>1, <2>3 DEF Active, Holding
    <3>3. \A m \in Sender : open[m] => ~ invalid[m]
      BY DEF IInv, InvalidStaysClosed
    <3> HIDE DEF Active
    <3> QED  BY <2>1, <2>3, <3>1, <3>2, <3>3 DEF Tracked
  <2> QED  BY <2>2, <2>3
<1>4. ASSUME NEW c \in Client, LockForPrep(c) \/ LockForSend(c) \/ PrepError(c) PROVE Tracked'
  <2>1. /\ UNCHANGED <<strmap, dropping, ms, open, invalid>> /\ pc[c] \in Active
        /\ pc'[c] # "prepFailed" /\ \A d \in Client \ {c} : pc'[d] = pc[d]
    BY <1>4 DEF LockForPrep, LockForSend, PrepError, Goto, streamVars, senderVars, callVars, IInv,
       TypeOK, Active, Holding
  <2> QED  BY <2>1, TrackedKept
<1>5. ASSUME NEW c \in Client, Prepared(c) \/ Prep(c) PROVE Tracked'
  <2>1. /\ UNCHANGED <<strmap, dropping, ms, invalid>> /\ pc[c] \in Active
        /\ ~ invalid[ms[c]] /\ open' = [open EXCEPT ![ms[c]] = TRUE]
        /\ pc'[c] # "prepFailed" /\ \A d \in Client \ {c} : pc'[d] = pc[d]
    BY <1>5 DEF Prepared, Prep, OpenStream, Goto, senderVars, callVars, IInv, TypeOK, Active, Holding
  <2>2. strmap = ms[c] \/ ms[c] \in dropping
    BY <2>1 DEF Tracked
  <2>3. \A m \in Sender : open'[m] => open[m] \/ m = ms[c]
    BY <2>1 DEF IInv, TypeOK
  <2> QED  BY <2>1, <2>2, <2>3, TrackedKept
<1>6. ASSUME NEW c \in Client, PrepFails(c) PROVE Tracked'
  <2>1. /\ UNCHANGED <<strmap, dropping, ms>> /\ pc[c] \in Active
        /\ invalid' = [invalid EXCEPT ![ms[c]] = TRUE] /\ open' = [open EXCEPT ![ms[c]] = FALSE]
        /\ \A d \in Client \ {c} : pc'[d] = pc[d]
    BY <1>6 DEF PrepFails, ResetStream, Goto, callVars, IInv, TypeOK, Active, Holding
  <2>2. ms[c] \in Sender
    BY <2>1 DEF IInv, Locks, Active, Holding
  <2>3. invalid'[ms[c]] /\ \A m \in Sender : (invalid[m] => invalid'[m]) /\ (open'[m] => open[m])
    BY <2>1, <2>2 DEF IInv, TypeOK
  <2> QED  BY <2>1, <2>3, TrackedKept
<1>7. ASSUME NEW c \in Client, WriteRequest(c) \/ WriteMessage(c) \/ ReadResponse(c) \/ Broken(c)
      PROVE  Tracked'
  <2>1. UNCHANGED <<strmap, dropping, ms, invalid>> /\ pc[c] \in Active
    BY <1>7 DEF WriteRequest, WriteMessage, ReadResponse, Broken, senderVars, callVars, Active, Holding
  <2>2. open' = open \/ open' = [open EXCEPT ![ms[c]] = FALSE]
    BY <1>7 DEF WriteRequest, WriteMessage, ReadResponse, Broken, ResetStream, Finish
  <2>3. \A m \in Sender : open'[m] => open[m]
    BY <2>2 DEF IInv, TypeOK
  <2>4. \E x \in {"read", "ok", "failed", "ready"} : pc' = [pc EXCEPT ![c] = x]
    BY <1>7 DEF WriteRequest, WriteMessage, ReadResponse, Broken, Finish, Goto, Returned
  <2>5. pc'[c] # "prepFailed" /\ \A d \in Client \ {c} : pc'[d] = pc[d]
    BY <2>4 DEF IInv, TypeOK
  <2> QED  BY <2>1, <2>3, <2>5, TrackedKept
<1>8. ASSUME NEW m \in Sender, Invalidate(m) PROVE Tracked'
  <2>1. /\ UNCHANGED <<strmap, ms, pc>> /\ dropping' = dropping \ {m}
        /\ invalid'[m] /\ ~ open'[m]
        /\ \A n \in Sender \ {m} : invalid'[n] = invalid[n] /\ open'[n] = open[n]
    BY <1>8 DEF Invalidate, ResetStream, callVars, IInv, TypeOK
  <2>2. \A c \in Client : pc[c] \in Active \/ pc[c] = "prepFailed" => ms[c] \in Sender
    BY DEF IInv, Locks, Active, Holding
  <2> HIDE DEF Active
  <2>3. \A n \in Sender : n \in dropping => n \in dropping' \/ invalid'[n]
    BY <2>1
  <2>4. \A n \in Sender : invalid[n] => invalid'[n]
    BY <2>1
  <2>5. \A c \in Client : pc[c] \in Active => \/ invalid'[ms[c]]
                                             \/ strmap = ms[c]
                                             \/ ms[c] \in dropping'
    BY <2>2, <2>3, <2>4 DEF Tracked
  <2>6. \A c \in Client : pc[c] = "prepFailed" => invalid'[ms[c]]
    BY <2>2, <2>4 DEF Tracked
  <2>7. \A n \in Sender : open'[n] => strmap = n \/ n \in dropping'
    BY <2>1 DEF Tracked
  <2> QED  BY <2>1, <2>5, <2>6, <2>7 DEF Tracked
<1>9. CASE OnDisconnect
  BY <1>9 DEF OnDisconnect, streamVars, senderVars, callVars, Tracked, TrackedWhileOpen
<1>10. ASSUME UNCHANGED <<strmap, dropping, open, invalid, ms, pc>> PROVE Tracked'
  BY <1>10 DEF Tracked
<1>11. ASSUME NEW c \in Client, GiveUpPrep(c) \/ GiveUpSend(c) PROVE FALSE
  BY <1>11 DEF GiveUpPrep, GiveUpSend
<1>12. ASSUME \/ UNCHANGED vars
              \/ \E c \in Client : ServeStray(c)
              \/ \E m \in Sender : Serve(m)
       PROVE  Tracked'
  <2>1. UNCHANGED <<strmap, dropping, open, invalid, ms, pc>>
    BY <1>12 DEF vars, ServeStray, Serve, streamVars, senderVars, callVars
  <2> QED  BY <1>10, <2>1
<1>13. ASSUME NEW c \in Client, Call(c) PROVE Tracked'
  BY <1>1, <1>2, <1>3, <1>4, <1>5, <1>6, <1>7, <1>13 DEF Call
<1>14. CASE EndContext \/ \E m \in Sender : Abandon(m)
  BY <1>14 DEF EndContext, Abandon, TrackedWhileOpen
<1> QED  BY <1>8, <1>9, <1>11, <1>12, <1>13, <1>14 DEF Next, TrackedWhileOpen

(* While no caller's context is cancelled and the DHT is not closed, every *)
(* stream in use belongs to the sender in strmap, or to one that a call or *)
(* the goroutine of an OnDisconnect still has to do with.                  *)
THEOREM NothingForgotten ==
  ASSUME MayCancel = {}
  PROVE  Spec => []NoForgottenStream
<1>1. Init => TrackedWhileOpen
  BY DEF Init, Tracked, TrackedWhileOpen, Active, Holding
<1>2. IInv /\ TrackedWhileOpen /\ [Next]_vars => TrackedWhileOpen'
  <2>1. ctxDone /\ [Next]_vars => ctxDone'
    BY DEF Next, vars, Call, FindSender, CreateSender, LockForPrep, Prepared, PrepFails, PrepFailed,
       LockForSend, Prep, PrepError, WriteRequest, WriteMessage, ReadResponse, Broken, GiveUpPrep,
       GiveUpSend, ServeStray, Invalidate, Abandon, Serve, OnDisconnect, EndContext
  <2> QED  BY <2>1, NextTracked DEF TrackedWhileOpen
<1>3. TrackedWhileOpen => NoForgottenStream
  BY DEF Tracked, TrackedWhileOpen, NoForgottenStream
<1> QED  BY <1>1, <1>2, <1>3, Inductive, PTL DEF Spec
=============================================================================
