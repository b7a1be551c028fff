---------------------------- MODULE KBucketLayout ----------------------------
(***************************************************************************)
(* The buckets of a routing table as a value, and the pure functions that  *)
(* unfold, fill and fold them (kbucket/table.go, kbucket/bucket.go).       *)
(*                                                                         *)
(* b is a function from 0..n to sets of peers: b[i] is rt.buckets[i].      *)
(*                                                                         *)
(* Here and in the other modules a definition Op_Variant is Op with a      *)
(* plausible mistake in it.  No specification uses one: each is kept to    *)
(* show that a property would notice the mistake.                          *)
(***************************************************************************)
EXTENDS Integers, FiniteSets

CONSTANTS
  CPL,         (* CPL[p]: common prefix length of p's key and the local    *)
               (* key, for every peer p                                    *)
  MaxCPL,      (* the longest common prefix possible (255 for SHA-256)     *)
  BucketSize   (* how many peers a bucket holds                            *)

ASSUME LayoutAssumption ==
  /\ IsFiniteSet(DOMAIN CPL)
  /\ MaxCPL \in Nat
  /\ \A p \in DOMAIN CPL : CPL[p] \in 0..MaxCPL
  /\ BucketSize \in Nat \ {0}

Largest(S) == CHOOSE x \in S : \A y \in S : y <= x

LastOf(b) == Largest(DOMAIN b)

Members(b) == UNION {b[i] : i \in DOMAIN b}

Full(S) == Cardinality(S) >= BucketSize

BucketIdForPeer(b, p) == IF CPL[p] >= LastOf(b) + 1 THEN LastOf(b) ELSE CPL[p]

PushInto(b, p) == [b EXCEPT ![BucketIdForPeer(b, p)] = @ \cup {p}]

(* The last bucket split again and again until bucket m is the last one:   *)
(* bucket i keeps the peers that share at most i bits and passes on those  *)
(* that share more.                                                        *)
Beyond(b, m) == {p \in b[LastOf(b)] : CPL[p] >= m}

UnfoldTo(b, m) ==
  [i \in 0..m |->
     IF i < LastOf(b) THEN b[i]
     ELSE {p \in b[LastOf(b)] : /\ i > LastOf(b) => CPL[p] >= i
                                /\ i < m => CPL[p] <= i}]

(* nextBucket splits once and goes on while the new last bucket is full.   *)
UnfoldPoint(b) ==
  CHOOSE m \in LastOf(b) + 1 .. MaxCPL + 1 :
    /\ ~ Full(Beyond(b, m))
    /\ \A k \in LastOf(b) + 1 .. m - 1 : Full(Beyond(b, k))

NextBucket(b) == UnfoldTo(b, UnfoldPoint(b))

(* removePeer's loop: empty buckets at the end go, then the last bucket    *)
(* takes the place of empty ones just before it.                           *)
Fold(b) ==
  LET nonEmpty == {i \in DOMAIN b : b[i] # {}}
      top  == Largest(nonEmpty)
      l    == IF nonEmpty = {top} THEN 0 ELSE Largest(nonEmpty \ {top}) + 1
  IN IF nonEmpty = {} THEN [i \in {0} |-> {}]
     ELSE [i \in 0..l |-> IF i = l THEN b[top] ELSE b[i]]

RemoveFrom(b, p) == Fold([b EXCEPT ![BucketIdForPeer(b, p)] = @ \ {p}])
==============================================================================
