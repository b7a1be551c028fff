---------------------------- MODULE RoutingTable ----------------------------
(***************************************************************************)
(* The Kademlia routing table of kbucket/table.go and kbucket/bucket.go,   *)
(* with the connection-manager callbacks that dht.go installs on it.       *)
(*                                                                         *)
(* Bucket i < last holds the peers whose key shares exactly i leading bits *)
(* with ours; the last bucket holds everything closer.  A full last bucket *)
(* is unfolded on demand and empty buckets at the end are folded back.     *)
(*                                                                         *)
(* A bucket is the set of its peers: the order of its list only decides    *)
(* which of several replaceable peers is replaced, and that choice is      *)
(* nondeterministic here.  LastUsefulAt, which the code writes and never   *)
(* reads, is left out, and LastSuccessfulOutboundQueryAt is abstracted to  *)
(* whether it is older than the threshold.  Every operation runs under     *)
(* tabLock and is one action.  CPL[p] is the common prefix length of p's   *)
(* key and ours.                                                           *)
(***************************************************************************)
EXTENDS DiversityFilter, KBucketLayout, FiniteSetsExt

CONSTANTS
  ProtectedBuckets, (* peers of the first buckets keep their connections   *)
  Trusted           (* peers the application may whitelist                 *)

ASSUME TableAssumption ==
  /\ Peer = DOMAIN CPL
  /\ ProtectedBuckets \in Nat
  /\ Trusted \subseteq Peer

VARIABLES
  buckets,      (* the buckets, indexed from 0 as in the code              *)
  replaceable,  (* peers that may give way to a new one                    *)
  stale,        (* peers whose last successful query is over the threshold *)
  protected,    (* connections the connection manager must keep            *)
  tagged        (* connections with the table's score                      *)

tableVars == <<buckets, replaceable, stale>>
connVars  == <<protected, tagged>>
vars      == <<tableVars, connVars, filterVars>>

last == LastOf(buckets)

(* The set of peers that ListPeers and GetPeerInfos return.                *)
Table == Members(buckets)

TypeOK ==
  /\ \E n \in 0..MaxCPL + 1 : buckets \in [0..n -> SUBSET Peer]
  /\ replaceable \subseteq Table
  /\ stale \subseteq Table
  /\ protected \subseteq Peer
  /\ tagged \subseteq Peer
  /\ FilterTypeOK

Init ==
  /\ buckets = [i \in {0} |-> {}]
  /\ replaceable = {}
  /\ stale = {}
  /\ protected = {}
  /\ tagged = {}
  /\ FilterInit

-----------------------------------------------------------------------------
(* PeerAdded and PeerRemoved, the callbacks of makeRoutingTable.           *)
ConnAdded(p) ==
  IF CPL[p] < ProtectedBuckets
  THEN protected' = protected \cup {p} /\ UNCHANGED tagged
  ELSE tagged' = tagged \cup {p} /\ UNCHANGED protected

ConnRemoved_KeepsProtection(p) ==
  /\ tagged' = tagged \ {p}
  /\ UNCHANGED protected

ConnRemoved(p) ==
  /\ protected' = protected \ {p}
  /\ tagged' = tagged \ {p}

ConnReplaced(p, v) ==
  /\ protected' = (IF CPL[p] < ProtectedBuckets THEN protected \cup {p} ELSE protected) \ {v}
  /\ tagged' = (IF CPL[p] < ProtectedBuckets THEN tagged ELSE tagged \cup {p}) \ {v}

InTable(p) == p \in buckets[BucketIdForPeer(buckets, p)]

Candidate_NeverUnfolds(p) == buckets

(* The buckets p is looked for a place in: those of the table, unfolded    *)
(* first if p belongs in a last bucket that is full.                       *)
Candidate(p) ==
  IF BucketIdForPeer(buckets, p) = last /\ Full(buckets[last])
  THEN NextBucket(buckets)
  ELSE buckets

HomeOf(p) == Candidate(p)[BucketIdForPeer(Candidate(p), p)]

(* What addPeer finds once p is past the latency check and the filter.     *)
HasRoom(p)     == ~ Full(HomeOf(p))
CanReplace(p)  == HomeOf(p) \cap replaceable # {}

NewRecord(p, isReplaceable, gone) ==
  /\ replaceable' = (IF isReplaceable THEN replaceable \cup {p} ELSE replaceable) \ gone
  /\ stale' = stale \ gone

-----------------------------------------------------------------------------
(* TryAddPeer, one action for each way addPeer can end.                    *)

(* p is there already: only its LastUsefulAt may change.                   *)
AddKnownPeer(p) ==
  /\ InTable(p)
  /\ UNCHANGED vars

(* Too high a latency, or refused by the diversity filter.                 *)
AddRefused(p, highLatency, addrs) ==
  /\ ~ InTable(p)
  /\ highLatency \/ ~ Admits(p, addrs)
  /\ UNCHANGED vars

AddWithRoom(p, isReplaceable, addrs) ==
  /\ ~ InTable(p)
  /\ Admits(p, addrs)
  /\ HasRoom(p)
  /\ buckets' = PushInto(Candidate(p), p)
  /\ NewRecord(p, isReplaceable, {})
  /\ FilterAdd(p, addrs)
  /\ ConnAdded(p)

AddReplacing(p, v, isReplaceable, addrs) ==
  /\ ~ InTable(p)
  /\ Admits(p, addrs)
  /\ ~ HasRoom(p)
  /\ v \in HomeOf(p) \cap replaceable
  /\ buckets' = RemoveFrom(PushInto(Candidate(p), p), v)
  /\ NewRecord(p, isReplaceable, {v})
  /\ FilterReplace(p, addrs, v)
  /\ ConnReplaced(p, v)

AddWithoutCapacity_KeepsRecord(p, addrs) ==
  /\ ~ InTable(p)
  /\ Admits(p, addrs)
  /\ ~ HasRoom(p)
  /\ ~ CanReplace(p)
  /\ buckets' = Candidate(p)
  /\ FilterAdd(p, addrs)
  /\ UNCHANGED <<replaceable, stale, connVars>>

(* ErrPeerRejectedNoCapacity: the filter forgets p, the unfolding stays.   *)
AddWithoutCapacity(p, addrs) ==
  /\ ~ InTable(p)
  /\ Admits(p, addrs)
  /\ ~ HasRoom(p)
  /\ ~ CanReplace(p)
  /\ buckets' = Candidate(p)
  /\ FilterRemove(p)
  /\ UNCHANGED <<replaceable, stale, connVars>>

(* removePeer, which does nothing for a peer it does not find.             *)
RemovePeer(p) ==
  /\ InTable(p)
  /\ buckets' = RemoveFrom(buckets, p)
  /\ replaceable' = replaceable \ {p}
  /\ stale' = stale \ {p}
  /\ FilterRemove(p)
  /\ ConnRemoved(p)

MarkAllPeersIrreplaceable ==
  /\ replaceable' = {}
  /\ UNCHANGED <<buckets, stale, connVars, filterVars>>

UpdateLastSuccessfulOutboundQueryAt(p) ==
  /\ InTable(p)
  /\ stale' = stale \ {p}
  /\ UNCHANGED <<buckets, replaceable, connVars, filterVars>>

(* The clock passes a peer's outbound query threshold.                     *)
Age(p) ==
  /\ InTable(p)
  /\ stale' = stale \cup {p}
  /\ UNCHANGED <<buckets, replaceable, connVars, filterVars>>

Whitelist(p) ==
  /\ p \in Trusted
  /\ WhitelistPeers(p)
  /\ UNCHANGED <<tableVars, connVars>>

AddPeer(p) ==
  \E isReplaceable, highLatency \in BOOLEAN, addrs \in AddrCount :
    \/ AddKnownPeer(p)
    \/ AddRefused(p, highLatency, addrs)
    \/ AddWithRoom(p, isReplaceable, addrs)
    \/ \E v \in Peer : AddReplacing(p, v, isReplaceable, addrs)
    \/ AddWithoutCapacity(p, addrs)

Next ==
  \/ \E p \in Peer :
       \/ AddPeer(p)
       \/ RemovePeer(p)
       \/ UpdateLastSuccessfulOutboundQueryAt(p)
       \/ Age(p)
       \/ Whitelist(p)
  \/ MarkAllPeersIrreplaceable

Spec == Init /\ [][Next]_vars
-----------------------------------------------------------------------------
(* The read-only operations, as functions of the table.                    *)

UsefulNewPeer_IgnoresUnfolding(p) ==
  LET b == buckets[BucketIdForPeer(buckets, p)] IN
  /\ p \notin b
  /\ ~ Full(b) \/ b \cap replaceable # {}

UsefulNewPeer(p) ==
  LET b == buckets[BucketIdForPeer(buckets, p)] IN
  /\ p \notin b
  /\ \/ ~ Full(b)
     \/ b \cap replaceable # {}
     \/ /\ BucketIdForPeer(buckets, p) = last
        /\ \E q \in b : CPL[q] # CPL[p]

NPeersForCpl(c) ==
  IF c >= last
  THEN Cardinality({p \in buckets[last] : CPL[p] = c})
  ELSE Cardinality(buckets[c])

MaxCommonPrefix ==
  LET nonEmpty == {i \in 0..last : buckets[i] # {}} IN
  IF nonEmpty = {} THEN 0
  ELSE Largest({CPL[p] : p \in buckets[Largest(nonEmpty)]})
-----------------------------------------------------------------------------
(* Every peer is in the bucket its prefix length calls for, which is what  *)
(* lets every operation look for it in that bucket alone: a peer elsewhere *)
(* would be invisible to RemovePeer and could be added twice.  Unfolding   *)
(* and folding the last bucket move peers between buckets.                 *)
Placement ==
  \A i \in 0..last : \A p \in buckets[i] :
    IF i < last THEN CPL[p] = i ELSE CPL[p] >= last

(* No bucket outgrows BucketSize, although a replacement pushes the new    *)
(* peer before the old one is removed, unfolding redistributes peers, and  *)
(* folding makes a dedicated bucket the last one.                          *)
Capacity ==
  \A i \in 0..last : Cardinality(buckets[i]) <= BucketSize

(* The diversity filter holds records for peers of the table only: every   *)
(* way a peer is turned away after the filter let it in, or leaves, undoes *)
(* the record, so a refused peer does not use up its group's share.        *)
FilterForgets ==
  \A p \in Peer \ Table : peerGroups[p] = NoAddrs

(* The filter holds nothing against anybody outside the table, and its     *)
(* counters are the sum of its records: whatever addresses a peer          *)
(* advertises when it leaves, what was counted for it is given back.  And  *)
(* although all the addresses of a peer are checked before any of them is  *)
(* counted, no group has more peers than the application's limit.          *)
FilterAccounts ==
  /\ FilterForgets
  /\ \A g \in Group :
       /\ groupCount[g] = SumFunctionOnSet([p \in Peer |-> peerGroups[p][g]], Peer)
       /\ Cardinality({p \in Peer : peerGroups[p][g] > 0}) <= GroupLimit

(* The connections the table asks the connection manager to keep or score  *)
(* are those of its peers, each in the way its bucket calls for.           *)
ConnectionsMatchTable ==
  /\ protected = {p \in Table : CPL[p] < ProtectedBuckets}
  /\ tagged = Table \ protected

(* UsefulNewPeer, which decides whether a peer is worth probing, answers   *)
(* yes exactly if addPeer would then find a place for it, although it does *)
(* not unfold the last bucket to find out.                                 *)
UsefulMeansAddable ==
  \A p \in Peer \ Table : UsefulNewPeer(p) <=> (HasRoom(p) \/ CanReplace(p))

(* A peer leaves the table only through RemovePeer or in favour of one new *)
(* peer with the same prefix length when BucketSize such peers are there   *)
(* and it is replaceable.  Unfolding, folding and refusals lose nobody.    *)
NoSilentEviction ==
  [][\A v \in Table \ Table' :
        \/ RemovePeer(v)
        \/ /\ v \in replaceable
           /\ \E p \in Table' \ Table :
                /\ Table' = (Table \cup {p}) \ {v}
                /\ CPL[p] = CPL[v]
                /\ Cardinality({q \in Table : CPL[q] = CPL[v]}) = BucketSize]_vars

(* The table is a lazily unfolded implementation of KBuckets: it never     *)
(* refuses a peer whose prefix length has room nor replaces one when there *)
(* is room, whichever buckets happen to be unfolded.                       *)
K == INSTANCE KBuckets WITH members <- Table
KBucketsSpec == K!KSpec
(* ... and what it refuses for lack of capacity has no room there either.  *)
RefusalJustified ==
  \A p \in Peer \ Table :
    ~ HasRoom(p) /\ ~ CanReplace(p) =>
      /\ Cardinality(K!Kin(p)) = BucketSize
      /\ K!Kin(p) \cap replaceable = {}

==============================================================================
