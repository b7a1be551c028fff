------------------------------ MODULE FindNode ------------------------------
(***************************************************************************)
(* What the routing table is asked for: the peers nearest to a key         *)
(* (kbucket/table.go, util.go, sorting.go, keyspace/xor.go), the answer to *)
(* a peer's FIND_NODE (handlers.go, dht.go) and the keys that refresh a    *)
(* bucket (kbucket/table_refresh.go).  These operations read the table     *)
(* under its lock and leave it as it is: they are functions of it.         *)
(*                                                                         *)
(* A key is the set of the positions, counted from 1 at its most           *)
(* significant bit, that hold a 1.  The hash of a peer's id is KeyOf.      *)
(***************************************************************************)
EXTENDS RoutingTable

CONSTANTS
  KeyBits,      (* bits of a key: 256                                      *)
  KeyOf,        (* ConvertPeerID, for every peer                           *)
  Local,        (* rt.local, the key of this node                          *)
  Self,         (* this node's id                                          *)
  PrefixBits,   (* bits of the prefixes in keyPrefixMap: 16                *)
  Target,       (* keys asked for                                          *)
  Located       (* the sets of peers whose addresses may be known          *)

Key == SUBSET (1..KeyBits)

Xor(a, b) == (a \ b) \cup (b \ a)

(* bytes.Compare(a, b) < 0                                                 *)
Less(a, b) == \E i \in b \ a : \A j \in Xor(a, b) : i <= j

ZeroPrefixLen(k) ==
  IF k = {} THEN KeyBits ELSE (CHOOSE i \in k : \A j \in k : i <= j) - 1

CommonPrefixLen(a, b) == ZeroPrefixLen(Xor(a, b))

ASSUME FindNodeAssumption ==
  /\ KeyBits \in Nat
  /\ PrefixBits \in 1..KeyBits
  /\ MaxCPL = KeyBits
  /\ KeyOf \in [Peer -> Key]
  /\ \A p, q \in Peer : KeyOf[p] = KeyOf[q] => p = q
  /\ Local \in Key
  /\ \A p \in Peer : CPL[p] = CommonPrefixLen(KeyOf[p], Local)
  /\ Self \notin Peer
  /\ Target \subseteq Key
  /\ Located \subseteq SUBSET (Peer \cup {Self})

Closer(p, q, t) == Less(Xor(KeyOf[p], t), Xor(KeyOf[q], t))

(* peerDistanceSorter: where p is among the peers sorted by distance to t. *)
Rank(p, peers, t) == Cardinality({q \in peers : Closer(q, p, t)})

-----------------------------------------------------------------------------
(* NearestPeers: the peers that are sorted.  The bucket the key belongs    *)
(* in; all the buckets to its right if that one has too few; then those to *)
(* its left one by one, as long as there are too few.                      *)
Home(t) ==
  IF CommonPrefixLen(t, Local) >= last + 1 THEN last ELSE CommonPrefixLen(t, Local)

Between(i, j) == UNION {buckets[k] : k \in i..j}

NearSide_HomeOnly(t, count) == buckets[Home(t)]

NearSide(t, count) ==
  IF Cardinality(buckets[Home(t)]) < count
  THEN Between(Home(t), last)
  ELSE buckets[Home(t)]

Collected(t, count) ==
  LET near == NearSide(t, count) IN
  near \cup UNION {buckets[j] : j \in
    {k \in 0..Home(t) - 1 : Cardinality(near \cup Between(k + 1, Home(t) - 1)) < count}}

(* ... sorted by their distance to the key and cut to count.               *)
NearestPeers(t, count) ==
  LET C == Collected(t, count) IN {p \in C : Rank(p, C, t) < count}

Find(p) == NearestPeers(KeyOf[p], 1) \cap {p}

-----------------------------------------------------------------------------
(* handleFindPeer and betterPeersToQuery: the answer to from, which looks  *)
(* for target, when the addresses of the peers in located are known.       *)
BetterPeersToQuery_KeepsRequester(target, from) == NearestPeers(KeyOf[target], BucketSize)

BetterPeersToQuery(target, from) == NearestPeers(KeyOf[target], BucketSize) \ {from}

FindPeerReply(target, from, located) ==
  LET closest ==
        IF target = Self THEN {Self}
        ELSE BetterPeersToQuery(target, from) \cup ({target} \ {from})
  IN closest \cap located

-----------------------------------------------------------------------------
MaxCplForRefresh == PrefixBits - 1

(* GetTrackedCplsForRefresh: the prefix lengths that are refreshed.        *)
TrackedCpls_Unbounded == 0..MaxCommonPrefix

TrackedCpls ==
  0 .. (IF MaxCommonPrefix > MaxCplForRefresh THEN MaxCplForRefresh ELSE MaxCommonPrefix)

(* The first cpl bits of Local, the next one flipped and random ones.      *)
Beside(cpl, random) ==
  LET mask == 1..cpl + 1
  IN (Xor(Local, {cpl + 1}) \cap mask) \cup (random \ mask)

(* keyPrefixMap has an id for each prefix, with whatever rest it hashes to. *)
KeyPrefixMap(prefix, rest) == prefix \cup rest

GenRandPeerID(cpl, random, rest) == KeyPrefixMap(Beside(cpl, random), rest)

RandomKeys(cpl) ==
  IF cpl > MaxCplForRefresh THEN {}
  ELSE {GenRandPeerID(cpl, random, rest) :
          random \in SUBSET (1..PrefixBits), rest \in SUBSET (PrefixBits + 1 .. KeyBits)}

GenRandomKeys(cpl) ==
  IF cpl + 1 >= KeyBits THEN {} ELSE {Beside(cpl, random) : random \in Key}

(* The prefix lengths that a completed lookup of a key marks as refreshed. *)
ResetCplRefreshedAtForID(k) ==
  LET cpl == CommonPrefixLen(k, Local) IN IF cpl > MaxCplForRefresh THEN {} ELSE {cpl}
-----------------------------------------------------------------------------
(* However the buckets happen to be unfolded, NearestPeers, which looks    *)
(* into some of them only, answers with the count peers of the whole table *)
(* that are closest to the key; Find finds exactly the peers of the table. *)
NearestIsClosest ==
  /\ \A t \in Target, count \in {1, BucketSize} :
       NearestPeers(t, count) = {p \in Table : Rank(p, Table, t) < count}
  /\ \A p \in Peer : Find(p) = {p} \cap Table

(* A peer that asks is never told of itself, is told of the target         *)
(* whenever its address is known, of nobody without an address, and a peer *)
(* of the table that it is not told of gave way to BucketSize closer ones. *)
ReplyIsNearest ==
  \A target, from \in Peer, located \in Located :
    LET reply == FindPeerReply(target, from, located) IN
    /\ reply \subseteq located \ {from}
    /\ target \in located \ {from} => target \in reply
    /\ \A p \in (Table \cap located) \ (reply \cup {from}) :
         Rank(p, Table, KeyOf[target]) >= BucketSize

(* The refresh manager works with prefix lengths, wherever the buckets     *)
(* have their peers at the moment: it covers each that has peers and for   *)
(* which a key can be made, knows how many peers it has, and the key it    *)
(* looks up shares exactly that many bits with ours, whatever the random   *)
(* bits, so that the lookup refreshes the bucket it is then marked for.    *)
(* The keys of GenRandomKey, of any length, are as close as they should.   *)
RefreshKeysHit ==
  /\ \A p \in Table : CPL[p] <= MaxCplForRefresh => CPL[p] \in TrackedCpls
  /\ \A cpl \in TrackedCpls :
       /\ NPeersForCpl(cpl) = Cardinality({p \in Table : CPL[p] = cpl})
       /\ RandomKeys(cpl) # {}
       /\ \A k \in RandomKeys(cpl) : ResetCplRefreshedAtForID(k) = {cpl}
  /\ \A cpl \in 0..KeyBits : \A k \in GenRandomKeys(cpl) : CommonPrefixLen(k, Local) = cpl
==============================================================================
