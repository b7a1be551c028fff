------------------------- MODULE RoutingTableProofs -------------------------
(***************************************************************************)
(* Theorems about the routing table: the layout of its buckets,            *)
(* RoutingTable with its diversity filter, and FindNode.                   *)
(*                                                                         *)
(* 1. Lemmas about unfolding, filling and folding buckets: what each       *)
(*    function of KBucketLayout does to the placement of peers, to the     *)
(*    size of buckets and to the set of peers in them.                     *)
(* 2. For any set of peers, any prefix lengths and any bucket size,        *)
(*    unfolding, replacing and folding keep the table in order, and the    *)
(*    table implements KBuckets.                                           *)
(* 3. The diversity filter's counters are the sums of its records, and no  *)
(*    group has more peers than the application's limit.                   *)
(* 4. The buckets NearestPeers looks into hold the closest peers, the      *)
(*    answers to queries follow from that, and the refresh keys are where  *)
(*    they should be.                                                      *)
(***************************************************************************)
EXTENDS FindNode, FiniteSetTheorems, TLAPS

Known == DOMAIN CPL

IsLayout(b) == \E n \in 0..MaxCPL + 1 : b \in [0..n -> SUBSET Known]

Placed(b) ==
  \A i \in DOMAIN b : \A p \in b[i] :
    IF i < LastOf(b) THEN CPL[p] = i ELSE CPL[p] >= LastOf(b)

Bounded(b) == \A i \in DOMAIN b : Cardinality(b[i]) <= BucketSize

-----------------------------------------------------------------------------
(* Every non-empty set of natural numbers has a least element.             *)
LEMMA SmallestExists ==
  ASSUME NEW S \in SUBSET Nat, S # {}
  PROVE  \E m \in S : \A k \in S : m <= k
<1> DEFINE T == {0..k : k \in S}
           F == FiniteSubsetsOf(Nat)
<1>1. IsWellFoundedOn(StrictSubsetOrdering(Nat), F)
  BY FS_StrictSubsetOrderingWellFounded
<1>2. T \subseteq F
  <2>1. \A k \in S : IsFiniteSet(0..k) /\ 0..k \in SUBSET Nat
    BY FS_Interval
  <2> QED  BY <2>1 DEF FiniteSubsetsOf
<1>3. T # {}
  OBVIOUS
<1> HIDE DEF T, F
<1>4. PICK x \in T : \A y \in T : ~ (<<y, x>> \in StrictSubsetOrdering(Nat))
  BY <1>1, <1>2, <1>3, WFMin
<1>5. PICK m \in S : x = 0..m
  BY DEF T
<1>6. ASSUME NEW k \in S  PROVE m <= k
  <2>1. 0..k \in T
    BY DEF T
  <2>2. SUFFICES ASSUME k < m PROVE FALSE
    BY <1>6
  <2>3. 0..k \subseteq 0..m /\ 0..k # 0..m
    <3>1. m \in 0..m /\ m \notin 0..k
      BY <2>2
    <3> QED  BY <2>2, <3>1
  <2>4. <<0..k, x>> \in StrictSubsetOrdering(Nat)
    <3>1. <<0..k, x>> \in (SUBSET Nat) \X (SUBSET Nat)
      BY <1>5
    <3> QED  BY <3>1, <2>3, <1>5 DEF StrictSubsetOrdering
  <2> QED  BY <2>1, <2>4, <1>4
<1> QED  BY <1>6

(* Largest returns the largest element of a bounded set of numbers.        *)
LEMMA LargestOfBounded ==
  ASSUME NEW n \in Nat, NEW S \in SUBSET (0..n), S # {}
  PROVE  Largest(S) \in S /\ \A k \in S : k <= Largest(S)
<1> DEFINE R == {n - k : k \in S}
<1>1. R \in SUBSET Nat /\ R # {}
  OBVIOUS
<1> HIDE DEF R
<1>2. PICK m \in R : \A k \in R : m <= k
  BY <1>1, SmallestExists
<1>3. PICK s \in S : m = n - s
  BY DEF R
<1>4. \A k \in S : k <= s
  <2>1. \A k \in S : n - k \in R
    BY DEF R
  <2> QED  BY <2>1, <1>2, <1>3
<1> QED  BY <1>4 DEF Largest

LEMMA LargestOfInterval ==
  ASSUME NEW n \in Nat
  PROVE  Largest(0..n) = n
<1>1. n \in 0..n
  OBVIOUS
<1>2. Largest(0..n) \in 0..n /\ \A k \in 0..n : k <= Largest(0..n)
  BY <1>1, LargestOfBounded
<1> QED  BY <1>1, <1>2

LEMMA LastOfLayout ==
  ASSUME NEW n \in Nat, NEW b, DOMAIN b = 0..n
  PROVE  LastOf(b) = n
BY LargestOfInterval DEF LastOf

(* A layout is a function from 0..LastOf(b).                               *)
LEMMA LayoutDomain ==
  ASSUME NEW b, IsLayout(b)
  PROVE  /\ LastOf(b) \in 0..MaxCPL + 1
         /\ b \in [0..LastOf(b) -> SUBSET Known]
<1>1. PICK n \in 0..MaxCPL + 1 : b \in [0..n -> SUBSET Known]
  BY DEF IsLayout
<1>2. LastOf(b) = n
  BY <1>1, LastOfLayout, LayoutAssumption
<1> QED  BY <1>1, <1>2

LEMMA BucketId ==
  ASSUME NEW b, IsLayout(b), NEW p \in Known
  PROVE  /\ CPL[p] \in 0..MaxCPL
         /\ BucketIdForPeer(b, p) \in 0..LastOf(b)
BY LayoutDomain, LayoutAssumption DEF BucketIdForPeer, Known

(* A correctly placed peer is found in the bucket it is looked for in.     *)
LEMMA FoundWherePlaced ==
  ASSUME NEW b, IsLayout(b), Placed(b), NEW i \in DOMAIN b, NEW p \in b[i]
  PROVE  BucketIdForPeer(b, p) = i
<1>1. p \in Known /\ i \in 0..LastOf(b)
  BY LayoutDomain
<1>2. CPL[p] \in 0..MaxCPL
  BY <1>1, LayoutAssumption DEF Known
<1>3. IF i < LastOf(b) THEN CPL[p] = i ELSE CPL[p] >= LastOf(b)
  BY DEF Placed
<1> QED  BY <1>1, <1>2, <1>3, LayoutDomain, LayoutAssumption DEF BucketIdForPeer

LEMMA MemberIffInBucket ==
  ASSUME NEW b, IsLayout(b), Placed(b), NEW p \in Known
  PROVE  p \in Members(b) <=> p \in b[BucketIdForPeer(b, p)]
<1>1. BucketIdForPeer(b, p) \in DOMAIN b
  BY BucketId, LayoutDomain
<1>2. ASSUME p \in Members(b)  PROVE p \in b[BucketIdForPeer(b, p)]
  BY <1>2, FoundWherePlaced DEF Members
<1>3. ASSUME p \in b[BucketIdForPeer(b, p)]  PROVE p \in Members(b)
  BY <1>1, <1>3 DEF Members
<1> QED  BY <1>2, <1>3

LEMMA BucketFinite ==
  ASSUME NEW S \in SUBSET Known
  PROVE  IsFiniteSet(S) /\ Cardinality(S) \in Nat
BY FS_Subset, FS_CardinalityType, LayoutAssumption DEF Known

-----------------------------------------------------------------------------
(* Unfolding a full last bucket keeps the peers and their placement, makes *)
(* no bucket larger, and ends with a last bucket that has room.            *)
LEMMA Unfolding ==
  ASSUME NEW b, IsLayout(b), Placed(b), Bounded(b), Full(b[LastOf(b)])
  PROVE  /\ IsLayout(NextBucket(b))
         /\ Placed(NextBucket(b))
         /\ Bounded(NextBucket(b))
         /\ Members(NextBucket(b)) = Members(b)
         /\ ~ Full(NextBucket(b)[LastOf(NextBucket(b))])
<1> DEFINE l == LastOf(b)
           Ends == {m \in l + 1 .. MaxCPL + 1 : ~ Full(Beyond(b, m))}
<1>1. l \in 0..MaxCPL + 1 /\ b \in [0..l -> SUBSET Known] /\ MaxCPL \in Nat
  BY LayoutDomain, LayoutAssumption
<1>2. BucketSize \in Nat \ {0}
  BY LayoutAssumption
<1>3. \A p \in b[l] : CPL[p] \in 0..MaxCPL /\ CPL[p] >= l
  BY <1>1, LayoutAssumption DEF Known, Placed
<1>4. b[l] # {}
  BY <1>2, FS_EmptySet DEF Full
<1>5. l <= MaxCPL
  BY <1>1, <1>3, <1>4
<1>6. MaxCPL + 1 \in Ends
  <2>1. Beyond(b, MaxCPL + 1) = {}
    BY <1>1, <1>3 DEF Beyond
  <2>2. ~ Full(Beyond(b, MaxCPL + 1))
    BY <1>2, <2>1, FS_EmptySet DEF Full
  <2>3. MaxCPL + 1 \in l + 1 .. MaxCPL + 1
    BY <1>1, <1>5
  <2> QED  BY <2>2, <2>3
<1>7. Ends \in SUBSET Nat
  BY <1>1
<1>8. PICK m \in Ends : \A k \in Ends : m <= k
  BY <1>6, <1>7, SmallestExists
<1>9. \A k \in l + 1 .. m - 1 : Full(Beyond(b, k))
  <2>1. SUFFICES ASSUME NEW k \in l + 1 .. m - 1, ~ Full(Beyond(b, k)) PROVE FALSE
    OBVIOUS
  <2>2. k \in Ends
    BY <2>1, <1>1, <1>8
  <2> QED  BY <2>2, <1>1, <1>8
<1> DEFINE u == UnfoldPoint(b)
<1>10. /\ u \in l + 1 .. MaxCPL + 1
       /\ ~ Full(Beyond(b, u))
  BY <1>8, <1>9 DEF UnfoldPoint
<1> DEFINE c == NextBucket(b)
<1>11. c = [i \in 0..u |->
             IF i < l THEN b[i]
             ELSE {p \in b[l] : (i > l => CPL[p] >= i) /\ (i < u => CPL[p] <= i)}]
  BY DEF NextBucket, UnfoldTo
<1> HIDE DEF u, c, Ends
<1>12. u \in 0..MaxCPL + 1 /\ l < u
  BY <1>1, <1>10
<1>13. c \in [0..u -> SUBSET Known]
  BY <1>1, <1>11, <1>12
<1>14. LastOf(c) = u
  BY <1>12, <1>13, LastOfLayout
<1>15. IsLayout(c)
  BY <1>12, <1>13 DEF IsLayout
<1>16. Placed(c)
  <2>1. SUFFICES ASSUME NEW i \in 0..u, NEW p \in c[i]
                 PROVE  IF i < u THEN CPL[p] = i ELSE CPL[p] >= u
    BY <1>13, <1>14 DEF Placed
  <2>2. CASE i < l
    BY <2>1, <2>2, <1>1, <1>11, <1>12 DEF Placed
  <2>3. CASE i >= l
    <3>1. p \in b[l] /\ (i > l => CPL[p] >= i) /\ (i < u => CPL[p] <= i)
      BY <2>1, <2>3, <1>1, <1>11, <1>12
    <3> QED  BY <3>1, <2>1, <2>3, <1>1, <1>3, <1>12
  <2> QED  BY <2>2, <2>3, <1>1
<1>17. Bounded(c)
  <2>1. SUFFICES ASSUME NEW i \in 0..u PROVE Cardinality(c[i]) <= BucketSize
    BY <1>13 DEF Bounded
  <2>2. PICK j \in 0..l : c[i] \subseteq b[j]
    BY <1>1, <1>11, <1>12
  <2>3. /\ Cardinality(b[j]) <= BucketSize
        /\ Cardinality(c[i]) <= Cardinality(b[j])
        /\ Cardinality(c[i]) \in Nat
        /\ Cardinality(b[j]) \in Nat
    <3>1. b[j] \in SUBSET Known /\ Cardinality(b[j]) <= BucketSize
      BY <1>1 DEF Bounded
    <3>2. IsFiniteSet(b[j]) /\ Cardinality(b[j]) \in Nat
      BY <3>1, BucketFinite
    <3>3. c[i] \in SUBSET b[j] /\ c[i] \in SUBSET Known
      BY <2>2, <3>1
    <3>4. Cardinality(c[i]) \in Nat
      BY <3>3, BucketFinite
    <3>5. Cardinality(c[i]) <= Cardinality(b[j])
      BY <3>2, <3>3, FS_Subset
    <3> QED  BY <3>1, <3>2, <3>4, <3>5
  <2> QED  BY <2>3, <1>2
<1>18. Members(c) = Members(b)
  <2>1. ASSUME NEW p \in Members(c)  PROVE p \in Members(b)
    BY <2>1, <1>1, <1>11, <1>12, <1>13 DEF Members
  <2>2. ASSUME NEW p \in Members(b)  PROVE p \in Members(c)
    <3>1. PICK i \in 0..l : p \in b[i]
      BY <1>1 DEF Members
    <3>2. CASE i < l
      BY <3>1, <3>2, <1>1, <1>11, <1>12, <1>13 DEF Members
    <3>3. CASE i = l
      <4> DEFINE h == IF CPL[p] >= u THEN u ELSE CPL[p]
      <4>1. CPL[p] \in 0..MaxCPL /\ CPL[p] >= l
        BY <3>1, <3>3, <1>3
      <4>2. h \in l..u
        BY <4>1, <1>1, <1>12
      <4>3. p \in c[h]
        BY <4>1, <4>2, <3>1, <3>3, <1>1, <1>11, <1>12
      <4>4. h \in DOMAIN c
        BY <4>2, <1>1, <1>12, <1>13
      <4> QED  BY <4>3, <4>4 DEF Members
    <3> QED  BY <3>2, <3>3, <1>1
  <2> QED  BY <2>1, <2>2
<1>19. ~ Full(c[LastOf(c)])
  <2>1. c[u] = Beyond(b, u)
    BY <1>1, <1>11, <1>12 DEF Beyond
  <2> QED  BY <2>1, <1>10, <1>14
<1> QED  BY <1>15, <1>16, <1>17, <1>18, <1>19 DEF c

-----------------------------------------------------------------------------
(* A peer pushed into its bucket joins the peers of the table; only its    *)
(* own bucket grows.                                                       *)
LEMMA Pushing ==
  ASSUME NEW b, IsLayout(b), Placed(b), NEW p \in Known
  PROVE  /\ IsLayout(PushInto(b, p))
         /\ LastOf(PushInto(b, p)) = LastOf(b)
         /\ Placed(PushInto(b, p))
         /\ Members(PushInto(b, p)) = Members(b) \cup {p}
         /\ \A i \in DOMAIN b :
              PushInto(b, p)[i] = IF i = BucketIdForPeer(b, p) THEN b[i] \cup {p} ELSE b[i]
<1> DEFINE l == LastOf(b)
           h == BucketIdForPeer(b, p)
           c == PushInto(b, p)
<1>1. l \in 0..MaxCPL + 1 /\ b \in [0..l -> SUBSET Known] /\ MaxCPL \in Nat
  BY LayoutDomain, LayoutAssumption
<1>2. CPL[p] \in 0..MaxCPL /\ h \in 0..l
  BY BucketId
<1>3. c = [b EXCEPT ![h] = b[h] \cup {p}]
  BY <1>1, <1>2 DEF PushInto
<1>4. IF h < l THEN CPL[p] = h ELSE CPL[p] >= l
  BY <1>1, <1>2 DEF BucketIdForPeer
<1> HIDE DEF h, c
<1>5. c \in [0..l -> SUBSET Known]
  BY <1>1, <1>2, <1>3
<1>6. IsLayout(c) /\ LastOf(c) = l
  BY <1>1, <1>5, LastOfLayout DEF IsLayout
<1>7. \A i \in DOMAIN b : c[i] = IF i = h THEN b[i] \cup {p} ELSE b[i]
  BY <1>1, <1>3
<1>8. Placed(c)
  <2>1. SUFFICES ASSUME NEW i \in 0..l, NEW q \in c[i]
                 PROVE  IF i < l THEN CPL[q] = i ELSE CPL[q] >= l
    BY <1>5, <1>6 DEF Placed
  <2>2. CASE q \in b[i]
    BY <2>2, <1>1 DEF Placed
  <2>3. CASE q \notin b[i]
    BY <2>1, <2>3, <1>1, <1>4, <1>7
  <2> QED  BY <2>2, <2>3
<1>9. Members(c) = Members(b) \cup {p}
  <2>1. \A q \in Members(c) : q \in Members(b) \cup {p}
    BY <1>1, <1>5, <1>7 DEF Members
  <2>2. \A q \in Members(b) \cup {p} : q \in Members(c)
    BY <1>1, <1>2, <1>5, <1>7 DEF Members
  <2> QED  BY <2>1, <2>2
<1> QED  BY <1>6, <1>7, <1>8, <1>9 DEF c, h

-----------------------------------------------------------------------------
(* Folding keeps the peers and their placement and makes no bucket larger. *)
LEMMA Folding ==
  ASSUME NEW b, IsLayout(b), Placed(b), Bounded(b)
  PROVE  /\ IsLayout(Fold(b))
         /\ Placed(Fold(b))
         /\ Bounded(Fold(b))
         /\ Members(Fold(b)) = Members(b)
<1> DEFINE n == LastOf(b)
           N == {i \in DOMAIN b : b[i] # {}}
           c == Fold(b)
<1>1. n \in 0..MaxCPL + 1 /\ b \in [0..n -> SUBSET Known] /\ MaxCPL \in Nat
  BY LayoutDomain, LayoutAssumption
<1>2. BucketSize \in Nat
  BY LayoutAssumption
<1>3. N \in SUBSET (0..n)
  BY <1>1
<1>n. n \in Nat
  BY <1>1
<1>4. CASE N = {}
  <2>1. c = [i \in {0} |-> {}]
    BY <1>4 DEF Fold
  <2> HIDE DEF c
  <2>2. c \in [0..0 -> SUBSET Known] /\ {0} = 0..0
    BY <2>1
  <2>3. IsLayout(c) /\ LastOf(c) = 0
    <3>1. 0 \in 0..MaxCPL + 1 /\ DOMAIN c = 0..0
      BY <1>1, <2>2
    <3> QED  BY <2>2, <3>1, LastOfLayout DEF IsLayout
  <2>4. Members(c) = {} /\ Members(b) = {}
    BY <2>1, <1>4 DEF Members
  <2>5. Placed(c)
    BY <2>1 DEF Placed
  <2>6. Bounded(c)
    BY <2>1, <1>2, FS_EmptySet DEF Bounded
  <2> QED  BY <2>3, <2>4, <2>5, <2>6 DEF c
<1>5. CASE N # {}
  <2> DEFINE top == Largest(N)
             l   == IF N = {top} THEN 0 ELSE Largest(N \ {top}) + 1
  <2>1. c = [i \in 0..l |-> IF i = l THEN b[top] ELSE b[i]]
    BY <1>5 DEF Fold
  <2> HIDE DEF N, n
  <2>2. top \in N /\ \A k \in N : k <= top
    BY <1>n, <1>3, <1>5, LargestOfBounded
  <2>3. top \in 0..n
    BY <2>2, <1>3
  <2> HIDE DEF top
  (* No bucket between l and top holds a peer, and none below l reaches l. *)
  <2>4. /\ l \in 0..top
        /\ \A k \in N : k # top => k < l
    <3>1. CASE N = {top}
      BY <3>1, <2>3
    <3>2. CASE N # {top}
      <4>1. N \ {top} \in SUBSET (0..n) /\ N \ {top} # {}
        BY <3>2, <1>3, <2>2
      <4>2. /\ Largest(N \ {top}) \in N \ {top}
            /\ \A k \in N \ {top} : k <= Largest(N \ {top})
        BY <1>n, <4>1, LargestOfBounded
      <4>3. l = Largest(N \ {top}) + 1
        BY <3>2
      <4>4. Largest(N \ {top}) \in 0..n /\ Largest(N \ {top}) <= top /\ Largest(N \ {top}) # top
        BY <4>1, <4>2, <2>2
      <4>5. l \in 0..top
        BY <4>3, <4>4, <2>3, <1>n
      <4>6. ASSUME NEW k \in N, k # top  PROVE k < l
        <5>1. k <= Largest(N \ {top}) /\ k \in 0..n
          BY <4>2, <4>6, <1>3
        <5> QED  BY <5>1, <4>3, <4>4, <1>n
      <4> QED  BY <4>5, <4>6
    <3> QED  BY <3>1, <3>2
  <2> HIDE DEF l, c
  <2>5. c \in [0..l -> SUBSET Known] /\ l \in 0..MaxCPL + 1
    BY <2>1, <2>3, <2>4, <1>1
  <2>6. IsLayout(c) /\ LastOf(c) = l
    BY <1>1, <2>5, LastOfLayout DEF IsLayout
  <2>7. \A i \in DOMAIN b : b[i] # {} => i = top \/ i < l
    BY <2>4 DEF N
  <2>8. Members(c) = Members(b)
    <3>1. \A p \in Members(c) : p \in Members(b)
      BY <2>1, <2>3, <2>4, <1>1 DEF Members
    <3>2. \A p \in Members(b) : p \in Members(c)
      <4>1. SUFFICES ASSUME NEW i \in 0..n, NEW p \in b[i] PROVE p \in Members(c)
        BY <1>1 DEF Members
      <4>2. CASE i = top
        <5>1. p \in c[l] /\ l \in DOMAIN c
          BY <4>1, <4>2, <2>1, <2>4
        <5> QED  BY <5>1 DEF Members
      <4>3. CASE i < l
        <5>1. p \in c[i] /\ i \in DOMAIN c
          BY <4>1, <4>3, <2>1, <2>4, <2>3
        <5> QED  BY <5>1 DEF Members
      <4> QED  BY <4>1, <4>2, <4>3, <2>7, <1>1
    <3> QED  BY <3>1, <3>2
  <2>9. Placed(c)
    <3>1. SUFFICES ASSUME NEW i \in 0..l, NEW p \in c[i]
                   PROVE  IF i < l THEN CPL[p] = i ELSE CPL[p] >= l
      BY <2>5, <2>6 DEF Placed
    <3>2. CASE i = l
      <4>1. p \in b[top]
        BY <3>1, <3>2, <2>1
      <4>2. CPL[p] >= top /\ CPL[p] \in Nat
        <5>1. top \in DOMAIN b /\ p \in Known
          BY <4>1, <2>3, <1>1
        <5>2. CPL[p] \in Nat
          BY <5>1, LayoutAssumption DEF Known
        <5>3. IF top < n THEN CPL[p] = top ELSE CPL[p] >= n
          BY <4>1, <5>1 DEF Placed, n
        <5> QED  BY <5>2, <5>3, <2>3, <1>n
      <4> QED  BY <4>2, <3>2, <2>4, <2>3
    <3>3. CASE i # l
      <4>1. p \in b[i] /\ i < n /\ i \in DOMAIN b
        BY <3>1, <3>3, <2>1, <2>3, <2>4, <1>1
      <4>2. CPL[p] = i
        BY <4>1 DEF Placed, n
      <4> QED  BY <4>2, <3>1, <3>3, <2>4, <2>3
    <3> QED  BY <3>2, <3>3
  <2>10. Bounded(c)
    BY <2>1, <2>3, <2>4, <1>1 DEF Bounded
  <2> QED  BY <2>6, <2>8, <2>9, <2>10 DEF c
<1> QED  BY <1>4, <1>5

(* Removing a peer from its bucket and folding.  Only the bucket that the  *)
(* peer leaves may have been over the bound, by one.                       *)
LEMMA Removing ==
  ASSUME NEW b, IsLayout(b), Placed(b), NEW p \in Members(b),
         \A i \in DOMAIN b :
           Cardinality(b[i]) <= IF i = BucketIdForPeer(b, p) THEN BucketSize + 1 ELSE BucketSize
  PROVE  /\ IsLayout(RemoveFrom(b, p))
         /\ Placed(RemoveFrom(b, p))
         /\ Bounded(RemoveFrom(b, p))
         /\ Members(RemoveFrom(b, p)) = Members(b) \ {p}
<1> DEFINE l == LastOf(b)
           h == BucketIdForPeer(b, p)
           c == [b EXCEPT ![h] = b[h] \ {p}]
<1>1. l \in 0..MaxCPL + 1 /\ b \in [0..l -> SUBSET Known] /\ MaxCPL \in Nat
  BY LayoutDomain, LayoutAssumption
<1>2. p \in Known
  BY <1>1 DEF Members
<1>3. h \in 0..l /\ p \in b[h]
  BY <1>2, BucketId, MemberIffInBucket
<1>4. RemoveFrom(b, p) = Fold(c)
  BY <1>1, <1>3 DEF RemoveFrom
<1>5. \A i \in DOMAIN b : i # h => p \notin b[i]
  BY FoundWherePlaced
<1>6. BucketSize \in Nat
  BY LayoutAssumption
<1>7. \A i \in DOMAIN b :
        Cardinality(b[i]) <= IF i = h THEN BucketSize + 1 ELSE BucketSize
  OBVIOUS
<1> HIDE DEF h
<1>8. c \in [0..l -> SUBSET Known]
  BY <1>1, <1>3
<1>9. \A i \in 0..l : c[i] = b[i] \ {p}
  BY <1>1, <1>3, <1>5
<1> HIDE DEF c
<1>10. IsLayout(c) /\ LastOf(c) = l
  BY <1>1, <1>8, LastOfLayout DEF IsLayout
<1>11. Placed(c)
  BY <1>1, <1>8, <1>9, <1>10 DEF Placed
<1>12. Bounded(c)
  <2>1. SUFFICES ASSUME NEW i \in 0..l PROVE Cardinality(c[i]) <= BucketSize
    BY <1>8 DEF Bounded
  <2>2. b[i] \in SUBSET Known
    BY <1>1
  <2>3. IsFiniteSet(b[i]) /\ Cardinality(b[i]) \in Nat
    BY <2>2, BucketFinite
  <2>4. Cardinality(b[i]) <= IF i = h THEN BucketSize + 1 ELSE BucketSize
    BY <1>1, <1>7
  <2>5. CASE i = h
    <3>1. Cardinality(b[i] \ {p}) = Cardinality(b[i]) - 1
      BY <2>3, <2>5, <1>3, FS_RemoveElement
    <3>2. c[i] = b[i] \ {p}
      BY <1>9
    <3> QED  BY <3>1, <3>2, <2>3, <2>4, <2>5, <1>6
  <2>6. CASE i # h
    <3>1. c[i] = b[i]
      BY <2>6, <1>1, <1>5, <1>9
    <3> QED  BY <3>1, <2>4, <2>6
  <2> QED  BY <2>5, <2>6
<1>13. Members(c) = Members(b) \ {p}
  BY <1>1, <1>8, <1>9 DEF Members
<1> QED  BY <1>4, <1>10, <1>11, <1>12, <1>13, Folding

-----------------------------------------------------------------------------
(* The table.  The inductive invariant adds to the properties only that    *)
(* the records have their types and that replaceable and stale peers are   *)
(* in the table.                                                           *)

InOrder(b) == IsLayout(b) /\ Placed(b) /\ Bounded(b)

IInv ==
  /\ InOrder(buckets)
  /\ replaceable \subseteq Table
  /\ stale \subseteq Table
  /\ FilterTypeOK
  /\ FilterForgets
  /\ ConnectionsMatchTable

-----------------------------------------------------------------------------
(* The buckets a new peer is looked a place for in are those of the table, *)
(* perhaps unfolded further; if its bucket is full, it is not the last.    *)
LEMMA CandidateInOrder ==
  ASSUME InOrder(buckets), NEW p \in Peer
  PROVE  LET c == Candidate(p)
             h == BucketIdForPeer(c, p)
         IN /\ InOrder(c)
            /\ Members(c) = Table
            /\ h \in 0..LastOf(c)
            /\ HomeOf(p) = c[h]
            /\ Full(c[h]) => h < LastOf(c)
<1> DEFINE c == Candidate(p)
           h == BucketIdForPeer(c, p)
<1>1. InOrder(c) /\ Members(c) = Table
  <2>1. CASE BucketIdForPeer(buckets, p) = last /\ Full(buckets[last])
    <3>1. Full(buckets[LastOf(buckets)]) /\ c = NextBucket(buckets)
      BY <2>1 DEF Candidate, last
    <3> QED  BY <3>1, Unfolding DEF InOrder, Table
  <2>2. CASE ~ (BucketIdForPeer(buckets, p) = last /\ Full(buckets[last]))
    BY <2>2 DEF Candidate, Table
  <2> QED  BY <2>1, <2>2
<1>2. Full(c[h]) => h # LastOf(c)
  <2>1. CASE BucketIdForPeer(buckets, p) = last /\ Full(buckets[last])
    <3>1. Full(buckets[LastOf(buckets)]) /\ c = NextBucket(buckets)
      BY <2>1 DEF Candidate, last
    <3> HIDE DEF c, h
    <3>2. ~ Full(c[LastOf(c)])
      BY <3>1, Unfolding DEF InOrder
    <3> QED  BY <3>2
  <2>2. CASE ~ (BucketIdForPeer(buckets, p) = last /\ Full(buckets[last]))
    BY <2>2 DEF Candidate, last
  <2> QED  BY <2>1, <2>2
<1>3. p \in Known
  BY TableAssumption DEF Known
<1>4. HomeOf(p) = c[h]
  BY DEF HomeOf
<1> HIDE DEF c, h
<1>5. h \in 0..LastOf(c)
  BY <1>1, <1>3, BucketId DEF InOrder, h
<1>6. LastOf(c) \in 0..MaxCPL + 1 /\ MaxCPL \in Nat
  BY <1>1, LayoutDomain, LayoutAssumption DEF InOrder
<1> QED  BY <1>1, <1>2, <1>4, <1>5, <1>6 DEF c, h

LEMMA KnownPeersInTable ==
  ASSUME InOrder(buckets), NEW p \in Peer
  PROVE  InTable(p) <=> p \in Table
BY MemberIffInBucket, TableAssumption DEF InOrder, InTable, Table, Known

LEMMA TableOfPeers ==
  ASSUME InOrder(buckets)
  PROVE  Table \subseteq Peer /\ IsFiniteSet(Table)
<1>1. Table \subseteq Known
  BY LayoutDomain DEF InOrder, Table, Members
<1> QED  BY <1>1, BucketFinite, TableAssumption DEF Known

(* Adding where there is room.                                             *)
LEMMA AddingInOrder ==
  ASSUME InOrder(buckets), NEW p \in Peer \ Table, HasRoom(p)
  PROVE  /\ InOrder(PushInto(Candidate(p), p))
         /\ Members(PushInto(Candidate(p), p)) = Table \cup {p}
<1> DEFINE c == Candidate(p)
           h == BucketIdForPeer(c, p)
           d == PushInto(c, p)
<1>1. InOrder(c) /\ Members(c) = Table /\ h \in 0..LastOf(c) /\ ~ Full(c[h])
  BY CandidateInOrder DEF HasRoom
<1>2. p \in Known
  BY TableAssumption DEF Known
<1> HIDE DEF c
<1>3. /\ IsLayout(d) /\ Placed(d)
      /\ Members(d) = Table \cup {p}
      /\ LastOf(d) = LastOf(c)
      /\ \A i \in DOMAIN c : d[i] = IF i = h THEN c[i] \cup {p} ELSE c[i]
  BY <1>1, <1>2, Pushing DEF InOrder
<1> HIDE DEF d, h
<1>4. c \in [0..LastOf(c) -> SUBSET Known] /\ d \in [0..LastOf(c) -> SUBSET Known]
  BY <1>1, <1>3, LayoutDomain DEF InOrder
<1>5. BucketSize \in Nat
  BY LayoutAssumption
<1>6. Bounded(d)
  <2>1. SUFFICES ASSUME NEW i \in 0..LastOf(c) PROVE Cardinality(d[i]) <= BucketSize
    BY <1>4 DEF Bounded
  <2>2. CASE i # h
    BY <1>1, <1>3, <1>4, <2>2 DEF InOrder, Bounded
  <2>3. CASE i = h
    <3>1. d[i] = c[i] \cup {p} /\ p \notin c[i] /\ c[i] \in SUBSET Known
      <4>1. p \notin Members(c)
        BY <1>1
      <4> QED  BY <4>1, <1>3, <1>4, <2>3 DEF Members
    <3>2. IsFiniteSet(c[i]) /\ Cardinality(c[i]) \in Nat
      BY <3>1, BucketFinite
    <3>3. Cardinality(d[i]) = Cardinality(c[i]) + 1
      BY <3>1, <3>2, FS_AddElement
    <3>4. Cardinality(c[i]) < BucketSize
      BY <1>1, <1>5, <2>3, <3>2 DEF Full
    <3> QED  BY <3>2, <3>3, <3>4, <1>5
  <2> QED  BY <2>2, <2>3
<1> QED  BY <1>3, <1>6 DEF InOrder, d, c

(* Replacing v, in the bucket where p belongs.                             *)
LEMMA ReplacingInOrder ==
  ASSUME InOrder(buckets), NEW p \in Peer \ Table, NEW v \in HomeOf(p)
  PROVE  LET e == RemoveFrom(PushInto(Candidate(p), p), v) IN
         /\ InOrder(e)
         /\ Members(e) = (Table \cup {p}) \ {v}
<1> DEFINE c == Candidate(p)
           h == BucketIdForPeer(c, p)
           d == PushInto(c, p)
<1>1. InOrder(c) /\ Members(c) = Table /\ h \in 0..LastOf(c) /\ v \in c[h]
  BY CandidateInOrder
<1>2. p \in Known
  BY TableAssumption DEF Known
<1> HIDE DEF c
<1>3. /\ IsLayout(d) /\ Placed(d)
      /\ Members(d) = Table \cup {p}
      /\ LastOf(d) = LastOf(c)
      /\ \A i \in DOMAIN c : d[i] = IF i = h THEN c[i] \cup {p} ELSE c[i]
  BY <1>1, <1>2, Pushing DEF InOrder
<1> HIDE DEF d, h
<1>4. c \in [0..LastOf(c) -> SUBSET Known] /\ d \in [0..LastOf(c) -> SUBSET Known]
  BY <1>1, <1>3, LayoutDomain DEF InOrder
<1>5. v \in d[h] /\ h \in DOMAIN d
  BY <1>1, <1>3, <1>4
<1>6. BucketIdForPeer(d, v) = h
  BY <1>3, <1>5, FoundWherePlaced
<1>7. v \in Members(d)
  BY <1>5 DEF Members
<1>8. \A i \in DOMAIN d :
        Cardinality(d[i]) <= IF i = BucketIdForPeer(d, v) THEN BucketSize + 1 ELSE BucketSize
  <2>1. SUFFICES ASSUME NEW i \in 0..LastOf(c)
                 PROVE  Cardinality(d[i]) <= IF i = h THEN BucketSize + 1 ELSE BucketSize
    BY <1>4, <1>6
  <2>2. Cardinality(c[i]) <= BucketSize
    BY <1>1, <1>4 DEF InOrder, Bounded
  <2>3. CASE i # h
    BY <1>3, <1>4, <2>2, <2>3
  <2>4. CASE i = h
    <3>1. d[i] = c[i] \cup {p} /\ p \notin c[i] /\ c[i] \in SUBSET Known
      <4>1. p \notin Members(c)
        BY <1>1
      <4> QED  BY <4>1, <1>3, <1>4, <2>4 DEF Members
    <3>2. IsFiniteSet(c[i]) /\ Cardinality(c[i]) \in Nat
      BY <3>1, BucketFinite
    <3>3. Cardinality(d[i]) = Cardinality(c[i]) + 1
      BY <3>1, <3>2, FS_AddElement
    <3>4. BucketSize \in Nat
      BY LayoutAssumption
    <3> QED  BY <3>2, <3>3, <3>4, <2>2, <2>4
  <2> QED  BY <2>3, <2>4
<1>9. /\ InOrder(RemoveFrom(d, v))
      /\ Members(RemoveFrom(d, v)) = Members(d) \ {v}
  BY <1>3, <1>7, <1>8, Removing DEF InOrder
<1> QED  BY <1>3, <1>9 DEF d, c

LEMMA RemovingInOrder ==
  ASSUME InOrder(buckets), NEW p \in Table
  PROVE  /\ InOrder(RemoveFrom(buckets, p))
         /\ Members(RemoveFrom(buckets, p)) = Table \ {p}
<1>1. \A i \in DOMAIN buckets :
        Cardinality(buckets[i]) <=
          IF i = BucketIdForPeer(buckets, p) THEN BucketSize + 1 ELSE BucketSize
  <2>1. SUFFICES ASSUME NEW i \in DOMAIN buckets
                 PROVE  Cardinality(buckets[i]) <= BucketSize /\ Cardinality(buckets[i]) <= BucketSize + 1
    OBVIOUS
  <2>2. buckets[i] \in SUBSET Known /\ Cardinality(buckets[i]) <= BucketSize
    BY LayoutDomain DEF InOrder, Bounded
  <2>3. Cardinality(buckets[i]) \in Nat /\ BucketSize \in Nat
    BY <2>2, BucketFinite, LayoutAssumption
  <2> QED  BY <2>2, <2>3
<1> QED  BY <1>1, Removing DEF InOrder, Table

-----------------------------------------------------------------------------
(* What each action does to the set of peers in the table.                 *)
LEMMA AddWithRoomShape ==
  ASSUME IInv, NEW p \in Peer, NEW r \in BOOLEAN, NEW a \in AddrCount, AddWithRoom(p, r, a)
  PROVE  p \notin Table /\ InOrder(buckets') /\ Table' = Table \cup {p}
<1>1. InOrder(buckets) /\ p \in Peer \ Table /\ HasRoom(p)
  BY KnownPeersInTable DEF IInv, AddWithRoom
<1>2. buckets' = PushInto(Candidate(p), p)
  BY DEF AddWithRoom
<1> QED  BY <1>1, <1>2, AddingInOrder DEF Table

LEMMA AddReplacingShape ==
  ASSUME IInv, NEW p \in Peer, NEW v \in Peer, NEW r \in BOOLEAN, NEW a \in AddrCount,
         AddReplacing(p, v, r, a)
  PROVE  /\ p \notin Table /\ v \in Table /\ v # p
         /\ InOrder(buckets') /\ Table' = (Table \cup {p}) \ {v}
<1>1. InOrder(buckets) /\ p \in Peer \ Table /\ v \in HomeOf(p) /\ v \in replaceable
  BY KnownPeersInTable DEF IInv, AddReplacing
<1>2. buckets' = RemoveFrom(PushInto(Candidate(p), p), v)
  BY DEF AddReplacing
<1>3. InOrder(buckets') /\ Members(buckets') = (Table \cup {p}) \ {v}
  BY <1>1, <1>2, ReplacingInOrder
<1>4. v \in Table
  BY <1>1 DEF IInv
<1> QED  BY <1>1, <1>3, <1>4 DEF Table

LEMMA AddWithoutCapacityShape ==
  ASSUME IInv, NEW p \in Peer, NEW a \in AddrCount, AddWithoutCapacity(p, a)
  PROVE  p \notin Table /\ InOrder(buckets') /\ Table' = Table
<1>1. InOrder(buckets) /\ p \in Peer \ Table
  BY KnownPeersInTable DEF IInv, AddWithoutCapacity
<1>2. buckets' = Candidate(p)
  BY DEF AddWithoutCapacity
<1> QED  BY <1>1, <1>2, CandidateInOrder DEF Table

LEMMA RemovePeerShape ==
  ASSUME IInv, NEW p \in Peer, RemovePeer(p)
  PROVE  p \in Table /\ InOrder(buckets') /\ Table' = Table \ {p}
<1>1. InOrder(buckets) /\ p \in Table
  BY KnownPeersInTable DEF IInv, RemovePeer
<1>2. buckets' = RemoveFrom(buckets, p)
  BY DEF RemovePeer
<1> QED  BY <1>1, <1>2, RemovingInOrder DEF Table

-----------------------------------------------------------------------------
(* The two records kept beside the table follow it.                        *)

LEMMA FilterAdds ==
  ASSUME FilterTypeOK, NEW p \in Peer, NEW a \in AddrCount, FilterAdd(p, a)
  PROVE  /\ FilterTypeOK'
         /\ \A q \in Peer : q # p => peerGroups'[q] = peerGroups[q]
<1>1. a \in [Group -> Nat]
  BY FilterAssumption
<1>2. Recorded(p, a) \in [Group -> Nat]
  BY <1>1 DEF Recorded, FilterTypeOK
<1>3. Counted(p, a) \in [Group -> Int]
  BY <1>1 DEF Counted, FilterTypeOK
<1> QED  BY <1>2, <1>3 DEF FilterAdd, FilterTypeOK

LEMMA FilterRemoves ==
  ASSUME FilterTypeOK, NEW p \in Peer, FilterRemove(p)
  PROVE  /\ FilterTypeOK'
         /\ \A q \in Peer : peerGroups'[q] = IF q = p THEN NoAddrs ELSE peerGroups[q]
<1>1. NoAddrs \in [Group -> Nat]
  BY DEF NoAddrs
<1>2. \A g \in Group : groupCount[g] - peerGroups[p][g] \in Int
  BY DEF FilterTypeOK
<1>3. groupCount' \in [Group -> Int]
  BY <1>2 DEF FilterRemove
<1> HIDE DEF NoAddrs
<1>4. peerGroups' = [peerGroups EXCEPT ![p] = NoAddrs] /\ wlpeers' = wlpeers
  BY DEF FilterRemove
<1> QED  BY <1>1, <1>3, <1>4 DEF FilterTypeOK

LEMMA FilterReplaces ==
  ASSUME FilterTypeOK, NEW p \in Peer, NEW v \in Peer, NEW a \in AddrCount, v # p,
         FilterReplace(p, a, v)
  PROVE  /\ FilterTypeOK'
         /\ \A q \in Peer : q # p => peerGroups'[q] = IF q = v THEN NoAddrs ELSE peerGroups[q]
<1>1. a \in [Group -> Nat]
  BY FilterAssumption
<1>2. Recorded(p, a) \in [Group -> Nat] /\ NoAddrs \in [Group -> Nat]
  BY <1>1 DEF Recorded, FilterTypeOK, NoAddrs
<1>3. Counted(p, a) \in [Group -> Int]
  BY <1>1 DEF Counted, FilterTypeOK
<1>4. \A g \in Group : Counted(p, a)[g] - peerGroups[v][g] \in Int
  BY <1>3 DEF FilterTypeOK
<1>5. groupCount' \in [Group -> Int]
  BY <1>4 DEF FilterReplace
<1> HIDE DEF NoAddrs
<1>6. /\ peerGroups' = [peerGroups EXCEPT ![p] = Recorded(p, a), ![v] = NoAddrs]
      /\ wlpeers' = wlpeers
  BY DEF FilterReplace
<1> QED  BY <1>2, <1>5, <1>6 DEF FilterTypeOK

-----------------------------------------------------------------------------
LEMMA InitIInv == Init => IInv
<1> SUFFICES ASSUME Init PROVE IInv
  OBVIOUS
<1>1. buckets = [i \in {0} |-> {}] /\ {0} = 0..0
  BY DEF Init
<1>2. BucketSize \in Nat /\ MaxCPL \in Nat /\ 0 \in 0..MaxCPL + 1
  BY LayoutAssumption
<1>3. buckets \in [0..0 -> SUBSET Known]
  BY <1>1
<1>4. IsLayout(buckets)
  BY <1>2, <1>3 DEF IsLayout
<1>5. Placed(buckets) /\ Members(buckets) = {}
  BY <1>1 DEF Placed, Members
<1>6. Bounded(buckets)
  BY <1>1, <1>2, FS_EmptySet DEF Bounded
<1>7. FilterTypeOK /\ FilterForgets
  <2>1. NoAddrs \in [Group -> Nat]
    BY DEF NoAddrs
  <2> HIDE DEF NoAddrs
  <2>2. /\ peerGroups = [p \in Peer |-> NoAddrs]
        /\ wlpeers = {} /\ groupCount = [g \in Group |-> 0]
    BY DEF Init, FilterInit
  <2> QED  BY <2>1, <2>2 DEF FilterTypeOK, FilterForgets
<1>8. ConnectionsMatchTable
  BY <1>5 DEF Init, ConnectionsMatchTable, Table
<1> QED  BY <1>4, <1>5, <1>6, <1>7, <1>8 DEF Init, IInv, InOrder, Table

(* Nothing but the table and the two records beside it matters to IInv.    *)
LEMMA KeepsTable ==
  ASSUME IInv, UNCHANGED <<buckets, connVars, filterVars>>,
         replaceable' \subseteq Table, stale' \subseteq Table
  PROVE  IInv'
BY DEF IInv, connVars, filterVars, Table, FilterTypeOK, FilterForgets, ConnectionsMatchTable

LEMMA AddWithRoomIInv ==
  ASSUME IInv, NEW p \in Peer, NEW r \in BOOLEAN, NEW a \in AddrCount, AddWithRoom(p, r, a)
  PROVE  IInv'
<1>1. p \notin Table /\ InOrder(buckets') /\ Table' = Table \cup {p}
  BY AddWithRoomShape
<1>2. replaceable' \subseteq Table' /\ stale' \subseteq Table'
  BY <1>1 DEF IInv, AddWithRoom, NewRecord
<1>3. FilterTypeOK' /\ FilterForgets'
  BY <1>1, FilterAdds DEF IInv, AddWithRoom, FilterForgets
<1>4. ConnectionsMatchTable'
  BY <1>1 DEF IInv, AddWithRoom, ConnAdded, ConnectionsMatchTable
<1> QED  BY <1>1, <1>2, <1>3, <1>4 DEF IInv

LEMMA AddReplacingIInv ==
  ASSUME IInv, NEW p \in Peer, NEW v \in Peer, NEW r \in BOOLEAN, NEW a \in AddrCount,
         AddReplacing(p, v, r, a)
  PROVE  IInv'
<1>1. /\ p \notin Table /\ v \in Table /\ v # p
      /\ InOrder(buckets') /\ Table' = (Table \cup {p}) \ {v}
  BY AddReplacingShape
<1>2. replaceable' \subseteq Table' /\ stale' \subseteq Table'
  BY <1>1 DEF IInv, AddReplacing, NewRecord
<1>3. FilterTypeOK' /\ FilterForgets'
  BY <1>1, FilterReplaces DEF IInv, AddReplacing, FilterForgets
<1>4. ConnectionsMatchTable'
  BY <1>1 DEF IInv, AddReplacing, ConnReplaced, ConnectionsMatchTable
<1> QED  BY <1>1, <1>2, <1>3, <1>4 DEF IInv

LEMMA AddWithoutCapacityIInv ==
  ASSUME IInv, NEW p \in Peer, NEW a \in AddrCount, AddWithoutCapacity(p, a)
  PROVE  IInv'
<1>1. p \notin Table /\ InOrder(buckets') /\ Table' = Table
  BY AddWithoutCapacityShape
<1>2. FilterTypeOK' /\ FilterForgets'
  BY <1>1, FilterRemoves DEF IInv, AddWithoutCapacity, FilterForgets
<1>3. replaceable' = replaceable /\ stale' = stale /\ UNCHANGED <<protected, tagged>>
  BY DEF AddWithoutCapacity, connVars
<1>4. ConnectionsMatchTable'
  BY <1>1, <1>3 DEF IInv, ConnectionsMatchTable
<1> QED  BY <1>1, <1>2, <1>3, <1>4 DEF IInv

LEMMA RemovePeerIInv ==
  ASSUME IInv, NEW p \in Peer, RemovePeer(p)
  PROVE  IInv'
<1>1. p \in Table /\ InOrder(buckets') /\ Table' = Table \ {p}
  BY RemovePeerShape
<1>2. replaceable' \subseteq Table' /\ stale' \subseteq Table'
  BY <1>1 DEF IInv, RemovePeer
<1>3. FilterTypeOK' /\ FilterForgets'
  BY <1>1, FilterRemoves DEF IInv, RemovePeer, FilterForgets
<1>4. ConnectionsMatchTable'
  BY <1>1 DEF IInv, RemovePeer, ConnRemoved, ConnectionsMatchTable
<1> QED  BY <1>1, <1>2, <1>3, <1>4 DEF IInv

(* The cases of a step, which every proof about Next goes through.         *)
LEMMA Steps ==
  ASSUME [Next]_vars
  PROVE  \/ UNCHANGED vars
         \/ \E p \in Peer, r \in BOOLEAN, a \in AddrCount : AddWithRoom(p, r, a)
         \/ \E p, v \in Peer, r \in BOOLEAN, a \in AddrCount : AddReplacing(p, v, r, a)
         \/ \E p \in Peer, a \in AddrCount : AddWithoutCapacity(p, a)
         \/ \E p \in Peer : RemovePeer(p)
         \/ \E p \in Peer : UpdateLastSuccessfulOutboundQueryAt(p)
         \/ \E p \in Peer : Age(p)
         \/ \E p \in Peer : Whitelist(p)
         \/ MarkAllPeersIrreplaceable
BY DEF Next, AddPeer, AddKnownPeer, AddRefused

LEMMA NextIInv == IInv /\ [Next]_vars => IInv'
<1> SUFFICES ASSUME IInv, [Next]_vars PROVE IInv'
  OBVIOUS
<1>1. CASE UNCHANGED vars
  BY <1>1, KeepsTable DEF IInv, vars, tableVars
<1>2. ASSUME NEW p \in Peer, NEW r \in BOOLEAN, NEW a \in AddrCount, AddWithRoom(p, r, a)
      PROVE  IInv'
  BY <1>2, AddWithRoomIInv
<1>3. ASSUME NEW p \in Peer, NEW v \in Peer, NEW r \in BOOLEAN, NEW a \in AddrCount,
             AddReplacing(p, v, r, a)
      PROVE  IInv'
  BY <1>3, AddReplacingIInv
<1>4. ASSUME NEW p \in Peer, NEW a \in AddrCount, AddWithoutCapacity(p, a)  PROVE IInv'
  BY <1>4, AddWithoutCapacityIInv
<1>5. ASSUME NEW p \in Peer, RemovePeer(p)  PROVE IInv'
  BY <1>5, RemovePeerIInv
<1>6. ASSUME NEW p \in Peer, UpdateLastSuccessfulOutboundQueryAt(p)  PROVE IInv'
  BY <1>6, KeepsTable DEF IInv, UpdateLastSuccessfulOutboundQueryAt
<1>7. ASSUME NEW p \in Peer, Age(p)  PROVE IInv'
  BY <1>7, KeepsTable, KnownPeersInTable DEF IInv, Age
<1>8. ASSUME NEW p \in Peer, Whitelist(p)  PROVE IInv'
  <2>1. /\ UNCHANGED <<buckets, replaceable, stale, protected, tagged, peerGroups, groupCount>>
        /\ wlpeers' \subseteq Peer
    BY <1>8 DEF IInv, Whitelist, WhitelistPeers, tableVars, connVars, FilterTypeOK
  <2> QED  BY <2>1 DEF IInv, Table, FilterTypeOK, FilterForgets, ConnectionsMatchTable
<1>9. CASE MarkAllPeersIrreplaceable
  BY <1>9, KeepsTable DEF IInv, MarkAllPeersIrreplaceable
<1> QED  BY <1>1, <1>2, <1>3, <1>4, <1>5, <1>6, <1>7, <1>8, <1>9, Steps

(* The inductive invariant holds in every reachable state.                 *)
THEOREM Inductive == Spec => []IInv
BY InitIInv, NextIInv, PTL DEF Spec

(* Every variable keeps its type, and only peers of the table are marked   *)
(* replaceable or stale: no operation of kbucket/table.go leaves a mark    *)
(* behind for a peer that is gone.                                         *)
THEOREM TypeCorrect == Spec => []TypeOK
<1>1. IInv => TypeOK
  <2> SUFFICES ASSUME IInv PROVE TypeOK
    OBVIOUS
  <2>1. \E n \in 0..MaxCPL + 1 : buckets \in [0..n -> SUBSET Peer]
    BY TableAssumption DEF IInv, InOrder, IsLayout, Known
  <2>2. Table \subseteq Peer
    BY TableOfPeers DEF IInv
  <2> QED  BY <2>1, <2>2 DEF IInv, ConnectionsMatchTable, TypeOK
<1> QED  BY <1>1, Inductive, PTL

(* Every peer stays in the one bucket in which bucketIdForPeer looks for   *)
(* it, and no bucket outgrows BucketSize, however often the table unfolds  *)
(* and folds.                                                              *)
THEOREM WellPlaced == Spec => [](Placement /\ Capacity)
<1>1. IInv => Placement /\ Capacity
  <2> SUFFICES ASSUME IInv PROVE Placement /\ Capacity
    OBVIOUS
  <2>1. buckets \in [0..last -> SUBSET Known]
    BY LayoutDomain DEF IInv, InOrder, last
  <2> QED  BY <2>1 DEF IInv, InOrder, Placed, Bounded, Placement, Capacity, last
<1> QED  BY <1>1, Inductive, PTL

(* What the diversity filter records and what the connection manager is    *)
(* asked to keep always belongs to peers of the table.                     *)
THEOREM RecordsFollowTable == Spec => [](FilterForgets /\ ConnectionsMatchTable)
BY Inductive, PTL DEF IInv

-----------------------------------------------------------------------------
(* Sums.  What SumFunctionOnSet computes is counted instead: f[p] units    *)
(* for every p, each of them a pair.                                       *)
Units(f, S) == UNION {{p} \X (1..f[p]) : p \in S}

LEMMA UnitsFinite ==
  ASSUME NEW S, IsFiniteSet(S), NEW f, \A p \in S : f[p] \in Nat
  PROVE  IsFiniteSet(Units(f, S)) /\ Cardinality(Units(f, S)) \in Nat
<1> DEFINE u == [p \in S |-> {p} \X (1..f[p])]
           T == {{p} \X (1..f[p]) : p \in S}
<1>1. u \in Surjection(S, T)
  BY DEF Surjection
<1>2. IsFiniteSet(T)
  BY <1>1, FS_Surjection
<1>3. ASSUME NEW p \in S  PROVE IsFiniteSet({p} \X (1..f[p]))
  <2>1. IsFiniteSet(1..f[p])
    BY FS_Interval
  <2>2. IsFiniteSet({p})
    BY FS_Singleton
  <2> QED  BY <2>1, <2>2, FS_Product
<1>4. IsFiniteSet(UNION T)
  BY <1>2, <1>3, FS_UNION
<1> QED  BY <1>4, FS_CardinalityType DEF Units

(* Any element's units can be counted apart.                               *)
LEMMA UnitsStep ==
  ASSUME NEW S, IsFiniteSet(S), NEW f, \A p \in S : f[p] \in Nat, NEW x \in S
  PROVE  Cardinality(Units(f, S)) = f[x] + Cardinality(Units(f, S \ {x}))
<1> DEFINE A == {x} \X (1..f[x])
           B == Units(f, S \ {x})
<1>1. Units(f, S) = A \cup B
  BY DEF Units
<1>2. A \cap B = {}
  BY DEF Units
<1>3. IsFiniteSet(A) /\ Cardinality(A) = f[x]
  <2>1. IsFiniteSet({x}) /\ Cardinality({x}) = 1
    BY FS_Singleton
  <2>2. IsFiniteSet(1..f[x]) /\ Cardinality(1..f[x]) = f[x]
    BY FS_Interval
  <2>3. IsFiniteSet(A) /\ Cardinality(A) = 1 * f[x]
    BY <2>1, <2>2, FS_Product
  <2> QED  BY <2>3
<1>4. IsFiniteSet(B) /\ Cardinality(B) \in Nat
  BY FS_RemoveElement, UnitsFinite
<1> HIDE DEF A, B
<1>5. Cardinality(A \cup B) = Cardinality(A) + Cardinality(B) - Cardinality({})
  BY <1>2, <1>3, <1>4, FS_Union
<1> QED  BY <1>1, <1>3, <1>4, <1>5, FS_EmptySet DEF B

Picked(s) == CHOOSE x \in s : TRUE

(* SumFunctionOnSet is the recursive function that takes one element of    *)
(* the set at a time.                                                      *)
LEMMA SumUnfolded ==
  ASSUME NEW f, NEW S
  PROVE  SumFunctionOnSet(f, S) =
           (CHOOSE iter : iter = [s \in SUBSET S |->
              IF s = {} THEN 0 ELSE f[Picked(s)] + iter[s \ {Picked(s)}]])[S]
BY DEF SumFunctionOnSet, FoldFunctionOnSet, MapThenFoldSet, Picked

(* The count satisfies that recursion, so there is such a function; and    *)
(* any such function agrees with the count, or there would be a smallest   *)
(* set on which it does not.                                               *)
LEMMA SumIsCount ==
  ASSUME NEW S, IsFiniteSet(S), NEW f, \A p \in S : f[p] \in Nat
  PROVE  SumFunctionOnSet(f, S) = Cardinality(Units(f, S))
<1> DEFINE Taking(it) == [s \in SUBSET S |->
                            IF s = {} THEN 0 ELSE f[Picked(s)] + it[s \ {Picked(s)}]]
           count == [s \in SUBSET S |-> Cardinality(Units(f, s))]
           it == CHOOSE iter : iter = Taking(iter)
<1>1. \A s \in SUBSET S : s # {} => Picked(s) \in s
  BY DEF Picked
<1>2. ASSUME NEW s \in SUBSET S
      PROVE  count[s] = IF s = {} THEN 0 ELSE f[Picked(s)] + count[s \ {Picked(s)}]
  <2>1. CASE s = {}
    BY <2>1, FS_EmptySet DEF Units
  <2>2. CASE s # {}
    <3>1. Picked(s) \in s /\ IsFiniteSet(s) /\ \A p \in s : f[p] \in Nat
      BY <2>2, <1>1, FS_Subset
    <3>2. Cardinality(Units(f, s)) = f[Picked(s)] + Cardinality(Units(f, s \ {Picked(s)}))
      BY <3>1, UnitsStep
    <3> QED  BY <3>2, <2>2
  <2> QED  BY <2>1, <2>2
<1>3. count = Taking(count)
  BY <1>2
<1> HIDE DEF count
<1>4. it = Taking(it)
  BY <1>3
<1> HIDE DEF it
<1> DEFINE Bad == {s \in SUBSET S : it[s] # count[s]}
<1>5. Bad = {}
  <2>1. SUFFICES ASSUME Bad # {} PROVE FALSE
    OBVIOUS
  <2>2. IsWellFoundedOn(StrictSubsetOrdering(S), SUBSET S)
    BY FS_StrictSubsetOrderingWellFounded, FS_FiniteSubsetsOfFinite
  <2>3. Bad \subseteq SUBSET S
    OBVIOUS
  <2>4. PICK s \in Bad : \A t \in Bad : ~ (<<t, s>> \in StrictSubsetOrdering(S))
    <3> HIDE DEF Bad
    <3> QED  BY <2>1, <2>2, <2>3, WFMin
  <2>5. s \in SUBSET S /\ it[s] # count[s]
    OBVIOUS
  <2>6. it[s] = IF s = {} THEN 0 ELSE f[Picked(s)] + it[s \ {Picked(s)}]
    BY <1>4, <2>5
  <2>7. s # {} /\ it[s \ {Picked(s)}] # count[s \ {Picked(s)}]
    BY <1>2, <2>5, <2>6
  <2>8. s \ {Picked(s)} \in Bad
    BY <2>5, <2>7
  <2>9. <<s \ {Picked(s)}, s>> \in StrictSubsetOrdering(S)
    BY <1>1, <2>5, <2>7 DEF StrictSubsetOrdering
  <2> QED  BY <2>4, <2>8, <2>9
<1>6. it[S] = count[S]
  BY <1>5
<1>7. SumFunctionOnSet(f, S) = it[S]
  BY SumUnfolded DEF it
<1> QED  BY <1>6, <1>7 DEF count

LEMMA SumChanges ==
  ASSUME NEW S, IsFiniteSet(S), NEW x \in S, NEW f, NEW h,
         \A p \in S : f[p] \in Nat /\ h[p] \in Nat,
         \A p \in S \ {x} : f[p] = h[p]
  PROVE  /\ SumFunctionOnSet(f, S) \in Nat
         /\ SumFunctionOnSet(h, S) = SumFunctionOnSet(f, S) + h[x] - f[x]
<1>1. Units(f, S \ {x}) = Units(h, S \ {x})
  BY DEF Units
<1>2. /\ SumFunctionOnSet(f, S) = f[x] + Cardinality(Units(f, S \ {x}))
      /\ SumFunctionOnSet(h, S) = h[x] + Cardinality(Units(f, S \ {x}))
  BY <1>1, SumIsCount, UnitsStep
<1>3. Cardinality(Units(f, S \ {x})) \in Nat
  BY FS_RemoveElement, UnitsFinite
<1> QED  BY <1>2, <1>3

LEMMA SumBoundsHolders ==
  ASSUME NEW S, IsFiniteSet(S), NEW f, \A p \in S : f[p] \in Nat
  PROVE  /\ SumFunctionOnSet(f, S) \in Nat
         /\ Cardinality({p \in S : f[p] > 0}) <= SumFunctionOnSet(f, S)
<1> DEFINE H == {p \in S : f[p] > 0}
           j == [p \in H |-> <<p, 1>>]
<1>1. j \in Injection(H, Units(f, S))
  <2>1. \A p \in H : <<p, 1>> \in {p} \X (1..f[p])
    OBVIOUS
  <2>2. \A p \in H : <<p, 1>> \in Units(f, S)
    BY <2>1 DEF Units
  <2> QED  BY <2>2 DEF Injection, IsInjective
<1>2. IsFiniteSet(Units(f, S)) /\ Cardinality(Units(f, S)) \in Nat
  BY UnitsFinite
<1>3. Cardinality(H) <= Cardinality(Units(f, S))
  BY <1>1, <1>2, FS_Injection
<1> QED  BY <1>2, <1>3, SumIsCount

-----------------------------------------------------------------------------
(* The diversity filter's accounts.                                        *)
Holds(g) == [p \in Peer |-> peerGroups[p][g]]

Accounted ==
  \A g \in Group :
    /\ groupCount[g] = SumFunctionOnSet(Holds(g), Peer)
    /\ Cardinality({p \in Peer : peerGroups[p][g] > 0}) <= GroupLimit

LEMMA PeersFinite == IsFiniteSet(Peer)
BY TableAssumption, LayoutAssumption

(* Changing one peer's record changes the sum by the difference.           *)
LEMMA OneRecordChanges ==
  ASSUME FilterTypeOK, FilterTypeOK', NEW x \in Peer, NEW g \in Group,
         \A p \in Peer : p # x => peerGroups'[p] = peerGroups[p]
  PROVE  /\ SumFunctionOnSet(Holds(g), Peer) \in Nat
         /\ SumFunctionOnSet(Holds(g)', Peer) =
              SumFunctionOnSet(Holds(g), Peer) + peerGroups'[x][g] - peerGroups[x][g]
<1> DEFINE f == Holds(g)
           h == Holds(g)'
<1>1. \A p \in Peer : f[p] = peerGroups[p][g] /\ h[p] = peerGroups'[p][g]
  BY DEF Holds
<1>2. \A p \in Peer : f[p] \in Nat /\ h[p] \in Nat
  BY <1>1 DEF FilterTypeOK
<1>3. \A p \in Peer \ {x} : f[p] = h[p]
  BY <1>1
<1> HIDE DEF f, h
<1>4. /\ SumFunctionOnSet(f, Peer) \in Nat
      /\ SumFunctionOnSet(h, Peer) = SumFunctionOnSet(f, Peer) + h[x] - f[x]
  BY <1>2, <1>3, PeersFinite, SumChanges
<1> QED  BY <1>1, <1>4 DEF f, h

(* A group has no more peers than addresses.                               *)
LEMMA HoldersBounded ==
  ASSUME FilterTypeOK, NEW g \in Group
  PROVE  /\ IsFiniteSet({p \in Peer : peerGroups[p][g] > 0})
         /\ Cardinality({p \in Peer : peerGroups[p][g] > 0}) \in Nat
         /\ Cardinality({p \in Peer : peerGroups[p][g] > 0}) <= SumFunctionOnSet(Holds(g), Peer)
<1> DEFINE f == Holds(g)
<1>1. \A p \in Peer : f[p] = peerGroups[p][g] /\ f[p] \in Nat
  BY DEF Holds, FilterTypeOK
<1>2. {p \in Peer : peerGroups[p][g] > 0} = {p \in Peer : f[p] > 0}
  BY <1>1
<1>3. IsFiniteSet({p \in Peer : peerGroups[p][g] > 0})
  BY PeersFinite, FS_Subset
<1> HIDE DEF f
<1>4. Cardinality({p \in Peer : f[p] > 0}) <= SumFunctionOnSet(f, Peer)
  BY <1>1, PeersFinite, SumBoundsHolders
<1> QED  BY <1>2, <1>3, <1>4, FS_CardinalityType DEF f

(* At most one more peer holds group g, and only if the limit allows it.   *)
LEMMA LimitKept ==
  ASSUME FilterTypeOK, Accounted, NEW x \in Peer, NEW g \in Group,
         \A p \in Peer : p # x /\ peerGroups'[p][g] > 0 => peerGroups[p][g] > 0,
         peerGroups'[x][g] > 0 => peerGroups[x][g] > 0 \/ Allow(g)
  PROVE  Cardinality({p \in Peer : peerGroups'[p][g] > 0}) <= GroupLimit
<1> DEFINE H == {p \in Peer : peerGroups[p][g] > 0}
           G == {p \in Peer : peerGroups'[p][g] > 0}
<1>1. /\ IsFiniteSet(H) /\ Cardinality(H) \in Nat
      /\ Cardinality(H) <= groupCount[g] /\ Cardinality(H) <= GroupLimit
      /\ groupCount[g] \in Int /\ GroupLimit \in Nat
  BY HoldersBounded, FilterAssumption DEF Accounted, FilterTypeOK
<1>2. CASE G \subseteq H
  <2>1. IsFiniteSet(G) /\ Cardinality(G) <= Cardinality(H)
    <3> HIDE DEF G, H
    <3> QED  BY <1>1, <1>2, FS_Subset
  <2>2. Cardinality(G) \in Nat
    BY <2>1, FS_CardinalityType
  <2> QED  BY <1>1, <2>1, <2>2
<1>3. CASE ~ (G \subseteq H)
  <2>1. G \subseteq H \cup {x} /\ Allow(g)
    BY <1>3
  <2> HIDE DEF G, H
  <2>2. IsFiniteSet(H \cup {x}) /\ Cardinality(H \cup {x}) <= Cardinality(H) + 1
    <3>1. /\ IsFiniteSet(H \cup {x})
          /\ Cardinality(H \cup {x}) = IF x \in H THEN Cardinality(H) ELSE Cardinality(H) + 1
      BY <1>1, FS_AddElement
    <3> QED  BY <3>1, <1>1
  <2>3. IsFiniteSet(G) /\ Cardinality(G) <= Cardinality(H \cup {x})
    BY <2>1, <2>2, FS_Subset
  <2>4. Cardinality(G) \in Nat /\ Cardinality(H \cup {x}) \in Nat
    BY <2>2, <2>3, FS_CardinalityType
  <2>5. Cardinality(H) + 1 <= GroupLimit
    BY <1>1, <2>1 DEF Allow
  <2> QED  BY <1>1, <2>2, <2>3, <2>4, <2>5 DEF G
<1> QED  BY <1>2, <1>3

LEMMA AddAccounted ==
  ASSUME FilterTypeOK, Accounted, NEW p \in Peer, NEW a \in AddrCount,
         Admits(p, a), FilterAdd(p, a)
  PROVE  Accounted'
<1> SUFFICES ASSUME NEW g \in Group
             PROVE  /\ groupCount'[g] = SumFunctionOnSet(Holds(g)', Peer)
                    /\ Cardinality({q \in Peer : peerGroups'[q][g] > 0}) <= GroupLimit
  BY DEF Accounted
<1>1. a[g] \in Nat /\ peerGroups[p][g] \in Nat /\ groupCount[g] \in Int
  BY FilterAssumption DEF FilterTypeOK
<1>2. FilterTypeOK' /\ \A q \in Peer : q # p => peerGroups'[q] = peerGroups[q]
  BY FilterAdds
<1>3. peerGroups'[p] = Recorded(p, a) /\ groupCount' = Counted(p, a)
  BY DEF FilterAdd, FilterTypeOK
<1>4. /\ SumFunctionOnSet(Holds(g), Peer) \in Nat
      /\ SumFunctionOnSet(Holds(g)', Peer) =
           SumFunctionOnSet(Holds(g), Peer) + peerGroups'[p][g] - peerGroups[p][g]
  BY <1>2, OneRecordChanges
<1> DEFINE was == SumFunctionOnSet(Holds(g), Peer)
           is == SumFunctionOnSet(Holds(g)', Peer)
<1>5. groupCount[g] = was
  BY DEF Accounted
<1> HIDE DEF was, is
<1>6. was \in Nat /\ is = was + peerGroups'[p][g] - peerGroups[p][g]
  BY <1>4 DEF was, is
<1>7. CASE p \in wlpeers
  <2>1. peerGroups'[p] = peerGroups[p] /\ groupCount' = groupCount
    BY <1>3, <1>7 DEF Recorded, Counted
  <2>2. Cardinality({q \in Peer : peerGroups'[q][g] > 0}) <= GroupLimit
    BY <1>2, <2>1, LimitKept
  <2>3. groupCount'[g] = is
    BY <1>1, <1>5, <1>6, <2>1
  <2> QED  BY <2>2, <2>3 DEF is
<1>8. CASE p \notin wlpeers
  <2>1. /\ peerGroups'[p][g] = peerGroups[p][g] + a[g]
        /\ groupCount'[g] = groupCount[g] + a[g]
    BY <1>3, <1>8 DEF Recorded, Counted
  <2>2. peerGroups'[p][g] > 0 => peerGroups[p][g] > 0 \/ Allow(g)
    BY <1>1, <1>8, <2>1 DEF Admits
  <2>3. Cardinality({q \in Peer : peerGroups'[q][g] > 0}) <= GroupLimit
    BY <1>2, <2>2, LimitKept
  <2>4. groupCount'[g] = is
    BY <1>1, <1>5, <1>6, <2>1
  <2> QED  BY <2>3, <2>4 DEF is
<1> QED  BY <1>7, <1>8

LEMMA RemoveAccounted ==
  ASSUME FilterTypeOK, Accounted, NEW p \in Peer, FilterRemove(p)
  PROVE  Accounted'
<1> SUFFICES ASSUME NEW g \in Group
             PROVE  /\ groupCount'[g] = SumFunctionOnSet(Holds(g)', Peer)
                    /\ Cardinality({q \in Peer : peerGroups'[q][g] > 0}) <= GroupLimit
  BY DEF Accounted
<1>1. peerGroups[p][g] \in Nat /\ groupCount[g] \in Int
  BY DEF FilterTypeOK
<1>2. FilterTypeOK' /\ \A q \in Peer : peerGroups'[q] = IF q = p THEN NoAddrs ELSE peerGroups[q]
  BY FilterRemoves
<1>3. peerGroups'[p][g] = 0 /\ groupCount'[g] = groupCount[g] - peerGroups[p][g]
  BY <1>2 DEF FilterRemove, NoAddrs
<1>4. /\ SumFunctionOnSet(Holds(g), Peer) \in Nat
      /\ SumFunctionOnSet(Holds(g)', Peer) =
           SumFunctionOnSet(Holds(g), Peer) + peerGroups'[p][g] - peerGroups[p][g]
  BY <1>2, OneRecordChanges
<1>5. Cardinality({q \in Peer : peerGroups'[q][g] > 0}) <= GroupLimit
  <2>1. \A q \in Peer : q # p /\ peerGroups'[q][g] > 0 => peerGroups[q][g] > 0
    BY <1>2
  <2>2. ~ (peerGroups'[p][g] > 0)
    BY <1>3
  <2> QED  BY <2>1, <2>2, LimitKept
<1> DEFINE was == SumFunctionOnSet(Holds(g), Peer)
           is == SumFunctionOnSet(Holds(g)', Peer)
<1>6. groupCount[g] = was
  BY DEF Accounted
<1> HIDE DEF was, is
<1>7. was \in Nat /\ is = was + peerGroups'[p][g] - peerGroups[p][g]
  BY <1>4 DEF was, is
<1>8. groupCount'[g] = is
  BY <1>1, <1>3, <1>6, <1>7
<1> QED  BY <1>5, <1>8 DEF is

(* Replacing is adding p and then removing v, without a state in between.  *)
LEMMA ReplaceAccounted ==
  ASSUME FilterTypeOK, Accounted, NEW p \in Peer, NEW v \in Peer, NEW a \in AddrCount,
         v # p, Admits(p, a), FilterReplace(p, a, v)
  PROVE  Accounted'
<1> SUFFICES ASSUME NEW g \in Group
             PROVE  /\ groupCount'[g] = SumFunctionOnSet(Holds(g)', Peer)
                    /\ Cardinality({q \in Peer : peerGroups'[q][g] > 0}) <= GroupLimit
  BY DEF Accounted
<1> DEFINE f == Holds(g)
           m == [f EXCEPT ![p] = Recorded(p, a)[g]]
           h == Holds(g)'
<1>1. /\ a[g] \in Nat /\ peerGroups[p][g] \in Nat /\ peerGroups[v][g] \in Nat
      /\ groupCount[g] \in Int
  BY FilterAssumption DEF FilterTypeOK
<1>2. /\ FilterTypeOK'
      /\ \A q \in Peer : q # p => peerGroups'[q] = IF q = v THEN NoAddrs ELSE peerGroups[q]
  BY FilterReplaces
<1>3. /\ peerGroups'[p] = Recorded(p, a)
      /\ groupCount'[g] = Counted(p, a)[g] - peerGroups[v][g]
  BY DEF FilterReplace, FilterTypeOK
<1>4. /\ Recorded(p, a)[g] = IF p \in wlpeers THEN peerGroups[p][g] ELSE peerGroups[p][g] + a[g]
      /\ Counted(p, a)[g] = IF p \in wlpeers THEN groupCount[g] ELSE groupCount[g] + a[g]
  BY DEF Recorded, Counted
<1>5. /\ \A q \in Peer : f[q] \in Nat /\ m[q] \in Nat
      /\ \A q \in Peer \ {p} : f[q] = m[q]
      /\ f[p] = peerGroups[p][g] /\ m[p] = Recorded(p, a)[g]
  BY <1>1, <1>4 DEF Holds, FilterTypeOK
<1>6. /\ \A q \in Peer : h[q] \in Nat
      /\ \A q \in Peer \ {v} : m[q] = h[q]
      /\ m[v] = peerGroups[v][g] /\ h[v] = 0
  BY <1>2, <1>3 DEF Holds, FilterTypeOK, NoAddrs
<1>7. /\ SumFunctionOnSet(f, Peer) \in Nat
      /\ SumFunctionOnSet(m, Peer) = SumFunctionOnSet(f, Peer) + m[p] - f[p]
  <2> HIDE DEF f, m, h
  <2> QED  BY <1>5, PeersFinite, SumChanges
<1>8. /\ SumFunctionOnSet(m, Peer) \in Nat
      /\ SumFunctionOnSet(h, Peer) = SumFunctionOnSet(m, Peer) + h[v] - m[v]
  <2> HIDE DEF f, m, h
  <2> QED  BY <1>5, <1>6, PeersFinite, SumChanges
<1>9. Cardinality({q \in Peer : peerGroups'[q][g] > 0}) <= GroupLimit
  <2>1. \A q \in Peer : q # p /\ peerGroups'[q][g] > 0 => peerGroups[q][g] > 0
    BY <1>2 DEF NoAddrs
  <2>2. peerGroups'[p][g] > 0 => peerGroups[p][g] > 0 \/ Allow(g)
    BY <1>1, <1>3, <1>4 DEF Admits
  <2> QED  BY <2>1, <2>2, LimitKept
<1>10. groupCount[g] = SumFunctionOnSet(f, Peer)
  BY DEF Accounted
<1> HIDE DEF f, m, h
<1>11. groupCount'[g] = SumFunctionOnSet(h, Peer)
  BY <1>1, <1>3, <1>4, <1>5, <1>6, <1>7, <1>8, <1>10
<1> QED  BY <1>9, <1>11 DEF h

(* Whatever addresses peers advertise, and whoever is let in, replaced,    *)
(* turned away or removed, the filter's counters are the sums of its       *)
(* records, and no group has more peers than the application's limit.      *)
THEOREM AccountsKept == Spec => []FilterAccounts
<1>1. Init => Accounted
  <2> SUFFICES ASSUME Init, NEW g \in Group
               PROVE  /\ groupCount[g] = SumFunctionOnSet(Holds(g), Peer)
                      /\ Cardinality({p \in Peer : peerGroups[p][g] > 0}) <= GroupLimit
    BY DEF Accounted
  <2>1. groupCount[g] = 0 /\ \A p \in Peer : peerGroups[p][g] = 0
    BY DEF Init, FilterInit, NoAddrs
  <2>2. \A p \in Peer : Holds(g)[p] \in Nat /\ 1..Holds(g)[p] = {}
    BY <2>1 DEF Holds
  <2>3. Units(Holds(g), Peer) = {}
    BY <2>2 DEF Units
  <2>4. SumFunctionOnSet(Holds(g), Peer) = 0
    BY <2>2, <2>3, PeersFinite, SumIsCount, FS_EmptySet
  <2>5. {p \in Peer : peerGroups[p][g] > 0} = {}
    BY <2>1
  <2>6. Cardinality({p \in Peer : peerGroups[p][g] > 0}) = 0
    BY <2>5, FS_EmptySet
  <2> QED  BY <2>1, <2>4, <2>6, FilterAssumption
<1>2. IInv /\ Accounted /\ [Next]_vars => Accounted'
  <2> SUFFICES ASSUME IInv, Accounted, [Next]_vars PROVE Accounted'
    OBVIOUS
  <2>1. FilterTypeOK
    BY DEF IInv
  <2>2. ASSUME UNCHANGED <<peerGroups, groupCount>>  PROVE Accounted'
    BY <2>2 DEF Accounted, Holds
  <2>3. ASSUME NEW p \in Peer, NEW r \in BOOLEAN, NEW a \in AddrCount, AddWithRoom(p, r, a)
        PROVE  Accounted'
    BY <2>1, <2>3, AddAccounted DEF AddWithRoom
  <2>4. ASSUME NEW p \in Peer, NEW v \in Peer, NEW r \in BOOLEAN, NEW a \in AddrCount,
               AddReplacing(p, v, r, a)
        PROVE  Accounted'
    BY <2>1, <2>4, AddReplacingShape, ReplaceAccounted DEF AddReplacing
  <2>5. ASSUME NEW p \in Peer, NEW a \in AddrCount, AddWithoutCapacity(p, a)
        PROVE  Accounted'
    BY <2>1, <2>5, RemoveAccounted DEF AddWithoutCapacity
  <2>6. ASSUME NEW p \in Peer, RemovePeer(p)  PROVE Accounted'
    BY <2>1, <2>6, RemoveAccounted DEF RemovePeer
  <2>7. ASSUME \/ UNCHANGED vars
               \/ \E p \in Peer : UpdateLastSuccessfulOutboundQueryAt(p)
               \/ \E p \in Peer : Age(p)
               \/ \E p \in Peer : Whitelist(p)
               \/ MarkAllPeersIrreplaceable
        PROVE  Accounted'
    BY <2>2, <2>7 DEF vars, filterVars, UpdateLastSuccessfulOutboundQueryAt, Age, Whitelist,
                      WhitelistPeers, MarkAllPeersIrreplaceable
  <2> QED  BY <2>3, <2>4, <2>5, <2>6, <2>7, Steps
<1>3. IInv /\ Accounted => FilterAccounts
  BY DEF IInv, Accounted, Holds, FilterAccounts
<1> QED  BY <1>1, <1>2, <1>3, Inductive, PTL DEF Spec

-----------------------------------------------------------------------------
(* Peers of the table that share p's prefix length are in p's bucket, and  *)
(* are all of it unless it is the last one.                                *)
LEMMA KinAtHome ==
  ASSUME NEW c, InOrder(c), Members(c) = Table, NEW p \in Peer
  PROVE  LET h == BucketIdForPeer(c, p)
             S == {q \in Table : CPL[q] = CPL[p]}
         IN /\ S \subseteq c[h]
            /\ h < LastOf(c) => S = c[h]
            /\ IsFiniteSet(c[h]) /\ Cardinality(c[h]) \in Nat
            /\ Cardinality(c[h]) <= BucketSize
            /\ Cardinality(S) \in Nat /\ Cardinality(S) <= Cardinality(c[h])
<1> DEFINE h == BucketIdForPeer(c, p)
           S == {q \in Table : CPL[q] = CPL[p]}
<1>1. p \in Known
  BY TableAssumption DEF Known
<1>2. /\ LastOf(c) \in 0..MaxCPL + 1 /\ c \in [0..LastOf(c) -> SUBSET Known]
      /\ MaxCPL \in Nat /\ BucketSize \in Nat
  BY LayoutDomain, LayoutAssumption DEF InOrder
<1>3. h \in 0..LastOf(c) /\ CPL[p] \in 0..MaxCPL
  BY <1>1, BucketId DEF InOrder
<1>4. S \subseteq c[h]
  <2>1. SUFFICES ASSUME NEW q \in Members(c), CPL[q] = CPL[p] PROVE q \in c[h]
    OBVIOUS
  <2>2. q \in Known
    BY <1>2 DEF Members
  <2>3. q \in c[BucketIdForPeer(c, q)]
    BY <2>2, MemberIffInBucket DEF InOrder
  <2> QED  BY <2>1, <2>3 DEF BucketIdForPeer
<1>5. h < LastOf(c) => c[h] \subseteq S
  <2>1. SUFFICES ASSUME h < LastOf(c), NEW q \in c[h] PROVE q \in Members(c) /\ CPL[q] = CPL[p]
    OBVIOUS
  <2>2. q \in Members(c)
    BY <1>2, <1>3 DEF Members
  <2>3. CPL[q] = h
    BY <1>2, <1>3, <2>1 DEF InOrder, Placed
  <2>4. CPL[p] = h
    BY <1>2, <1>3, <2>1 DEF BucketIdForPeer
  <2> QED  BY <2>2, <2>3, <2>4
<1>6. c[h] \in SUBSET Known /\ Cardinality(c[h]) <= BucketSize
  BY <1>2, <1>3 DEF InOrder, Bounded
<1>7. IsFiniteSet(c[h]) /\ Cardinality(c[h]) \in Nat
  BY <1>6, BucketFinite
<1>8. Cardinality(S) \in Nat /\ Cardinality(S) <= Cardinality(c[h])
  <2>1. S \in SUBSET Known
    BY <1>4, <1>6
  <2> HIDE DEF S, h
  <2> QED  BY <2>1, <1>4, <1>7, FS_Subset, BucketFinite
<1> QED  BY <1>4, <1>5, <1>6, <1>7, <1>8

LEMMA SameCardinality ==
  ASSUME NEW S
  PROVE  K!Cardinality(S) = Cardinality(S)
BY DEF K!Cardinality, Cardinality

(* Room at home is room for p's prefix length ...                          *)
LEMMA RoomForKin ==
  ASSUME IInv, NEW p \in Peer, HasRoom(p)
  PROVE  Cardinality(K!Kin(p)) < BucketSize
<1> DEFINE c == Candidate(p)
           h == BucketIdForPeer(c, p)
<1>1. InOrder(c) /\ Members(c) = Table /\ ~ Full(c[h])
  BY CandidateInOrder DEF IInv, HasRoom
<1> HIDE DEF c
<1>2. /\ Cardinality(c[h]) \in Nat /\ Cardinality(K!Kin(p)) \in Nat
      /\ Cardinality(K!Kin(p)) <= Cardinality(c[h])
  BY <1>1, KinAtHome DEF K!Kin
<1> QED  BY <1>1, <1>2, LayoutAssumption DEF Full

(* ... and a full home holds exactly BucketSize peers of p's length.       *)
LEMMA FullOfKin ==
  ASSUME IInv, NEW p \in Peer, ~ HasRoom(p)
  PROVE  HomeOf(p) = K!Kin(p) /\ Cardinality(K!Kin(p)) = BucketSize
<1> DEFINE c == Candidate(p)
           h == BucketIdForPeer(c, p)
<1>1. InOrder(c) /\ Members(c) = Table /\ Full(c[h]) /\ h < LastOf(c) /\ HomeOf(p) = c[h]
  BY CandidateInOrder DEF IInv, HasRoom
<1> HIDE DEF c
<1>2. K!Kin(p) = c[h] /\ Cardinality(c[h]) \in Nat /\ Cardinality(c[h]) <= BucketSize
  BY <1>1, KinAtHome DEF K!Kin
<1> QED  BY <1>1, <1>2, LayoutAssumption DEF Full

(* A peer refused for lack of capacity could not have been taken without   *)
(* evicting a peer that may not be replaced.                               *)
THEOREM RefusalsJustified == Spec => []RefusalJustified
<1>1. IInv => RefusalJustified
  BY FullOfKin DEF RefusalJustified, CanReplace
<1> QED  BY <1>1, Inductive, PTL

(* The table with its lazily unfolded buckets implements KBuckets.         *)
THEOREM ImplementsKBuckets == Spec => KBucketsSpec
<1>1. Init => K!KInit
  BY InitIInv DEF Init, K!KInit, Table, Members
<1>2. IInv /\ [Next]_vars => [K!KNext]_K!kvars
  <2> SUFFICES ASSUME IInv, [Next]_vars PROVE K!KNext \/ UNCHANGED K!kvars
    OBVIOUS
  <2>1. CASE UNCHANGED vars
    BY <2>1 DEF vars, tableVars, K!kvars, Table
  <2>2. ASSUME NEW p \in Peer, NEW r \in BOOLEAN, NEW a \in AddrCount, AddWithRoom(p, r, a)
        PROVE  K!KNext
    <3>1. p \notin Table /\ Table' = Table \cup {p}
      BY <2>2, AddWithRoomShape
    <3>2. Cardinality(K!Kin(p)) < BucketSize
      BY <2>2, RoomForKin DEF AddWithRoom
    <3>3. replaceable' = IF r THEN replaceable \cup {p} ELSE replaceable
      BY <2>2 DEF AddWithRoom, NewRecord
    <3> QED  BY <3>1, <3>2, <3>3, SameCardinality DEF K!KNext, K!Join
  <2>3. ASSUME NEW p \in Peer, NEW v \in Peer, NEW r \in BOOLEAN, NEW a \in AddrCount,
               AddReplacing(p, v, r, a)
        PROVE  K!KNext
    <3>1. p \notin Table /\ Table' = (Table \cup {p}) \ {v}
      BY <2>3, AddReplacingShape
    <3>2. HomeOf(p) = K!Kin(p) /\ Cardinality(K!Kin(p)) = BucketSize
      BY <2>3, FullOfKin DEF AddReplacing
    <3>3. /\ v \in HomeOf(p) \cap replaceable
          /\ replaceable' = (IF r THEN replaceable \cup {p} ELSE replaceable) \ {v}
      BY <2>3 DEF AddReplacing, NewRecord
    <3> QED  BY <3>1, <3>2, <3>3, SameCardinality DEF K!KNext, K!Replace
  <2>4. ASSUME NEW p \in Peer, NEW a \in AddrCount, AddWithoutCapacity(p, a)
        PROVE  UNCHANGED K!kvars
    BY <2>4, AddWithoutCapacityShape DEF AddWithoutCapacity, K!kvars
  <2>5. ASSUME NEW p \in Peer, RemovePeer(p)  PROVE K!KNext
    <3>1. p \in Table /\ Table' = Table \ {p} /\ replaceable' = replaceable \ {p}
      BY <2>5, RemovePeerShape DEF RemovePeer
    <3> QED  BY <3>1 DEF K!KNext, K!Leave
  <2>6. ASSUME NEW p \in Peer, UpdateLastSuccessfulOutboundQueryAt(p)  PROVE UNCHANGED K!kvars
    BY <2>6 DEF UpdateLastSuccessfulOutboundQueryAt, K!kvars, Table
  <2>7. ASSUME NEW p \in Peer, Age(p)  PROVE UNCHANGED K!kvars
    BY <2>7 DEF Age, K!kvars, Table
  <2>8. ASSUME NEW p \in Peer, Whitelist(p)  PROVE UNCHANGED K!kvars
    BY <2>8 DEF Whitelist, tableVars, K!kvars, Table
  <2>9. CASE MarkAllPeersIrreplaceable
    BY <2>9 DEF MarkAllPeersIrreplaceable, Table, K!KNext, K!Freeze
  <2> QED  BY <2>1, <2>2, <2>3, <2>4, <2>5, <2>6, <2>7, <2>8, <2>9, Steps
<1> QED  BY <1>1, <1>2, Inductive, PTL DEF Spec, KBucketsSpec, K!KSpec

(* A peer leaves the table only by RemovePeer or in favour of one new peer *)
(* of its own prefix length, when BucketSize such peers are in the table   *)
(* and it is marked replaceable.                                           *)
THEOREM NobodyLost == Spec => NoSilentEviction
<1> DEFINE Justified ==
      \A v \in Table \ Table' :
        \/ RemovePeer(v)
        \/ /\ v \in replaceable
           /\ \E p \in Table' \ Table :
                /\ Table' = (Table \cup {p}) \ {v}
                /\ CPL[p] = CPL[v]
                /\ Cardinality({q \in Table : CPL[q] = CPL[v]}) = BucketSize
<1>1. IInv /\ [Next]_vars => [Justified]_vars
  <2> SUFFICES ASSUME IInv, [Next]_vars PROVE Justified
    OBVIOUS
  <2>1. CASE Table' = Table
    BY <2>1
  <2>2. ASSUME NEW p \in Peer, NEW r \in BOOLEAN, NEW a \in AddrCount, AddWithRoom(p, r, a)
        PROVE  Justified
    BY <2>2, AddWithRoomShape
  <2>3. ASSUME NEW p \in Peer, NEW v \in Peer, NEW r \in BOOLEAN, NEW a \in AddrCount,
               AddReplacing(p, v, r, a)
        PROVE  Justified
    <3>1. p \notin Table /\ v # p /\ Table' = (Table \cup {p}) \ {v}
      BY <2>3, AddReplacingShape
    <3>2. K!Kin(p) = HomeOf(p) /\ Cardinality(K!Kin(p)) = BucketSize
      BY <2>3, FullOfKin DEF AddReplacing
    <3>3. v \in HomeOf(p) /\ v \in replaceable
      BY <2>3 DEF AddReplacing
    <3>4. CPL[p] = CPL[v] /\ Cardinality({q \in Table : CPL[q] = CPL[v]}) = BucketSize
      BY <3>2, <3>3 DEF K!Kin
    <3>5. \A w \in Table \ Table' : w = v
      BY <3>1
    <3>6. p \in Table' \ Table
      BY <3>1
    <3> QED  BY <3>1, <3>3, <3>4, <3>5, <3>6
  <2>4. ASSUME NEW p \in Peer, RemovePeer(p)  PROVE Justified
    <3>1. Table' = Table \ {p}
      BY <2>4, RemovePeerShape
    <3>2. \A w \in Table \ Table' : w = p
      BY <3>1
    <3> QED  BY <2>4, <3>2
  <2>5. Table' = Table \/ (\E p \in Peer, r \in BOOLEAN, a \in AddrCount : AddWithRoom(p, r, a))
          \/ (\E p, v \in Peer, r \in BOOLEAN, a \in AddrCount : AddReplacing(p, v, r, a))
          \/ \E p \in Peer : RemovePeer(p)
    <3>1. \A p \in Peer, a \in AddrCount : AddWithoutCapacity(p, a) => Table' = Table
      BY AddWithoutCapacityShape
    <3>2. buckets' = buckets => Table' = Table
      BY DEF Table
    <3> QED  BY <3>1, <3>2, Steps DEF vars, tableVars, UpdateLastSuccessfulOutboundQueryAt,
                Age, Whitelist, MarkAllPeersIrreplaceable
  <2> QED  BY <2>1, <2>2, <2>3, <2>4, <2>5
<1> QED  BY <1>1, Inductive, PTL DEF Spec, NoSilentEviction

(* UsefulNewPeer, which never unfolds a bucket, foretells whether addPeer  *)
(* would find a place.  The hard case is a full last bucket: unfolding it  *)
(* makes room for p exactly if some peer in it has another prefix length.  *)
THEOREM ProbesAreWorthwhile == Spec => []UsefulMeansAddable
<1>1. IInv => UsefulMeansAddable
  <2> SUFFICES ASSUME IInv, NEW p \in Peer \ Table
               PROVE  UsefulNewPeer(p) <=> (HasRoom(p) \/ CanReplace(p))
    BY DEF UsefulMeansAddable
  <2> DEFINE h == BucketIdForPeer(buckets, p)
             b == buckets[h]
  <2>1. p \notin b
    BY KnownPeersInTable DEF IInv, InTable
  <2>2. CASE ~ (h = last /\ Full(buckets[last]))
    <3>1. HomeOf(p) = b
      BY <2>2 DEF HomeOf, Candidate
    <3>2. h = last => ~ Full(b)
      BY <2>2
    <3> HIDE DEF b, h
    <3>3. UsefulNewPeer(p) <=> (~ Full(b) \/ b \cap replaceable # {})
      BY <2>1, <3>2 DEF UsefulNewPeer, b, h
    <3> QED  BY <3>1, <3>3 DEF HasRoom, CanReplace
  <2>3. CASE h = last /\ Full(buckets[last])
    <3>1. UsefulNewPeer(p) <=> (b \cap replaceable # {} \/ \E q \in b : CPL[q] # CPL[p])
      BY <2>1, <2>3 DEF UsefulNewPeer
    <3>2. /\ InOrder(buckets) /\ Members(buckets) = Table
          /\ K!Kin(p) \subseteq b
          /\ IsFiniteSet(b) /\ Cardinality(b) \in Nat /\ Cardinality(b) <= BucketSize
      BY KinAtHome DEF IInv, Table, K!Kin
    <3>3. b \subseteq Table
      <4>1. h \in DOMAIN buckets
        BY <3>2, BucketId, LayoutDomain, TableAssumption DEF InOrder, Known
      <4> QED  BY <4>1 DEF Table, Members
    <3> HIDE DEF b, h
    <3>4. CASE \E q \in b : CPL[q] # CPL[p]
      <4>1. PICK q \in b : CPL[q] # CPL[p]
        BY <3>4
      <4>2. q \notin K!Kin(p)
        BY <4>1 DEF K!Kin
      <4>3. Cardinality(K!Kin(p)) # BucketSize
        <5>1. K!Kin(p) \subseteq b \ {q}
          BY <3>2, <4>2
        <5>2. Cardinality(b \ {q}) = Cardinality(b) - 1 /\ IsFiniteSet(b \ {q})
          BY <3>2, <4>1, FS_RemoveElement
        <5>3. Cardinality(K!Kin(p)) <= Cardinality(b \ {q}) /\ IsFiniteSet(K!Kin(p))
          BY <5>1, <5>2, FS_Subset
        <5>4. Cardinality(K!Kin(p)) \in Nat /\ BucketSize \in Nat
          BY <5>3, FS_CardinalityType, LayoutAssumption
        <5> QED  BY <5>2, <5>3, <5>4, <3>2
      <4>4. HasRoom(p)
        BY <4>3, FullOfKin
      <4> QED  BY <3>1, <3>4, <4>4
    <3>5. CASE \A q \in b : CPL[q] = CPL[p]
      <4>1. K!Kin(p) = b
        BY <3>2, <3>3, <3>5 DEF K!Kin
      <4>2. ~ HasRoom(p)
        <5>1. Cardinality(b) >= BucketSize
          BY <2>3 DEF Full, b, h
        <5> QED  BY <3>2, <4>1, <5>1, RoomForKin, LayoutAssumption
      <4>3. HomeOf(p) = b
        BY <4>1, <4>2, FullOfKin
      <4> QED  BY <3>1, <3>5, <4>2, <4>3 DEF CanReplace
    <3> QED  BY <3>4, <3>5
  <2> QED  BY <2>2, <2>3
<1> QED  BY <1>1, Inductive, PTL

-----------------------------------------------------------------------------
(* Answers from the table.  A key differs from ours for the first time     *)
(* behind its common prefix, so a peer and a target share at least the     *)
(* shorter of the prefixes they share with us: a peer's bucket tells how   *)
(* far from the target it is.  From the invariant of the table only the    *)
(* placement of peers is needed.                                           *)

(* Bits: n is the length of the common prefix of a and b.                  *)
LEMMA XorBits ==
  ASSUME NEW a \in Key, NEW b \in Key
  PROVE  /\ Xor(a, b) \in Key
         /\ \A i \in 1..KeyBits : i \in Xor(a, b) <=> (i \in a <=> i \notin b)
BY DEF Xor, Key

LEMMA ZeroBits ==
  ASSUME NEW k \in Key
  PROVE  LET n == ZeroPrefixLen(k) IN
         /\ n \in 0..KeyBits
         /\ \A i \in k : n < i
         /\ n < KeyBits => n + 1 \in k
<1>1. KeyBits \in Nat /\ k \subseteq 1..KeyBits
  BY FindNodeAssumption DEF Key
<1>2. CASE k = {}
  BY <1>1, <1>2 DEF ZeroPrefixLen
<1>3. CASE k # {}
  <2>1. k \in SUBSET Nat
    BY <1>1
  <2>2. PICK m \in k : \A j \in k : m <= j
    BY <2>1, <1>3, SmallestExists
  <2> DEFINE c == CHOOSE i \in k : \A j \in k : i <= j
  <2>3. c \in k /\ \A j \in k : c <= j
    BY <2>2
  <2>4. ZeroPrefixLen(k) = c - 1
    BY <1>3 DEF ZeroPrefixLen
  <2> HIDE DEF c
  <2>5. c \in 1..KeyBits /\ \A j \in k : j \in 1..KeyBits
    BY <2>3, <1>1
  <2> QED  BY <2>3, <2>4, <2>5, <1>1
<1> QED  BY <1>2, <1>3

LEMMA CommonBits ==
  ASSUME NEW a \in Key, NEW b \in Key
  PROVE  LET n == CommonPrefixLen(a, b) IN
         /\ n \in 0..KeyBits
         /\ \A i \in 1..KeyBits : i <= n => (i \in a <=> i \in b)
         /\ n < KeyBits => (n + 1 \in a <=> n + 1 \notin b)
<1> DEFINE n == CommonPrefixLen(a, b)
<1>1. KeyBits \in Nat
  BY FindNodeAssumption
<1>2. /\ n \in 0..KeyBits
      /\ \A i \in Xor(a, b) : n < i
      /\ n < KeyBits => n + 1 \in Xor(a, b)
  BY XorBits, ZeroBits DEF CommonPrefixLen
<1> HIDE DEF n
<1>3. \A i \in 1..KeyBits : i <= n => i \notin Xor(a, b)
  BY <1>2, <1>1
<1>4. n < KeyBits => n + 1 \in 1..KeyBits
  BY <1>2, <1>1
<1>5. n < KeyBits => (n + 1 \in a <=> n + 1 \notin b)
  BY <1>2, <1>4, XorBits
<1> QED  BY <1>2, <1>3, <1>5, XorBits DEF n

(* The first difference determines the common prefix.                      *)
LEMMA FirstDifference ==
  ASSUME NEW a \in Key, NEW b \in Key, NEW n \in Nat, n < KeyBits,
         \A i \in 1..KeyBits : i <= n => (i \in a <=> i \in b),
         n + 1 \in a <=> n + 1 \notin b
  PROVE  CommonPrefixLen(a, b) = n
<1> DEFINE m == CommonPrefixLen(a, b)
<1>1. KeyBits \in Nat
  BY FindNodeAssumption
<1>2. /\ m \in 0..KeyBits
      /\ \A i \in 1..KeyBits : i <= m => (i \in a <=> i \in b)
      /\ m < KeyBits => (m + 1 \in a <=> m + 1 \notin b)
  BY CommonBits
<1> HIDE DEF m
<1>3. ~ (m < n)
  <2> SUFFICES ASSUME m < n PROVE FALSE
    OBVIOUS
  <2>1. m + 1 \in 1..KeyBits /\ m + 1 <= n /\ m < KeyBits
    BY <1>1, <1>2
  <2> QED  BY <2>1, <1>2
<1>4. ~ (n < m)
  <2> SUFFICES ASSUME n < m PROVE FALSE
    OBVIOUS
  <2>1. n + 1 \in 1..KeyBits /\ n + 1 <= m
    BY <1>1, <1>2
  <2> QED  BY <2>1, <1>2
<1> QED  BY <1>1, <1>2, <1>3, <1>4 DEF m

-----------------------------------------------------------------------------
(* The distance a longer common prefix leaves is the smaller one, and of   *)
(* two distances at most one is smaller.                                   *)
LEMMA LongerPrefixLess ==
  ASSUME NEW a \in Key, NEW b \in Key, ZeroPrefixLen(b) < ZeroPrefixLen(a)
  PROVE  Less(a, b)
<1> DEFINE m == ZeroPrefixLen(b)
           n == ZeroPrefixLen(a)
<1>1. KeyBits \in Nat /\ a \subseteq 1..KeyBits /\ b \subseteq 1..KeyBits
  BY FindNodeAssumption DEF Key
<1>2. /\ m \in 0..KeyBits /\ n \in 0..KeyBits /\ m < n
      /\ \A i \in b : m < i
      /\ \A i \in a : n < i
      /\ m < KeyBits => m + 1 \in b
  BY ZeroBits
<1> HIDE DEF m, n
<1>3. m + 1 \in b /\ m + 1 \notin a
  BY <1>1, <1>2
<1>4. \A j \in Xor(a, b) : m + 1 <= j
  BY <1>1, <1>2 DEF Xor
<1> QED  BY <1>3, <1>4 DEF Less

LEMMA LessAsymmetric ==
  ASSUME NEW a \in Key, NEW b \in Key, Less(a, b)
  PROVE  ~ Less(b, a)
<1>1. a \subseteq 1..KeyBits /\ b \subseteq 1..KeyBits
  BY DEF Key
<1>2. PICK i \in b \ a : \A j \in Xor(a, b) : i <= j
  BY DEF Less
<1>3. SUFFICES ASSUME NEW k \in a \ b, \A j \in Xor(b, a) : k <= j PROVE FALSE
  BY DEF Less
<1>4. i \in Xor(b, a) /\ k \in Xor(a, b)
  BY DEF Xor
<1>5. i \in Int /\ k \in Int /\ i <= k /\ k <= i
  BY <1>1, <1>2, <1>3, <1>4
<1> QED  BY <1>5

PrefixTo(p, t) == CommonPrefixLen(KeyOf[p], t)

LEMMA KeysOfPeers ==
  ASSUME NEW p \in Peer
  PROVE  KeyOf[p] \in Key /\ CPL[p] = CommonPrefixLen(KeyOf[p], Local) /\ Local \in Key
BY FindNodeAssumption

LEMMA LongerPrefixCloser ==
  ASSUME NEW t \in Key, NEW p \in Peer, NEW q \in Peer, PrefixTo(q, t) < PrefixTo(p, t)
  PROVE  Closer(p, q, t)
<1>1. Xor(KeyOf[p], t) \in Key /\ Xor(KeyOf[q], t) \in Key
  BY KeysOfPeers, XorBits
<1> QED  BY <1>1, LongerPrefixLess DEF PrefixTo, CommonPrefixLen, Closer

LEMMA CloserAsymmetric ==
  ASSUME NEW t \in Key, NEW p \in Peer, NEW q \in Peer, Closer(p, q, t)
  PROVE  ~ Closer(q, p, t)
<1>1. Xor(KeyOf[p], t) \in Key /\ Xor(KeyOf[q], t) \in Key
  BY KeysOfPeers, XorBits
<1> QED  BY <1>1, LessAsymmetric DEF Closer

(* What p shares with t, from what each of them shares with us.            *)
LEMMA PrefixToTarget ==
  ASSUME NEW t \in Key, NEW p \in Peer
  PROVE  LET c == CPL[p]
             x == CommonPrefixLen(t, Local)
             y == PrefixTo(p, t)
         IN /\ c \in 0..KeyBits /\ x \in 0..KeyBits /\ y \in 0..KeyBits
            /\ c < x => y = c
            /\ x < c => y = x
            /\ c = x => x <= y
            /\ c = x /\ x < KeyBits => x < y
<1> DEFINE k == KeyOf[p]
           c == CPL[p]
           x == CommonPrefixLen(t, Local)
           y == PrefixTo(p, t)
<1>1. KeyBits \in Nat /\ k \in Key /\ Local \in Key
  BY KeysOfPeers, FindNodeAssumption
<1>2. /\ c \in 0..KeyBits
      /\ \A i \in 1..KeyBits : i <= c => (i \in k <=> i \in Local)
      /\ c < KeyBits => (c + 1 \in k <=> c + 1 \notin Local)
  BY <1>1, KeysOfPeers, CommonBits
<1>3. /\ x \in 0..KeyBits
      /\ \A i \in 1..KeyBits : i <= x => (i \in t <=> i \in Local)
      /\ x < KeyBits => (x + 1 \in t <=> x + 1 \notin Local)
  BY <1>1, CommonBits
<1>4. /\ y \in 0..KeyBits
      /\ \A i \in 1..KeyBits : i <= y => (i \in k <=> i \in t)
      /\ y < KeyBits => (y + 1 \in k <=> y + 1 \notin t)
  BY <1>1, CommonBits DEF PrefixTo
<1> DEFINE Differ(n) == /\ \A i \in 1..KeyBits : i <= n => (i \in k <=> i \in t)
                        /\ n + 1 \in k <=> n + 1 \notin t
<1>5. \A n \in Nat : n < KeyBits /\ Differ(n) => y = n
  BY <1>1, FirstDifference DEF PrefixTo
<1> HIDE DEF k, c, x, y
<1>6. c < x => y = c
  <2> SUFFICES ASSUME c < x PROVE Differ(c) /\ c \in Nat /\ c < KeyBits
    BY <1>5
  <2>1. c \in Nat /\ c < KeyBits /\ c + 1 \in 1..KeyBits /\ c + 1 <= x
    BY <1>1, <1>2, <1>3
  <2>2. \A i \in 1..KeyBits : i <= c => i <= x
    BY <2>1, <1>3
  <2> QED  BY <2>1, <2>2, <1>2, <1>3
<1>7. x < c => y = x
  <2> SUFFICES ASSUME x < c PROVE Differ(x) /\ x \in Nat /\ x < KeyBits
    BY <1>5
  <2>1. x \in Nat /\ x < KeyBits /\ x + 1 \in 1..KeyBits /\ x + 1 <= c
    BY <1>1, <1>2, <1>3
  <2>2. \A i \in 1..KeyBits : i <= x => i <= c
    BY <2>1, <1>2
  <2> QED  BY <2>1, <2>2, <1>2, <1>3
<1>8. c = x => x <= y
  <2> SUFFICES ASSUME c = x, y < x PROVE FALSE
    BY <1>1, <1>3, <1>4
  <2>1. y + 1 \in 1..KeyBits /\ y + 1 <= x /\ y < KeyBits
    BY <1>1, <1>3, <1>4
  <2> QED  BY <2>1, <1>2, <1>3, <1>4
<1>9. c = x /\ x < KeyBits => x < y
  <2> SUFFICES ASSUME c = x, x < KeyBits, y = x PROVE FALSE
    BY <1>1, <1>3, <1>4, <1>8
  <2>1. x + 1 \in 1..KeyBits
    BY <1>1, <1>3
  <2> QED  BY <2>1, <1>2, <1>3, <1>4
<1> QED  BY <1>2, <1>3, <1>4, <1>6, <1>7, <1>8, <1>9 DEF k, c, x, y

-----------------------------------------------------------------------------
(* Where a peer is in the table bounds what it shares with the target: a   *)
(* peer left of the target's home shares its bucket's index, one further   *)
(* right at least the home's, and within the home more than those right of *)
(* it.  So buckets are nearer the further right they are up to the home.   *)
LEMMA HomeInTable ==
  ASSUME InOrder(buckets), NEW t \in Key
  PROVE  /\ last \in 0..MaxCPL + 1
         /\ buckets \in [0..last -> SUBSET Peer]
         /\ Table = Between(0, last)
         /\ Home(t) \in 0..last
         /\ Home(t) <= CommonPrefixLen(t, Local)
         /\ Home(t) < last => Home(t) = CommonPrefixLen(t, Local)
<1>1. last \in 0..MaxCPL + 1 /\ buckets \in [0..last -> SUBSET Peer]
  BY LayoutDomain, TableAssumption DEF InOrder, last, Known
<1>2. MaxCPL \in Nat /\ CommonPrefixLen(t, Local) \in Nat
  BY LayoutAssumption, FindNodeAssumption, CommonBits
<1>3. Table = Between(0, last)
  BY <1>1 DEF Table, Members, Between
<1> QED  BY <1>1, <1>2, <1>3 DEF Home

LEMMA SharedInBucket ==
  ASSUME InOrder(buckets), NEW i \in 0..last, NEW p \in buckets[i]
  PROVE  /\ p \in Peer
         /\ CPL[p] \in 0..KeyBits
         /\ IF i < last THEN CPL[p] = i ELSE CPL[p] >= last
<1>1. buckets \in [0..last -> SUBSET Peer]
  BY LayoutDomain, TableAssumption DEF InOrder, last, Known
<1>2. p \in Peer
  BY <1>1
<1> QED  BY <1>1, <1>2, LayoutAssumption, TableAssumption, FindNodeAssumption
         DEF InOrder, Placed, last

LEMMA BucketsCloser ==
  ASSUME InOrder(buckets), NEW t \in Key,
         NEW i \in 0..last, NEW j \in 0..last,
         NEW p \in buckets[i], NEW q \in buckets[j],
         \/ j < Home(t) /\ j < i
         \/ i = Home(t) /\ Home(t) < j
  PROVE  Closer(p, q, t)
<1> DEFINE h == Home(t)
           x == CommonPrefixLen(t, Local)
           y == PrefixTo(p, t)
           z == PrefixTo(q, t)
<1>1. /\ last \in Nat /\ h \in 0..last /\ h <= x
      /\ h < last => h = x
  BY HomeInTable, LayoutAssumption
<1>2. /\ p \in Peer /\ CPL[p] \in 0..KeyBits
      /\ IF i < last THEN CPL[p] = i ELSE CPL[p] >= last
  BY SharedInBucket
<1>3. /\ q \in Peer /\ CPL[q] \in 0..KeyBits
      /\ IF j < last THEN CPL[q] = j ELSE CPL[q] >= last
  BY SharedInBucket
<1>4. /\ x \in 0..KeyBits /\ y \in 0..KeyBits
      /\ CPL[p] < x => y = CPL[p]
      /\ x < CPL[p] => y = x
      /\ CPL[p] = x => x <= y
      /\ CPL[p] = x /\ x < KeyBits => x < y
  BY <1>2, PrefixToTarget
<1>5. /\ z \in 0..KeyBits
      /\ CPL[q] < x => z = CPL[q]
      /\ x < CPL[q] => z = x
  BY <1>3, PrefixToTarget
<1>6. KeyBits \in Nat /\ ((j < h /\ j < i) \/ (i = h /\ h < j))
  BY FindNodeAssumption
<1> HIDE DEF h, x, y, z
<1>7. CASE j < h /\ j < i
  <2>1. z = j
    BY <1>1, <1>3, <1>4, <1>5, <1>7
  <2>2. j < y
    BY <1>1, <1>2, <1>4, <1>7
  <2> QED  BY <2>1, <2>2, <1>2, <1>3, LongerPrefixCloser DEF y, z
<1>8. CASE i = h /\ h < j
  <2>1. h = x /\ CPL[p] = x /\ x < CPL[q]
    BY <1>1, <1>2, <1>3, <1>8
  <2>2. z = x /\ x < y
    BY <2>1, <1>3, <1>4, <1>5, <1>6
  <2> QED  BY <2>2, <1>2, <1>3, LongerPrefixCloser DEF y, z
<1> QED  BY <1>6, <1>7, <1>8

-----------------------------------------------------------------------------
(* Peers that are closer than the rest of the table, and enough of them,   *)
(* are as good as the whole table.                                         *)
LEMMA ClosestAmong ==
  ASSUME InOrder(buckets), NEW t \in Key, NEW count \in Nat,
         NEW C \in SUBSET Table,
         \A p \in C, q \in Table \ C : Closer(p, q, t),
         Cardinality(C) >= count \/ C = Table
  PROVE  {p \in C : Rank(p, C, t) < count} = {p \in Table : Rank(p, Table, t) < count}
<1>1. Table \subseteq Peer /\ IsFiniteSet(Table)
  BY TableOfPeers
<1>2. ASSUME NEW p \in C  PROVE Rank(p, C, t) = Rank(p, Table, t)
  <2>1. \A q \in Table \ C : ~ Closer(q, p, t)
    BY <1>1, CloserAsymmetric
  <2>2. {q \in C : Closer(q, p, t)} = {q \in Table : Closer(q, p, t)}
    BY <2>1
  <2> QED  BY <2>2 DEF Rank
<1>3. ASSUME NEW p \in Table \ C  PROVE ~ (Rank(p, Table, t) < count)
  <2> DEFINE S == {q \in Table : Closer(q, p, t)}
  <2>1. C \subseteq S /\ S \subseteq Table
    OBVIOUS
  <2> HIDE DEF S
  <2>2. IsFiniteSet(S)
    BY <1>1, <2>1, FS_Subset
  <2>3. Cardinality(C) <= Cardinality(S)
    BY <2>1, <2>2, FS_Subset
  <2>4. Cardinality(C) \in Nat /\ Cardinality(S) \in Nat
    BY <1>1, <2>2, FS_Subset, FS_CardinalityType
  <2>5. Cardinality(C) >= count
    BY <1>3
  <2> QED  BY <2>3, <2>4, <2>5 DEF Rank, S
<1> QED  BY <1>2, <1>3

LEMMA MorePeers ==
  ASSUME InOrder(buckets), NEW T \in SUBSET Table, NEW S \in SUBSET T
  PROVE  /\ Cardinality(S) \in Nat
         /\ Cardinality(T) \in Nat
         /\ Cardinality(S) <= Cardinality(T)
BY TableOfPeers, FS_Subset, FS_CardinalityType

(* The buckets that NearestPeers looks into hold such peers.               *)
LEMMA EnoughCollected ==
  ASSUME InOrder(buckets), NEW t \in Key, NEW count \in Nat
  PROVE  LET C == Collected(t, count) IN
         /\ C \in SUBSET Table
         /\ \A p \in C, q \in Table \ C : Closer(p, q, t)
         /\ Cardinality(C) >= count \/ C = Table
<1> DEFINE h == Home(t)
           near == NearSide(t, count)
           Near(k) == near \cup Between(k + 1, h - 1)
           J == {k \in 0..h - 1 : Cardinality(Near(k)) < count}
           C == Collected(t, count)
<1>1. /\ last \in Nat /\ h \in 0..last
      /\ buckets \in [0..last -> SUBSET Peer]
      /\ Table = Between(0, last)
  BY HomeInTable, LayoutAssumption
<1>2. C = near \cup UNION {buckets[j] : j \in J}
  BY DEF Collected
<1>3. near = IF Cardinality(buckets[h]) < count THEN Between(h, last) ELSE buckets[h]
  BY DEF NearSide
<1>4. \A i, j, p, q : /\ i \in 0..last /\ j \in 0..last
                      /\ p \in buckets[i] /\ q \in buckets[j]
                      /\ (j < h /\ j < i) \/ (i = h /\ h < j)
                      => Closer(p, q, t)
  BY BucketsCloser
<1> HIDE DEF h, near, C
<1>5. buckets[h] \in SUBSET Table
  BY <1>1 DEF Between
<1>6. near \in SUBSET Table
  BY <1>1, <1>3, <1>5 DEF Between
<1>7. \A k \in Nat : Near(k) \in SUBSET Table
  BY <1>1, <1>6 DEF Between
<1> HIDE DEF J
<1>8. J \in SUBSET (0..h - 1)
  BY DEF J
<1>9. CASE ~ (Cardinality(buckets[h]) < count)
  <2>1. near = buckets[h]
    BY <1>3, <1>9
  <2>2. J = {}
    <3>1. SUFFICES ASSUME NEW k \in 0..h - 1, Cardinality(Near(k)) < count PROVE FALSE
      BY DEF J
    <3>2. Near(k) \in SUBSET Table /\ buckets[h] \in SUBSET Near(k)
      BY <1>7, <2>1
    <3> HIDE DEF Near
    <3> QED  BY <3>1, <3>2, <1>9, MorePeers
  <2>3. C = buckets[h]
    BY <1>2, <2>1, <2>2
  <2>4. ASSUME NEW p \in buckets[h], NEW q \in Table \ buckets[h]  PROVE Closer(p, q, t)
    <3>1. PICK j \in 0..last : q \in buckets[j]
      BY <1>1 DEF Between
    <3>2. j # h
      BY <3>1
    <3>3. j < h \/ h < j
      BY <3>2, <1>1
    <3> QED  BY <3>1, <3>3, <1>1, <1>4
  <2>5. Cardinality(buckets[h]) \in Nat
    BY <1>5, MorePeers
  <2> QED  BY <2>3, <2>4, <2>5, <1>5, <1>9 DEF C
<1>10. CASE Cardinality(buckets[h]) < count
  <2>1. near = Between(h, last)
    BY <1>3, <1>10
  <2>2. C \in SUBSET Table
    <3>1. \A j \in J : buckets[j] \in SUBSET Table
      BY <1>1, <1>8 DEF Between
    <3> QED  BY <3>1, <1>2, <1>6
  <2>3. ASSUME NEW k \in J, NEW m \in 0..h - 1, k <= m  PROVE m \in J
    <3>1. Near(m) \in SUBSET Near(k) /\ Near(k) \in SUBSET Table
      BY <1>1, <1>7, <1>8, <2>3 DEF Between
    <3>2. Cardinality(Near(k)) < count
      BY DEF J
    <3> HIDE DEF Near
    <3>3. Cardinality(Near(m)) < count
      BY <3>1, <3>2, MorePeers
    <3> QED  BY <3>3 DEF J
  <2>4. ASSUME NEW p \in C, NEW q \in Table \ C  PROVE Closer(p, q, t)
    <3>1. PICK j \in 0..last : q \in buckets[j]
      BY <1>1 DEF Between
    <3>2. j < h /\ j \notin J
      BY <3>1, <1>1, <1>2, <2>1 DEF Between
    <3>3. PICK i \in 0..last : p \in buckets[i] /\ (i >= h \/ i \in J)
      <4>1. CASE p \in near
        BY <4>1, <2>1, <1>1 DEF Between
      <4>2. CASE p \notin near
        BY <4>2, <1>1, <1>2, <1>8
      <4> QED  BY <4>1, <4>2
    <3>4. j < i
      <4>1. CASE i >= h
        BY <4>1, <3>2, <1>1
      <4>2. CASE i \in J
        <5>1. SUFFICES ASSUME i <= j PROVE FALSE
          BY <1>1
        <5>2. j \in 0..h - 1
          BY <3>2, <1>1
        <5> QED  BY <4>2, <5>1, <5>2, <2>3, <3>2
      <4> QED  BY <4>1, <4>2, <3>3
    <3> QED  BY <1>4, <3>1, <3>2, <3>3, <3>4
  <2>5. Cardinality(C) >= count \/ C = Table
    <3>1. CASE (0..h - 1) \ J = {}
      <4>1. ASSUME NEW q \in Table  PROVE q \in C
        <5>1. PICK j \in 0..last : q \in buckets[j]
          BY <1>1 DEF Between
        <5>2. j >= h \/ j \in J
          BY <3>1, <1>1
        <5> QED  BY <5>1, <5>2, <1>1, <1>2, <2>1 DEF Between
      <4> QED  BY <4>1, <2>2
    <3>2. CASE (0..h - 1) \ J # {}
      <4> DEFINE Left == (0..h - 1) \ J
      <4>1. Left \in SUBSET (0..last) /\ Left # {}
        BY <3>2, <1>1
      <4> HIDE DEF Left
      <4>2. PICK m \in Left : \A k \in Left : k <= m
        BY <4>1, <1>1, LargestOfBounded
      <4>3. m \in 0..h - 1 /\ ~ (Cardinality(Near(m)) < count)
        BY <4>2 DEF Left, J
      <4>4. \A k \in m + 1 .. h - 1 : k \in J
        <5>1. SUFFICES ASSUME NEW k \in m + 1 .. h - 1, k \notin J PROVE FALSE
          OBVIOUS
        <5>2. k \in Left /\ ~ (k <= m)
          BY <5>1, <4>3, <1>1 DEF Left
        <5> QED  BY <5>2, <4>2
      <4>5. Near(m) \in SUBSET C
        BY <4>3, <4>4, <1>1, <1>2 DEF Between
      <4> HIDE DEF Near
      <4> QED  BY <4>3, <4>5, <2>2, MorePeers
    <3> QED  BY <3>1, <3>2
  <2> QED  BY <2>2, <2>4, <2>5 DEF C
<1> QED  BY <1>9, <1>10

LEMMA NearestOfTable ==
  ASSUME InOrder(buckets), NEW t \in Key, NEW count \in Nat
  PROVE  NearestPeers(t, count) = {p \in Table : Rank(p, Table, t) < count}
<1> DEFINE C == Collected(t, count)
<1>1. /\ C \in SUBSET Table
      /\ \A p \in C, q \in Table \ C : Closer(p, q, t)
      /\ Cardinality(C) >= count \/ C = Table
  BY EnoughCollected
<1>2. NearestPeers(t, count) = {p \in C : Rank(p, C, t) < count}
  BY DEF NearestPeers
<1> HIDE DEF C
<1> QED  BY <1>1, <1>2, ClosestAmong

(* However far the table is unfolded, the peers that NearestPeers returns  *)
(* for any key are those of the whole table that are closest to it, and    *)
(* Find finds a peer exactly if it is in the table: stopping at the first  *)
(* buckets with enough peers (table.go) misses nobody.                     *)
THEOREM NearestAreClosest == Spec => []NearestIsClosest
<1>1. IInv => NearestIsClosest
  <2> SUFFICES ASSUME IInv PROVE NearestIsClosest
    OBVIOUS
  <2>1. InOrder(buckets) /\ BucketSize \in Nat /\ 1 \in Nat
    BY LayoutAssumption DEF IInv
  <2>2. ASSUME NEW t \in Target, NEW count \in {1, BucketSize}
        PROVE  NearestPeers(t, count) = {p \in Table : Rank(p, Table, t) < count}
    BY <2>1, FindNodeAssumption, NearestOfTable
  <2>3. ASSUME NEW p \in Peer  PROVE Find(p) = {p} \cap Table
    <3>1. NearestPeers(KeyOf[p], 1) = {q \in Table : Rank(q, Table, KeyOf[p]) < 1}
      BY <2>1, KeysOfPeers, NearestOfTable
    <3>2. {q \in Table : Closer(q, p, KeyOf[p])} = {}
      BY DEF Closer, Less, Xor
    <3>3. Rank(p, Table, KeyOf[p]) = 0
      BY <3>2, FS_EmptySet DEF Rank
    <3> QED  BY <3>1, <3>3 DEF Find
  <2> QED  BY <2>2, <2>3 DEF NearestIsClosest
<1> QED  BY <1>1, Inductive, PTL

(* A peer that sends FIND_NODE is told of the nearest peers it can use, of *)
(* the target if its address is known, and never of itself, whatever the   *)
(* table and the address book hold (handlers.go, dht.go).                  *)
THEOREM RepliesAreNearest == Spec => []ReplyIsNearest
<1>1. IInv => ReplyIsNearest
  <2> SUFFICES ASSUME IInv, NEW target \in Peer, NEW from \in Peer, NEW located \in Located
               PROVE  LET reply == FindPeerReply(target, from, located) IN
                      /\ reply \subseteq located \ {from}
                      /\ target \in located \ {from} => target \in reply
                      /\ \A p \in (Table \cap located) \ (reply \cup {from}) :
                           Rank(p, Table, KeyOf[target]) >= BucketSize
    BY DEF ReplyIsNearest
  <2> DEFINE nearest == NearestPeers(KeyOf[target], BucketSize)
             reply == FindPeerReply(target, from, located)
  <2>1. InOrder(buckets) /\ BucketSize \in Nat
    BY LayoutAssumption DEF IInv
  <2>2. nearest = {p \in Table : Rank(p, Table, KeyOf[target]) < BucketSize}
    BY <2>1, KeysOfPeers, NearestOfTable
  <2>3. reply = ((nearest \ {from}) \cup ({target} \ {from})) \cap located
    BY FindNodeAssumption DEF FindPeerReply, BetterPeersToQuery
  <2> HIDE DEF nearest, reply
  <2>4. ASSUME NEW p \in (Table \cap located) \ (reply \cup {from})
        PROVE  Rank(p, Table, KeyOf[target]) >= BucketSize
    <3>1. ~ (Rank(p, Table, KeyOf[target]) < BucketSize)
      BY <2>2, <2>3
    <3>2. Rank(p, Table, KeyOf[target]) \in Nat
      <4>1. {q \in Table : Closer(q, p, KeyOf[target])} \in SUBSET Table
        OBVIOUS
      <4> QED  BY <4>1, <2>1, MorePeers DEF Rank
    <3> QED  BY <2>1, <3>1, <3>2
  <2> QED  BY <2>3, <2>4 DEF reply
<1> QED  BY <1>1, Inductive, PTL

-----------------------------------------------------------------------------
(* A key made by flipping one bit of ours shares the bits before it.       *)
LEMMA BesideShares ==
  ASSUME NEW cpl \in Nat, cpl < KeyBits, NEW random \in Key,
         NEW rest \in SUBSET (cpl + 2 .. KeyBits)
  PROVE  CommonPrefixLen(Beside(cpl, random) \cup rest, Local) = cpl
<1> DEFINE k == Beside(cpl, random) \cup rest
<1>1. KeyBits \in Nat /\ Local \subseteq 1..KeyBits /\ random \subseteq 1..KeyBits
  BY FindNodeAssumption DEF Key
<1>2. k \in Key
  BY <1>1 DEF Beside, Xor, Key
<1>3. \A i \in 1..KeyBits : i <= cpl => (i \in k <=> i \in Local)
  BY <1>1 DEF Beside, Xor
<1>4. cpl + 1 \in k <=> cpl + 1 \notin Local
  BY <1>1 DEF Beside, Xor
<1> HIDE DEF k
<1>5. CommonPrefixLen(k, Local) = cpl
  BY <1>2, <1>3, <1>4, FindNodeAssumption, FirstDifference
<1> QED  BY <1>5 DEF k

(* The longest prefix of the table, found in the last bucket with peers.   *)
LEMMA LongestPrefix ==
  ASSUME InOrder(buckets)
  PROVE  /\ MaxCommonPrefix \in Nat
         /\ \A p \in Table : CPL[p] <= MaxCommonPrefix
<1> DEFINE nonEmpty == {i \in 0..last : buckets[i] # {}}
           top == Largest(nonEmpty)
           prefixes == {CPL[p] : p \in buckets[top]}
<1>1. last \in Nat /\ KeyBits \in Nat /\ Table = UNION {buckets[i] : i \in 0..last}
  BY LayoutDomain, LayoutAssumption, FindNodeAssumption DEF InOrder, last, Table, Members
<1>2. CASE nonEmpty = {}
  <2>1. Table = {}
    BY <1>1, <1>2
  <2> QED  BY <2>1, <1>2 DEF MaxCommonPrefix
<1>3. CASE nonEmpty # {}
  <2>1. MaxCommonPrefix = Largest(prefixes)
    BY <1>3 DEF MaxCommonPrefix
  <2>2. nonEmpty \in SUBSET (0..last)
    OBVIOUS
  <2> HIDE DEF nonEmpty
  <2>3. top \in nonEmpty /\ \A i \in nonEmpty : i <= top
    BY <2>2, <1>1, <1>3, LargestOfBounded
  <2> HIDE DEF top
  <2>4. top \in 0..last /\ buckets[top] # {}
    BY <2>3 DEF nonEmpty
  <2>5. \A q \in buckets[top] : /\ CPL[q] \in 0..KeyBits
                                /\ IF top < last THEN CPL[q] = top ELSE CPL[q] >= last
    BY <2>4, SharedInBucket
  <2>6. prefixes \in SUBSET (0..KeyBits) /\ prefixes # {}
    BY <2>4, <2>5
  <2>7. \A q \in buckets[top] : CPL[q] \in prefixes
    OBVIOUS
  <2> HIDE DEF prefixes
  <2>8. Largest(prefixes) \in prefixes /\ \A c \in prefixes : c <= Largest(prefixes)
    BY <2>6, <1>1, LargestOfBounded
  <2>9. Largest(prefixes) \in 0..KeyBits
    BY <2>6, <2>8
  <2>10. ASSUME NEW p \in Table  PROVE CPL[p] <= Largest(prefixes)
    <3>1. PICK i \in 0..last : p \in buckets[i]
      BY <1>1
    <3>2. i <= top
      BY <3>1, <2>3 DEF nonEmpty
    <3>3. CASE i = top
      BY <3>1, <3>3, <2>7, <2>8
    <3>4. CASE i < top
      <4>1. CPL[p] = i
        BY <3>1, <3>4, <2>4, <1>1, SharedInBucket
      <4>2. PICK q \in buckets[top] : TRUE
        BY <2>4
      <4>3. CPL[q] \in 0..KeyBits /\ CPL[q] >= top /\ CPL[q] <= Largest(prefixes)
        BY <4>2, <2>4, <2>5, <2>7, <2>8, <1>1
      <4> QED  BY <4>1, <4>3, <3>4, <2>4, <2>9, <1>1
    <3> QED  BY <3>2, <3>3, <3>4, <2>4, <1>1
  <2> QED  BY <2>1, <2>9, <2>10
<1> QED  BY <1>2, <1>3

LEMMA PeersWithPrefix ==
  ASSUME InOrder(buckets), NEW c \in Nat
  PROVE  NPeersForCpl(c) = Cardinality({p \in Table : CPL[p] = c})
<1>1. last \in Nat /\ Table = UNION {buckets[i] : i \in 0..last}
  BY LayoutDomain, LayoutAssumption DEF InOrder, last, Table, Members
<1>2. \A i \in 0..last : \A p \in buckets[i] :
        CPL[p] \in Int /\ IF i < last THEN CPL[p] = i ELSE CPL[p] >= last
  BY SharedInBucket
<1>3. CASE c >= last
  <2>1. {p \in buckets[last] : CPL[p] = c} = {p \in Table : CPL[p] = c}
    BY <1>1, <1>2, <1>3
  <2> QED  BY <2>1, <1>3 DEF NPeersForCpl
<1>4. CASE ~ (c >= last)
  <2>1. buckets[c] = {p \in Table : CPL[p] = c}
    BY <1>1, <1>2, <1>4
  <2> QED  BY <2>1, <1>4 DEF NPeersForCpl
<1> QED  BY <1>3, <1>4

(* A refresh covers every prefix length that has peers and can be asked    *)
(* for, counts its peers right, and looks up a key of just that length, so *)
(* the completed lookup marks the bucket that was refreshed.               *)
THEOREM RefreshesHit == Spec => []RefreshKeysHit
<1>1. IInv => RefreshKeysHit
  <2> SUFFICES ASSUME IInv PROVE RefreshKeysHit
    OBVIOUS
  <2>1. InOrder(buckets)
    BY DEF IInv
  <2>2. KeyBits \in Nat /\ PrefixBits \in 1..KeyBits /\ MaxCplForRefresh = PrefixBits - 1
    BY FindNodeAssumption DEF MaxCplForRefresh
  <2>3. MaxCommonPrefix \in Nat /\ \A p \in Table : CPL[p] <= MaxCommonPrefix
    BY <2>1, LongestPrefix
  <2>4. ASSUME NEW p \in Table, CPL[p] <= MaxCplForRefresh  PROVE CPL[p] \in TrackedCpls
    <3>1. CPL[p] \in Nat
      BY <2>1, <2>2, TableOfPeers, LayoutAssumption, TableAssumption
    <3> QED  BY <3>1, <2>2, <2>3, <2>4 DEF TrackedCpls
  <2>5. ASSUME NEW cpl \in TrackedCpls
        PROVE  /\ NPeersForCpl(cpl) = Cardinality({p \in Table : CPL[p] = cpl})
               /\ RandomKeys(cpl) # {}
               /\ \A k \in RandomKeys(cpl) : ResetCplRefreshedAtForID(k) = {cpl}
    <3>1. cpl \in Nat /\ cpl <= MaxCplForRefresh /\ cpl < KeyBits
      BY <2>2, <2>3 DEF TrackedCpls
    <3>2. ~ (cpl > MaxCplForRefresh)
      BY <3>1, <2>2
    <3>3. RandomKeys(cpl) # {}
      <4>1. GenRandPeerID(cpl, {}, {}) \in RandomKeys(cpl)
        BY <3>2 DEF RandomKeys
      <4> QED  BY <4>1
    <3>4. ASSUME NEW k \in RandomKeys(cpl)  PROVE ResetCplRefreshedAtForID(k) = {cpl}
      <4>1. PICK random \in SUBSET (1..PrefixBits), rest \in SUBSET (PrefixBits + 1 .. KeyBits) :
              k = Beside(cpl, random) \cup rest
        BY <3>2 DEF RandomKeys, GenRandPeerID, KeyPrefixMap
      <4>2. random \in Key /\ rest \in SUBSET (cpl + 2 .. KeyBits)
        BY <2>2, <3>1 DEF Key
      <4>3. CommonPrefixLen(k, Local) = cpl
        BY <4>1, <4>2, <3>1, BesideShares
      <4> QED  BY <4>3, <3>2 DEF ResetCplRefreshedAtForID
    <3> QED  BY <3>1, <3>3, <3>4, <2>1, PeersWithPrefix
  <2>6. ASSUME NEW cpl \in 0..KeyBits, NEW k \in GenRandomKeys(cpl)
        PROVE  CommonPrefixLen(k, Local) = cpl
    <3>1. ~ (cpl + 1 >= KeyBits)
      BY DEF GenRandomKeys
    <3>2. cpl \in Nat /\ cpl < KeyBits
      BY <3>1, <2>2
    <3>3. PICK random \in Key : k = Beside(cpl, random)
      BY <3>1 DEF GenRandomKeys
    <3>4. k = Beside(cpl, random) \cup {} /\ {} \in SUBSET (cpl + 2 .. KeyBits)
      BY <3>3
    <3> QED  BY <3>2, <3>4, BesideShares
  <2> QED  BY <2>4, <2>5, <2>6 DEF RefreshKeysHit
<1> QED  BY <1>1, Inductive, PTL
=============================================================================
