------------------------------ MODULE KBuckets ------------------------------
(***************************************************************************)
(* What the routing table promises, with no buckets in sight: for every    *)
(* length of the prefix a peer's key shares with ours the table keeps at   *)
(* most BucketSize peers; a peer is taken whenever its own prefix length   *)
(* has room, and otherwise only in the place of a replaceable peer of the  *)
(* same prefix length.  That kbucket/table.go unfolds its buckets lazily   *)
(* and folds them back is invisible at this level.                         *)
(***************************************************************************)
EXTENDS Integers, FiniteSets

CONSTANTS Peer, CPL, BucketSize

VARIABLES
  members,      (* the peers in the table                                  *)
  replaceable   (* those that may be replaced by a new peer                *)

kvars == <<members, replaceable>>

Kin(p) == {q \in members : CPL[q] = CPL[p]}

KInit == members = {} /\ replaceable = {}

Join(p, isReplaceable) ==
  /\ p \in Peer \ members
  /\ Cardinality(Kin(p)) < BucketSize
  /\ members' = members \cup {p}
  /\ replaceable' = IF isReplaceable THEN replaceable \cup {p} ELSE replaceable

Replace(p, v, isReplaceable) ==
  /\ p \in Peer \ members
  /\ Cardinality(Kin(p)) = BucketSize
  /\ v \in Kin(p) \cap replaceable
  /\ members' = (members \cup {p}) \ {v}
  /\ replaceable' = (IF isReplaceable THEN replaceable \cup {p} ELSE replaceable) \ {v}

Leave(p) ==
  /\ p \in members
  /\ members' = members \ {p}
  /\ replaceable' = replaceable \ {p}

Freeze ==
  /\ replaceable' = {}
  /\ UNCHANGED members

KNext ==
  \/ \E p \in Peer, r \in BOOLEAN :
        \/ Join(p, r)
        \/ \E v \in Peer : Replace(p, v, r)
  \/ \E p \in Peer : Leave(p)
  \/ Freeze

KSpec == KInit /\ [][KNext]_kvars
==============================================================================
