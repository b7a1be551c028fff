--------------------------- MODULE MCRoutingTable ---------------------------
(***************************************************************************)
(* Instances of RoutingTable and FindNode for TLC.                         *)
(***************************************************************************)
EXTENDS FindNode, TLC

CONSTANTS p1, p2, p3, p4, p5, g1, g2, us

(* Three peers that share a prefix length do not fit in one bucket of two, *)
(* and a gap in the lengths makes an unfolding pass over a bucket that     *)
(* stays empty.                                                            *)
FivePeers == {p1, p2, p3, p4, p5}
FiveCPL   == p1 :> 0 @@ p2 :> 2 @@ p3 :> 2 @@ p4 :> 2 @@ p5 :> 3

(* A peer with an address in each group, or with two in one.               *)
TwoGroups == {g1, g2}
TwoAddrs  == {[g \in TwoGroups |-> 1], [g \in TwoGroups |-> IF g = g1 THEN 2 ELSE 0]}
MayTrust  == {p1, p2}

(* Keys of five bits with these prefixes; those asked for are ours, a      *)
(* peer's and one of nobody.                                               *)
OurKey    == {2, 4}
FiveKeys  == p1 :> {1, 4} @@ p2 :> {2, 3, 4} @@ p3 :> {2, 3} @@ p4 :> {2, 3, 5} @@ p5 :> {2, 5}
FewKeys   == {OurKey, {2, 3}, {1, 2, 3}}
SomeOnly  == {{p1, p3, p5}}
==============================================================================
