------------------------------ MODULE MCLookup ------------------------------
(***************************************************************************)
(* Instances of Lookup for TLC.                                            *)
(***************************************************************************)
EXTENDS Lookup, TLC

CONSTANTS p1, p2, p3, p4

ThreePeers    == {p1, p2, p3}
ThreeDistances == p1 :> 1 @@ p2 :> 2 @@ p3 :> 3
FourPeers     == ThreePeers \cup {p4}
FourDistances == ThreeDistances @@ p4 :> 4
=============================================================================
