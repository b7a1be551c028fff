-------------------------- MODULE MCRtMaintenance --------------------------
(***************************************************************************)
(* Instances of RtMaintenance for TLC.                                     *)
(***************************************************************************)
EXTENDS RtMaintenance, TLC

CONSTANTS p1, p2, g1, g2

TwoPeers      == {p1, p2}
OnePeer       == {p1}
TwoGoroutines == {g1, g2}
OneGoroutine  == {g1}
Symmetry      == Permutations(TwoPeers) \cup Permutations(TwoGoroutines)
=============================================================================
