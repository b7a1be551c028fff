-------------------------- MODULE MCMessageSender --------------------------
(***************************************************************************)
(* Instances of MessageSender for TLC.  Requests are interchangeable when  *)
(* all of them may be cancelled or none may.                               *)
(***************************************************************************)
EXTENDS MessageSender, TLC

CONSTANTS r1, r2, m1

TwoAndOne    == {r1, r2, m1}
TwoRequests  == {r1, r2}
OneAndOne    == {r1, m1}
OneRequest   == {r1}
Symmetry     == Permutations(TwoRequests)
=============================================================================
