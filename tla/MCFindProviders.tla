--------------------------- MODULE MCFindProviders ---------------------------
(***************************************************************************)
(* Instances of FindProviders for TLC.                                     *)
(***************************************************************************)
EXTENDS FindProviders, TLC

CONSTANTS p1, p2

Peers     == {p1, p2}
Distances == p1 :> 1 @@ p2 :> 2
=============================================================================
