---------------------------- MODULE MCRtRefresh ----------------------------
(***************************************************************************)
(* Instances of RtRefresh for TLC.  With MaxCpl 3, a gap at 0 ends the     *)
(* refresh at cpl 2, before the last one, and p4 is beyond the last.       *)
(***************************************************************************)
EXTENDS RtRefresh

CONSTANTS p0, p1, p4, q1, q2

Near     == {p0, p1}
NearCpl  == [p \in Near |-> IF p = p0 THEN 0 ELSE 1]
Far      == {p0, p4}
FarCpl   == [p \in Far |-> IF p = p0 THEN 0 ELSE 4]
Two      == {q1, q2}
One      == {q1}
=============================================================================
