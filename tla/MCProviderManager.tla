------------------------- MODULE MCProviderManager -------------------------
(***************************************************************************)
(* An instance of ProviderManager for TLC: one of two keys is cached at a  *)
(* time, so that loading one gives up the other.                           *)
(***************************************************************************)
EXTENDS ProviderManager

CONSTANTS k1, k2, a, b

TwoKeys      == {k1, k2}
TwoProviders == {a, b}
ThreeRecords == {<<k1, a>>, <<k1, b>>, <<k2, a>>}
=============================================================================
