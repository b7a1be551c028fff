----------------------------- MODULE MCServices -----------------------------
(***************************************************************************)
(* Services for TLC, with the constants of Services.cfg: every component   *)
(* with as few peers, streams, buffers and calls as its races take.        *)
(***************************************************************************)
EXTENDS Services
=============================================================================
