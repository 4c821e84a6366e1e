----------------------------- MODULE MCGateway -----------------------------
(* Instances of Gateway for TLC.  Requests and backends are interchangeable *)
(* (no strategy, weight or ring is modelled here), so the runs without      *)
(* liveness use symmetry in both.                                           *)
EXTENDS Gateway, TLC

Symmetry == Permutations(Requests) \cup Permutations(Backends)
=============================================================================
