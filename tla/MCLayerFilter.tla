----------------------------- MODULE MCLayerFilter -----------------------------
(* Instances of LayerFilter for TLC. *)
EXTENDS LayerFilter, TLC

\* The configs are told apart only by being equal or not; for invariants, not for liveness.
ConfigSymmetry == Permutations(Configs)
=============================================================================
