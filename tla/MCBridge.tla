------------------------------ MODULE MCBridge ------------------------------
(* Bounds for model-checking Bridge: connections are interchangeable.      *)
EXTENDS Bridge, TLC

ConnSymmetry == Permutations(Conns)
=============================================================================
