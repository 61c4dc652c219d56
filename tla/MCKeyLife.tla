------------------------------ MODULE MCKeyLife -----------------------------
(* The PCs of KeyLife are interchangeable.                                 *)
EXTENDS KeyLife, TLC

Symmetry == Permutations(Pcs)
=============================================================================
