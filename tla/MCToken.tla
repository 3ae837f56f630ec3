------------------------------ MODULE MCToken ------------------------------
(* Small instances of TokenRotation for TLC. *)
EXTENDS TokenRotation, TLC

Symmetry == Permutations(Conns)
=============================================================================
