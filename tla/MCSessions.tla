----------------------------- MODULE MCSessions -----------------------------
(* Symmetry for checking Sessions.                                         *)
EXTENDS Sessions

Symmetry == Permutations(Ops) \cup Permutations(Emitters)
=============================================================================
