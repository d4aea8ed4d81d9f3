----------------------------- MODULE MCInterpreter -----------------------------
(***************************************************************************)
(* Interpreter for TLC: tabs are alike, and so are requests.               *)
(***************************************************************************)
EXTENDS Interpreter, TLC

Symmetry == Permutations(Tabs) \cup Permutations(Requests)
=============================================================================
