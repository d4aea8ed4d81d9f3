------------------------------- MODULE MCZpip -------------------------------
(* Package indexes for checking Zpip.                                      *)
EXTENDS Zpip

(* a needs b and c, and b needs c: c is installed twice when a is.  The    *)
(* file "x" goes when a is upgraded, and collides with b's second release. *)
(* d needs itself.                                                         *)
DiamondPkgs == {"a", "b", "c", "d"}
DiamondFiles == {"a", "b", "c", "x"}
DiamondWheel ==
  [p \in Pkgs |-> [v \in Versions |->
     CASE p = "a" -> IF v = 1 THEN {"a", "x"} ELSE {"a"}
       [] p = "b" -> IF v = 1 THEN {"b"} ELSE {"b", "x"}
       [] p = "c" -> {"c"}
       [] p = "d" -> {}]]
DiamondNeeds ==
  [p \in Pkgs |-> [q \in Pkgs |->
     CASE <<p, q>> \in {<<"a", "b">>, <<"b", "c">>} -> {1, 2}
       [] <<p, q>> \in {<<"a", "c">>, <<"d", "d">>} -> {2}
       [] OTHER -> {}]]

=============================================================================
