---------------------------- MODULE PackageStore ----------------------------
(***************************************************************************)
(* What zpip (app/zmux/zpip.py) promises of its database of installed      *)
(* packages: records come and go one at a time, and a package is recorded  *)
(* only in a version that exists and while everything it requires is       *)
(* recorded in a version it accepts.                                       *)
(***************************************************************************)
CONSTANTS Pkgs, Versions, Needs, None

VARIABLE db         (* the version each package is recorded in, or None    *)

Satisfied(p) ==
  \A d \in Pkgs : Needs[p][d] # {} => db[d] \in Needs[p][d]

Init == db = [p \in Pkgs |-> None]

Record(p, v) == Satisfied(p) /\ db' = [db EXCEPT ![p] = v]

Erase(p) == db' = [db EXCEPT ![p] = None]

Next == \E p \in Pkgs : Erase(p) \/ \E v \in Versions : Record(p, v)

Spec == Init /\ [][Next]_db
=============================================================================
