---------------------------- MODULE MCWheelPipeline ----------------------------
(***************************************************************************)
(* Instances of WheelPipeline: the commits and locks its developers make.  *)
(***************************************************************************)
EXTENDS WheelPipeline, TLC

CONSTANTS p, s1, s2, r1, r2

MCRecipe(v, s, local) ==
  [version |-> v, sha |-> s, local |-> local, abis |-> Abis, complete |-> TRUE]

\* A clean release of either source, a recipe whose hash was not updated with
\* the source, an incomplete recipe, and one with an external source.
MCCommits ==
  [pkg : {p}, recipe : {MCRecipe(v, s, TRUE) : v \in Versions, s \in {s1}},
   src : {s1}, locked : {s1}]
  \cup {[pkg |-> p, recipe |-> MCRecipe(1, s2, TRUE), src |-> s2, locked |-> s2],
        [pkg |-> p, recipe |-> MCRecipe(1, s1, TRUE), src |-> s2, locked |-> s2],
        [pkg |-> p, recipe |-> MCRecipe(1, s1, FALSE), src |-> s1, locked |-> s1],
        [pkg |-> p, recipe |-> [MCRecipe(1, s1, TRUE) EXCEPT !.complete = FALSE],
         src |-> s1, locked |-> s1]}

MCLocks == {[id |-> r1, state |-> "real"], [id |-> r2, state |-> "real"],
            [id |-> r2, state |-> "pending"]}

JobSymmetry == Permutations(Jobs)
=============================================================================
