----------------------------- MODULE MCLinuxEnv -----------------------------
(***************************************************************************)
(* Instances of LinuxEnv: workers that run linux-setup are alike.          *)
(***************************************************************************)
EXTENDS LinuxEnv, TLC

SetupSymmetry == Permutations(Setups)
=============================================================================
