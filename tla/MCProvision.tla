---------------------------- MODULE MCProvision ----------------------------
(* Provision with interchangeable sessions and runs. *)
EXTENDS Provision, TLC

ProvisionSymmetry == Permutations(Sessions) \cup Permutations(Runs)
=============================================================================
