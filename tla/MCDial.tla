------------------------------- MODULE MCDial -------------------------------
(* Dial with interchangeable connections, goroutines and handles. *)
EXTENDS Dial, TLC

DialSymmetry == Permutations(Dials) \cup Permutations(Users) \cup Permutations(Handles)
=============================================================================
