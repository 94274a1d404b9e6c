------------------------------ MODULE MCSetup ------------------------------
(* Setup on a small instance. *)
EXTENDS Setup, TLC
Symmetry == Permutations(Users) \cup Permutations(Runs) \cup Permutations(Keys)
=============================================================================
