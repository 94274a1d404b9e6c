---------------------------- MODULE MCHierarchy ----------------------------
(* Hierarchy on a small instance: ids, users and writers are interchangeable. *)
EXTENDS Hierarchy, TLC

Symmetry == Permutations(Nodes) \cup Permutations(Users) \cup Permutations(Writers)

=============================================================================
