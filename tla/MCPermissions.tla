--------------------------- MODULE MCPermissions ---------------------------
(* Small instances of Permissions: loads, writes and users are interchangeable. *)
EXTENDS Permissions, TLC

Symmetry == Permutations(Users) \cup Permutations(Readers) \cup Permutations(Writers)

=============================================================================
