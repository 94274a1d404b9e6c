----------------------------- MODULE MCRotation -----------------------------
(* Small instances of Rotation: uuids, requests and writes are interchangeable. *)
EXTENDS Rotation, TLC

Symmetry == Permutations(Ids) \cup Permutations(Requests) \cup Permutations(Writes)

=============================================================================
