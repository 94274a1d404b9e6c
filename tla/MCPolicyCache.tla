--------------------------- MODULE MCPolicyCache ---------------------------
(* Small instances of PolicyCache: generations and processes are interchangeable. *)
EXTENDS PolicyCache, TLC

Symmetry == Permutations(Gens) \cup Permutations(Procs)

=============================================================================
