--------------------------- MODULE MCProjectFiles ---------------------------
(* Small instances of ProjectFiles: see the .cfg files that use it. *)
EXTENDS ProjectFiles, TLC

Symmetry == Permutations(Requests) \cup Permutations(Items)

=============================================================================
