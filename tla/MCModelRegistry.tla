--------------------------- MODULE MCModelRegistry ---------------------------
(* Small instances of the model registry. *)
EXTENDS ModelRegistry, TLC

\* Requests and versions are interchangeable.
RegistrySymmetry == Permutations(Requests) \cup Permutations(Versions)
=============================================================================
