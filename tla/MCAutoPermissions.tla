--------------------------- MODULE MCAutoPermissions ---------------------------
(* Instances of AutoPermissions for TLC. *)
EXTENDS AutoPermissions, TLC

Symmetry == Permutations(Requests) \cup Permutations(Toggles)
=============================================================================
