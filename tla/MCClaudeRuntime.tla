-------------------------- MODULE MCClaudeRuntime --------------------------
(* Instances of ClaudeRuntime for TLC. *)
EXTENDS ClaudeRuntime, TLC

CONSTANTS u1, t1

MCToolOf == u1 :> t1

Symmetry == Permutations(Callers) \cup Permutations(Ids) \cup Permutations(Runs)
              \cup Permutations(Requests)
=============================================================================
