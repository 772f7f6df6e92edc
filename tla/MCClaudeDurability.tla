------------------------- MODULE MCClaudeDurability -------------------------
(* Instances of ClaudeDurability for TLC. *)
EXTENDS ClaudeDurability
=============================================================================
