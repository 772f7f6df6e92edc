-------------------------- MODULE MCClaudeApprovals --------------------------
(* Instances of ClaudeApprovals for TLC: two tool calls may name one tool.    *)
EXTENDS ClaudeApprovals, TLC

CONSTANTS u1, u2, t1, t2

MCToolOf == (u1 :> t1) @@ (u2 :> t1)
=============================================================================
