---------------------------- MODULE ApprovalGate ----------------------------
(***************************************************************************)
(* What the approval gate of the Claude runtime promises to the processes  *)
(* that ask it: every ask gets one verdict, the asks of one tool call of   *)
(* one session share the verdict they were waiting for, and an ask is      *)
(* allowed without waiting only by a standing rule or by the directory's   *)
(* auto-permissions toggle.  There are no rows, ids, timers or indexes     *)
(* here: ClaudeApprovals implements this with them.                        *)
(***************************************************************************)

CONSTANTS
  Sessions,   \* Claude sessions
  ToolUses,   \* the CLI's tool_use ids
  Tools,      \* tool names
  ToolOf,     \* the tool a tool_use id names
  Callers,    \* ask() calls
  None        \* no key: an ask that was not made yet

VARIABLES
  key,         \* the (session, tool use) a caller asked about
  verdict,     \* what the caller was told
  standing,    \* session -> tools answered "always"
  autoSessions \* sessions whose project directory has the toggle on

vars == <<key, verdict, standing, autoSessions>>

Keys == Sessions \X ToolUses

Covered(k) == ToolOf[k[2]] \in standing[k[1]] \/ k[1] \in autoSessions

Init ==
  /\ key = [c \in Callers |-> None]
  /\ verdict = [c \in Callers |-> "none"]
  /\ standing = [s \in Sessions |-> {}]
  /\ autoSessions = {}

(* A caller asks; it is allowed at once when a rule or the toggle covers   *)
(* it, and waits otherwise.                                                *)
Ask(c, k) ==
  /\ verdict[c] = "none"
  /\ key' = [key EXCEPT ![c] = k]
  /\ verdict' = [verdict EXCEPT ![c] = IF Covered(k) THEN "allow" ELSE "pending"]
  /\ UNCHANGED <<standing, autoSessions>>

(* Everyone waiting on one of the tool calls K is told the same thing.     *)
Decide(K, d) ==
  /\ verdict' = [c \in Callers |->
                   IF verdict[c] = "pending" /\ key[c] \in K THEN d ELSE verdict[c]]
  /\ UNCHANGED <<key, autoSessions>>

(* One tool call is allowed or denied and no rule is made.                 *)
DecideOnce(k, d) == Decide({k}, d) /\ UNCHANGED standing

(* One tool call is allowed and its tool is allowed for that session from  *)
(* now on.                                                                 *)
AllowAlways(k) ==
  /\ Decide({k}, "allow")
  /\ standing' = [standing EXCEPT ![k[1]] = @ \cup {ToolOf[k[2]]}]

(* The session's turn is over: everyone waiting on it is refused.          *)
DenySession(s) == Decide({s} \X ToolUses, "deny") /\ UNCHANGED standing

Toggle(A) == autoSessions' = A /\ UNCHANGED <<key, verdict, standing>>

Next ==
  \/ \E c \in Callers, k \in Keys : Ask(c, k)
  \/ \E k \in Keys, d \in {"allow", "deny"} : DecideOnce(k, d)
  \/ \E k \in Keys : AllowAlways(k)
  \/ \E s \in Sessions : DenySession(s)
  \/ \E A \in SUBSET Sessions : Toggle(A)

Spec == Init /\ [][Next]_vars

=============================================================================
