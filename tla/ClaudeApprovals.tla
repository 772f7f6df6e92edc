-------------------------- MODULE ClaudeApprovals --------------------------
(***************************************************************************)
(* server/claude/approvals.ts, class ClaudeApprovalStore, and the two      *)
(* routes of server/routes/claude.ts that reach it.  An ask() is an HTTP   *)
(* request held open by the BFF: Callers are those requests.  A retried    *)
(* ask is a second caller with the same session and tool use.              *)
(*                                                                         *)
(* The code runs on one thread, ask/reply/cancelSession/finish never       *)
(* await, so each is one step; what interleaves is the order of requests,  *)
(* timers and cancellations.                                               *)
(***************************************************************************)

CONSTANTS
  Sessions,   \* Claude sessions
  ToolUses,   \* tool_use ids; two sessions may use the same one
  Tools,      \* tool names
  ToolOf,     \* the tool a tool_use id names
  Callers,    \* ask() calls, each made at most once
  Ids,        \* request.id values (randomUUID): each is used at most once
  None        \* undefined

Keys == Sessions \X ToolUses

ASSUME ApprovalsAssumption ==
  /\ ToolOf \in [ToolUses -> Tools]
  /\ None \notin Ids
  /\ None \notin Keys

VARIABLES
  waiting,      \* ids in the `waiting` map, each with its timer armed
  request,      \* id -> the key of its request; None while the id is unused
  byToolUse,    \* key -> id, the `byToolUse` map
  standing,     \* session -> tools answered "always"
  autoSessions, \* sessions for which the autoApprove callback answers true
  key,          \* caller -> what it asked about
  joined,       \* caller -> the waiter whose settle chain holds its resolve
  answer        \* caller -> what its promise resolved to

storeVars == <<waiting, request, byToolUse, standing>>
callerVars == <<key, joined, answer>>
vars == <<waiting, request, byToolUse, standing, autoSessions, key, joined, answer>>

Init ==
  /\ waiting = {}
  /\ request = [id \in Ids |-> None]
  /\ byToolUse = [k \in Keys |-> None]
  /\ standing = [s \in Sessions |-> {}]
  /\ autoSessions = {}
  /\ key = [c \in Callers |-> None]
  /\ joined = [c \in Callers |-> None]
  /\ answer = [c \in Callers |-> "none"]

-----------------------------------------------------------------------------
(* ask()                                                                   *)

StandingAllows(k) == ToolOf[k[2]] \in standing[k[1]]

(* Answered without a row: a standing rule, or the directory's toggle.     *)
AskCovered(c, k) ==
  /\ answer[c] = "none"
  /\ StandingAllows(k) \/ k[1] \in autoSessions
  /\ key' = [key EXCEPT ![c] = k]
  /\ answer' = [answer EXCEPT ![c] = "allow"]
  /\ UNCHANGED <<waiting, request, byToolUse, standing, autoSessions, joined>>

(* Mutants of AskJoin: the index ignores the session; the new caller       *)
(* replaces the settle function instead of chaining onto it.               *)
AskJoinAnySession(c, k) ==
  /\ answer[c] = "none"
  /\ ~StandingAllows(k) /\ k[1] \notin autoSessions
  /\ \E id \in waiting :
       /\ request[id][2] = k[2]
       /\ joined' = [joined EXCEPT ![c] = id]
  /\ key' = [key EXCEPT ![c] = k]
  /\ answer' = [answer EXCEPT ![c] = "pending"]
  /\ UNCHANGED <<waiting, request, byToolUse, standing, autoSessions>>

AskJoinReplaces(c, k) ==
  /\ answer[c] = "none"
  /\ ~StandingAllows(k) /\ k[1] \notin autoSessions
  /\ byToolUse[k] \in waiting
  /\ key' = [key EXCEPT ![c] = k]
  /\ joined' = [x \in Callers |->
                  IF x = c THEN byToolUse[k]
                  ELSE IF joined[x] = byToolUse[k] THEN None ELSE joined[x]]
  /\ answer' = [answer EXCEPT ![c] = "pending"]
  /\ UNCHANGED <<waiting, request, byToolUse, standing, autoSessions>>

(* A waiter for this tool call exists: chain onto it.                      *)
AskJoin(c, k) ==
  /\ answer[c] = "none"
  /\ ~StandingAllows(k) /\ k[1] \notin autoSessions
  /\ byToolUse[k] \in waiting
  /\ key' = [key EXCEPT ![c] = k]
  /\ joined' = [joined EXCEPT ![c] = byToolUse[k]]
  /\ answer' = [answer EXCEPT ![c] = "pending"]
  /\ UNCHANGED <<waiting, request, byToolUse, standing, autoSessions>>

(* A new row, shown to the user, with a timer.                             *)
AskNew(c, k, id) ==
  /\ answer[c] = "none"
  /\ ~StandingAllows(k) /\ k[1] \notin autoSessions
  /\ byToolUse[k] \notin waiting
  /\ request[id] = None
  /\ waiting' = waiting \cup {id}
  /\ request' = [request EXCEPT ![id] = k]
  /\ byToolUse' = [byToolUse EXCEPT ![k] = id]
  /\ key' = [key EXCEPT ![c] = k]
  /\ joined' = [joined EXCEPT ![c] = id]
  /\ answer' = [answer EXCEPT ![c] = "pending"]
  /\ UNCHANGED <<standing, autoSessions>>

Ask(c, k) ==
  \/ AskCovered(c, k)
  \/ AskJoin(c, k)
  \/ \E id \in Ids : AskNew(c, k, id)

-----------------------------------------------------------------------------
(* Mutants of Finish: the index entry stays; only one of the chained       *)
(* callers is told.                                                        *)
FinishKeepsIndex(D, d) ==
  /\ waiting' = waiting \ D
  /\ answer' = [c \in Callers |->
                  IF answer[c] = "pending" /\ joined[c] \in D THEN d ELSE answer[c]]
  /\ UNCHANGED <<request, byToolUse, autoSessions, key, joined>>

FinishTellsOne(D, d) ==
  /\ waiting' = waiting \ D
  /\ byToolUse' = [k \in Keys |-> IF \E id \in D : request[id] = k THEN None ELSE byToolUse[k]]
  /\ \E c \in Callers : answer' = IF joined[c] \in D THEN [answer EXCEPT ![c] = d] ELSE answer
  /\ UNCHANGED <<request, autoSessions, key, joined>>

(* finish(), for every waiter in D: the entry and its index are deleted    *)
(* and the settle chain tells every caller joined to it.                   *)
Finish(D, d) ==
  /\ waiting' = waiting \ D
  /\ byToolUse' = [k \in Keys |-> IF \E id \in D : request[id] = k THEN None ELSE byToolUse[k]]
  /\ answer' = [c \in Callers |->
                  IF answer[c] = "pending" /\ joined[c] \in D THEN d ELSE answer[c]]
  /\ UNCHANGED <<request, autoSessions, key, joined>>

(* Mutant of ReplyOnce: "once" makes a rule too.                           *)
ReplyOnceRemembers(id, d) ==
  /\ id \in waiting
  /\ standing' = [standing EXCEPT ![request[id][1]] = @ \cup {ToolOf[request[id][2]]}]
  /\ Finish({id}, d)

(* POST .../approvals/:approvalId/reply with "once" or "reject"            *)
ReplyOnce(id, d) ==
  /\ id \in waiting
  /\ Finish({id}, d)
  /\ UNCHANGED standing

(* ... with "always": the session remembers the tool, then this row is     *)
(* settled.  Other rows of the same tool keep waiting.                     *)
ReplyAlways(id) ==
  /\ id \in waiting
  /\ standing' = [standing EXCEPT ![request[id][1]] = @ \cup {ToolOf[request[id][2]]}]
  /\ Finish({id}, "allow")

(* The waiter's timer fires.                                               *)
Timeout(id) ==
  /\ id \in waiting
  /\ Finish({id}, "deny")
  /\ UNCHANGED standing

RowsOf(s) == {id \in waiting : request[id][1] = s}

(* The session's turn is over, by exit or by cancel.                       *)
CancelSession(s) == Finish(RowsOf(s), "deny") /\ UNCHANGED standing

(* The directory toggle changes, by the user or by the state file.         *)
Toggle(A) ==
  /\ autoSessions' = A
  /\ UNCHANGED <<waiting, request, byToolUse, standing, key, joined, answer>>

Next ==
  \/ \E c \in Callers, k \in Keys : Ask(c, k)
  \/ \E id \in Ids, d \in {"allow", "deny"} : ReplyOnce(id, d)
  \/ \E id \in Ids : ReplyAlways(id)
  \/ \E id \in Ids : Timeout(id)
  \/ \E s \in Sessions : CancelSession(s)
  \/ \E A \in SUBSET Sessions : Toggle(A)

Spec == Init /\ [][Next]_vars

(* Timers fire: nothing else is promised to happen.                        *)
FairSpec == Spec /\ \A id \in Ids : WF_vars(Timeout(id))

-----------------------------------------------------------------------------
Answers == {"none", "pending", "allow", "deny"}

(* Every variable holds a value of the code's type.                        *)
TypeOK ==
  /\ waiting \subseteq Ids
  /\ request \in [Ids -> Keys \cup {None}]
  /\ byToolUse \in [Keys -> Ids \cup {None}]
  /\ standing \in [Sessions -> SUBSET Tools]
  /\ autoSessions \subseteq Sessions
  /\ key \in [Callers -> Keys \cup {None}]
  /\ joined \in [Callers -> Ids \cup {None}]
  /\ answer \in [Callers -> Answers]

(* The two maps agree: the index names exactly the waiters, so a retried   *)
(* ask always finds the row already in front of the user and one tool call *)
(* never has two rows ("Joining the existing wait keeps one row").         *)
IndexInv ==
  /\ \A k \in Keys : byToolUse[k] # None => byToolUse[k] \in waiting
  /\ \A id \in waiting : request[id] \in Keys /\ byToolUse[request[id]] = id
  /\ \A k \in Keys : byToolUse[k] \in waiting => request[byToolUse[k]] = k

(* Nobody is left behind: a caller whose request is still open is chained  *)
(* to a row that still has its timer, so some event can still answer it.   *)
PendingHasRow == \A c \in Callers : answer[c] = "pending" => joined[c] \in waiting

(* A caller is only ever chained to a row for its own session and its own  *)
(* tool call: "two sessions sharing one must never share one decision".    *)
JoinedOwnCall ==
  \A c \in Callers : joined[c] # None => key[c] \in Keys /\ request[joined[c]] = key[c]

(* The requests of one row are told the same thing, whenever they joined.  *)
OneDecision ==
  \A c1, c2 \in Callers :
    joined[c1] # None /\ joined[c1] = joined[c2] => answer[c1] = answer[c2]

(* What the four say together, with the facts they need about idle callers *)
(* and unused ids: inductive.                                              *)
ApprovalsInv ==
  /\ IndexInv
  /\ PendingHasRow
  /\ JoinedOwnCall
  /\ OneDecision
  /\ \A c \in Callers : joined[c] \in waiting => answer[c] = "pending"
  /\ \A c \in Callers : answer[c] = "none" => joined[c] = None /\ key[c] = None
  /\ \A c \in Callers : answer[c] = "pending" => key[c] \in Keys

(* A standing rule appears only for the session and tool of a row that was *)
(* in front of the user and that is settled by the same step: never from a *)
(* timeout or a cancelled turn, never for another session.                 *)
RuleNeedsRow ==
  [][\A s \in Sessions : \A t \in standing'[s] \ standing[s] :
       \E id \in waiting \ waiting' :
         /\ request[id][1] = s /\ ToolOf[request[id][2]] = t
         /\ \A c \in Callers : joined[c] = id => answer'[c] = "allow"]_vars

(* Every request held open is answered in the end: the timer of its row    *)
(* bounds the wait.                                                        *)
AskIsAnswered ==
  \A c \in Callers : answer[c] = "pending" ~> answer[c] \in {"allow", "deny"}

(* The store implements the gate: rows, index and chains are erased, the   *)
(* callers' answers are the verdicts.                                      *)
Gate == INSTANCE ApprovalGate WITH verdict <- answer
ImplementsGate == Gate!Spec

=============================================================================
