----------------------- MODULE ClaudeApprovalsProofs -----------------------
(***************************************************************************)
(* Theorems about ClaudeApprovals, for any sets of sessions, tool uses,    *)
(* callers and ids.                                                        *)
(***************************************************************************)
EXTENDS ClaudeApprovals, TLAPS

(* Reading a key: both parts of a tool call are what they should be.       *)
LEMMA KeyParts ==
  ASSUME NEW k \in Keys
  PROVE  k[1] \in Sessions /\ k[2] \in ToolUses /\ ToolOf[k[2]] \in Tools
BY ApprovalsAssumption DEF Keys

-----------------------------------------------------------------------------
(* Type correctness                                                        *)

(* finish() keeps every variable it touches, but the rules, in its type.   *)
LEMMA FinishType ==
  ASSUME TypeOK, NEW D \in SUBSET Ids, NEW d \in {"allow", "deny"}, Finish(D, d)
  PROVE  /\ waiting' \subseteq Ids
         /\ request' \in [Ids -> Keys \cup {None}]
         /\ byToolUse' \in [Keys -> Ids \cup {None}]
         /\ autoSessions' \subseteq Sessions
         /\ key' \in [Callers -> Keys \cup {None}]
         /\ joined' \in [Callers -> Ids \cup {None}]
         /\ answer' \in [Callers -> Answers]
BY DEF TypeOK, Finish, Answers

(* The rows the handlers settle carry a real request.                      *)
LEMMA WaitingHasKey ==
  ASSUME TypeOK, IndexInv, NEW id \in waiting
  PROVE  id \in Ids /\ request[id] \in Keys /\ request[id] # None
BY ApprovalsAssumption DEF TypeOK, IndexInv

(* Every step keeps the types.                                             *)
LEMMA TypeStep == TypeOK /\ IndexInv /\ [Next]_vars => TypeOK'
<1> SUFFICES ASSUME TypeOK, IndexInv, [Next]_vars PROVE TypeOK'
  OBVIOUS
<1>1. ASSUME NEW c \in Callers, NEW k \in Keys, Ask(c, k) PROVE TypeOK'
  <2>1. CASE AskCovered(c, k)
    BY <2>1 DEF TypeOK, AskCovered, Answers
  <2>2. CASE AskJoin(c, k)
    BY <2>2 DEF TypeOK, AskJoin, Answers
  <2>3. ASSUME NEW id \in Ids, AskNew(c, k, id) PROVE TypeOK'
    BY <2>3 DEF TypeOK, AskNew, Answers
  <2> QED
    BY <1>1, <2>1, <2>2, <2>3 DEF Ask
<1>2. ASSUME NEW id \in Ids, NEW d \in {"allow", "deny"}, ReplyOnce(id, d) PROVE TypeOK'
  BY <1>2, FinishType DEF TypeOK, ReplyOnce
<1>3. ASSUME NEW id \in Ids, ReplyAlways(id) PROVE TypeOK'
  <2>1. Finish({id}, "allow") /\ id \in waiting
    BY <1>3 DEF ReplyAlways
  <2>2. request[id][1] \in Sessions /\ ToolOf[request[id][2]] \in Tools
    BY <2>1, WaitingHasKey, KeyParts
  <2>3. standing' \in [Sessions -> SUBSET Tools]
    BY <1>3, <2>2 DEF ReplyAlways, TypeOK
  <2> QED
    BY <2>1, <2>3, FinishType DEF TypeOK
<1>4. ASSUME NEW id \in Ids, Timeout(id) PROVE TypeOK'
  BY <1>4, FinishType DEF TypeOK, Timeout
<1>5. ASSUME NEW s \in Sessions, CancelSession(s) PROVE TypeOK'
  <2>1. RowsOf(s) \in SUBSET Ids
    BY DEF RowsOf, TypeOK
  <2> QED
    BY <1>5, <2>1, FinishType DEF TypeOK, CancelSession
<1>6. ASSUME NEW A \in SUBSET Sessions, Toggle(A) PROVE TypeOK'
  BY <1>6 DEF TypeOK, Toggle
<1>7. CASE UNCHANGED vars
  BY <1>7 DEF TypeOK, vars
<1> QED
  BY <1>1, <1>2, <1>3, <1>4, <1>5, <1>6, <1>7 DEF Next

-----------------------------------------------------------------------------
(* The inductive invariant                                                 *)

(* An empty store satisfies the invariant.                                 *)
LEMMA InitInv == Init => TypeOK /\ ApprovalsInv
BY ApprovalsAssumption
   DEF Init, TypeOK, ApprovalsInv, IndexInv, PendingHasRow, JoinedOwnCall, OneDecision, Answers

(* finish() keeps the maps, the chains and the answers in step.            *)
LEMMA FinishInv ==
  ASSUME TypeOK, ApprovalsInv, NEW D \in SUBSET waiting, NEW d \in {"allow", "deny"}, Finish(D, d)
  PROVE  ApprovalsInv'
<1> USE ApprovalsAssumption
<1>1. IndexInv'
  BY DEF TypeOK, ApprovalsInv, IndexInv, Finish
<1>2. PendingHasRow'
  BY DEF TypeOK, ApprovalsInv, PendingHasRow, Finish
<1>3. JoinedOwnCall'
  BY DEF TypeOK, ApprovalsInv, JoinedOwnCall, Finish
<1>4. OneDecision'
  BY DEF TypeOK, ApprovalsInv, OneDecision, Finish
<1>5. \A c \in Callers : joined'[c] \in waiting' => answer'[c] = "pending"
  BY DEF TypeOK, ApprovalsInv, Finish
<1>6. \A c \in Callers : answer'[c] = "none" => joined'[c] = None /\ key'[c] = None
  BY DEF TypeOK, ApprovalsInv, Finish
<1>7. \A c \in Callers : answer'[c] = "pending" => key'[c] \in Keys
  BY DEF TypeOK, ApprovalsInv, Finish
<1> QED
  BY <1>1, <1>2, <1>3, <1>4, <1>5, <1>6, <1>7 DEF ApprovalsInv

(* ask(), covered, joining or with a new row, keeps the invariant.         *)
LEMMA AskInv ==
  ASSUME TypeOK, ApprovalsInv, NEW c \in Callers, NEW k \in Keys, Ask(c, k)
  PROVE  ApprovalsInv'
<1> USE ApprovalsAssumption
<1>1. CASE AskCovered(c, k)
  BY <1>1 DEF TypeOK, ApprovalsInv, IndexInv, PendingHasRow, JoinedOwnCall, OneDecision, AskCovered
<1>2. CASE AskJoin(c, k)
  BY <1>2 DEF TypeOK, ApprovalsInv, IndexInv, PendingHasRow, JoinedOwnCall, OneDecision, AskJoin
<1>3. ASSUME NEW id \in Ids, AskNew(c, k, id) PROVE ApprovalsInv'
  <2>1. id \notin waiting /\ \A e \in Callers : joined[e] # id
    BY <1>3 DEF AskNew, TypeOK, ApprovalsInv, IndexInv, JoinedOwnCall
  <2>2. IndexInv'
    BY <1>3, <2>1 DEF AskNew, TypeOK, ApprovalsInv, IndexInv
  <2>3. PendingHasRow'
    BY <1>3 DEF AskNew, TypeOK, ApprovalsInv, PendingHasRow
  <2>4. JoinedOwnCall'
    BY <1>3, <2>1 DEF AskNew, TypeOK, ApprovalsInv, JoinedOwnCall
  <2>5. OneDecision'
    BY <1>3, <2>1 DEF AskNew, TypeOK, ApprovalsInv, OneDecision
  <2>6. \A e \in Callers : joined'[e] \in waiting' => answer'[e] = "pending"
    BY <1>3, <2>1 DEF AskNew, TypeOK, ApprovalsInv
  <2>7. \A e \in Callers : answer'[e] = "none" => joined'[e] = None /\ key'[e] = None
    BY <1>3 DEF AskNew, TypeOK, ApprovalsInv
  <2>8. \A e \in Callers : answer'[e] = "pending" => key'[e] \in Keys
    BY <1>3 DEF AskNew, TypeOK, ApprovalsInv
  <2> QED
    BY <2>2, <2>3, <2>4, <2>5, <2>6, <2>7, <2>8 DEF ApprovalsInv
<1> QED
  BY <1>1, <1>2, <1>3 DEF Ask

(* Every step keeps the invariant.                                         *)
LEMMA ApprovalsInvStep == TypeOK /\ ApprovalsInv /\ [Next]_vars => ApprovalsInv'
<1> SUFFICES ASSUME TypeOK, ApprovalsInv, [Next]_vars PROVE ApprovalsInv'
  OBVIOUS
<1>1. ASSUME NEW c \in Callers, NEW k \in Keys, Ask(c, k) PROVE ApprovalsInv'
  BY <1>1, AskInv
<1>2. ASSUME NEW id \in Ids, NEW d \in {"allow", "deny"}, ReplyOnce(id, d) PROVE ApprovalsInv'
  BY <1>2, FinishInv DEF ReplyOnce
<1>3. ASSUME NEW id \in Ids, ReplyAlways(id) PROVE ApprovalsInv'
  BY <1>3, FinishInv DEF ReplyAlways
<1>4. ASSUME NEW id \in Ids, Timeout(id) PROVE ApprovalsInv'
  BY <1>4, FinishInv DEF Timeout
<1>5. ASSUME NEW s \in Sessions, CancelSession(s) PROVE ApprovalsInv'
  BY <1>5, FinishInv DEF CancelSession, RowsOf
<1>6. ASSUME NEW A \in SUBSET Sessions, Toggle(A) PROVE ApprovalsInv'
  BY <1>6 DEF Toggle, ApprovalsInv, IndexInv, PendingHasRow, JoinedOwnCall, OneDecision
<1>7. CASE UNCHANGED vars
  BY <1>7 DEF vars, ApprovalsInv, IndexInv, PendingHasRow, JoinedOwnCall, OneDecision
<1> QED
  BY <1>1, <1>2, <1>3, <1>4, <1>5, <1>6, <1>7 DEF Next

(* The variables keep their types and the store's maps, the settle chains  *)
(* and the callers' answers stay in step, in every reachable state.        *)
THEOREM Invariance == Spec => [](TypeOK /\ ApprovalsInv)
<1>1. Init => TypeOK /\ ApprovalsInv
  BY InitInv
<1>2. TypeOK /\ ApprovalsInv /\ [Next]_vars => (TypeOK /\ ApprovalsInv)'
  BY TypeStep, ApprovalsInvStep DEF ApprovalsInv
<1> QED
  BY <1>1, <1>2, PTL DEF Spec

(* The index of tool calls and the map of waiters agree in every           *)
(* reachable state: a retried ask always finds its row.                    *)
THEOREM IndexAgrees == Spec => []IndexInv
BY Invariance, PTL DEF ApprovalsInv

(* A caller held open is chained to a row whose timer is still armed:      *)
(* ask() never leaves a promise nothing can settle.                        *)
THEOREM NobodyLeftBehind == Spec => []PendingHasRow
BY Invariance, PTL DEF ApprovalsInv

(* A caller shares a row only with asks of its own session and tool call,  *)
(* and they are all told the same.                                         *)
THEOREM OwnDecision == Spec => [](JoinedOwnCall /\ OneDecision)
BY Invariance, PTL DEF ApprovalsInv

-----------------------------------------------------------------------------
(* Action properties                                                       *)

(* Only "always" makes a rule, and it makes the one of the row it settles. *)
LEMMA RuleStep ==
  ASSUME TypeOK, ApprovalsInv, [Next]_vars,
         NEW s \in Sessions, NEW t \in standing'[s] \ standing[s]
  PROVE  \E id \in waiting \ waiting' :
           /\ request[id][1] = s /\ ToolOf[request[id][2]] = t
           /\ \A c \in Callers : joined[c] = id => answer'[c] = "allow"
<1>1. standing' # standing
  OBVIOUS
<1>2. PICK id \in Ids : ReplyAlways(id)
  BY <1>1 DEF Next, vars, Ask, AskCovered, AskJoin, AskNew, ReplyOnce, Timeout, CancelSession, Toggle
<1>3. id \in waiting /\ id \notin waiting'
  BY <1>2 DEF ReplyAlways, Finish
<1>4. request[id][1] \in Sessions
  BY <1>3, WaitingHasKey, KeyParts DEF ApprovalsInv
<1>5. request[id][1] = s /\ ToolOf[request[id][2]] = t
  BY <1>2, <1>4 DEF ReplyAlways, TypeOK
<1>6. \A c \in Callers : joined[c] = id => answer'[c] = "allow"
  BY <1>2, <1>3 DEF ReplyAlways, Finish, ApprovalsInv, TypeOK
<1> QED
  BY <1>3, <1>5, <1>6

(* A standing rule always comes from a row of that session and tool.       *)
THEOREM RulesNeedRows == Spec => RuleNeedsRow
<1>1. TypeOK /\ ApprovalsInv /\ [Next]_vars =>
        [\A s \in Sessions : \A t \in standing'[s] \ standing[s] :
           \E id \in waiting \ waiting' :
             /\ request[id][1] = s /\ ToolOf[request[id][2]] = t
             /\ \A c \in Callers : joined[c] = id => answer'[c] = "allow"]_vars
  BY RuleStep
<1> QED
  BY <1>1, Invariance, PTL DEF Spec, RuleNeedsRow

-----------------------------------------------------------------------------
(* The store implements the gate                                           *)

(* Settling a row answers exactly the callers waiting on its tool call.    *)
LEMMA RowIsItsCall ==
  ASSUME TypeOK, ApprovalsInv, NEW D \in SUBSET waiting, NEW c \in Callers, answer[c] = "pending"
  PROVE  joined[c] \in D <=> \E id \in D : request[id] = key[c]
<1>1. joined[c] \in waiting /\ joined[c] # None
  BY ApprovalsAssumption DEF ApprovalsInv, PendingHasRow, TypeOK
<1>2. request[joined[c]] = key[c]
  BY <1>1 DEF ApprovalsInv, JoinedOwnCall
<1>3. \A id \in waiting : request[id] = key[c] => id = joined[c]
  BY <1>1, <1>2 DEF ApprovalsInv, IndexInv
<1> QED
  BY <1>1, <1>2, <1>3

(* Settling one row is one decision of the gate.                           *)
LEMMA FinishDecides ==
  ASSUME TypeOK, ApprovalsInv, NEW D \in SUBSET waiting, NEW d \in {"allow", "deny"}, Finish(D, d),
         NEW K, \A c \in Callers : answer[c] = "pending" => (key[c] \in K <=> \E id \in D : request[id] = key[c])
  PROVE  Gate!Decide(K, d)
<1>1. answer' = [c \in Callers |-> IF answer[c] = "pending" /\ key[c] \in K THEN d ELSE answer[c]]
  BY RowIsItsCall DEF Finish
<1> QED
  BY <1>1 DEF Finish, Gate!Decide

(* The gate and the store name tool calls alike.                           *)
LEMMA SameKeys == Keys = Gate!Keys
BY DEF Keys, Gate!Keys

(* Every step of the store is a step of the gate or a stutter.             *)
LEMMA GateStep == TypeOK /\ ApprovalsInv /\ [Next]_vars => [Gate!Next]_(Gate!vars)
<1> SUFFICES ASSUME TypeOK, ApprovalsInv, [Next]_vars PROVE [Gate!Next]_(Gate!vars)
  OBVIOUS
<1>1. ASSUME NEW c \in Callers, NEW k \in Keys, Ask(c, k) PROVE Gate!Next
  <2>1. Gate!Ask(c, k)
    BY <1>1 DEF Ask, AskCovered, AskJoin, AskNew, StandingAllows, Gate!Ask, Gate!Covered
  <2> QED
    BY <2>1, SameKeys DEF Gate!Next
<1>2. ASSUME NEW id \in waiting, NEW d \in {"allow", "deny"}, Finish({id}, d)
      PROVE  request[id] \in Keys /\ Gate!Decide({request[id]}, d)
  BY <1>2, FinishDecides, WaitingHasKey DEF ApprovalsInv
<1>3. ASSUME NEW id \in Ids, NEW d \in {"allow", "deny"}, ReplyOnce(id, d) PROVE Gate!Next
  <2>1. Gate!DecideOnce(request[id], d) /\ request[id] \in Keys
    BY <1>2, <1>3 DEF ReplyOnce, Gate!DecideOnce
  <2> QED
    BY <2>1, SameKeys DEF Gate!Next
<1>4. ASSUME NEW id \in Ids, ReplyAlways(id) PROVE Gate!Next
  <2>1. Gate!AllowAlways(request[id]) /\ request[id] \in Keys
    BY <1>2, <1>4 DEF ReplyAlways, Gate!AllowAlways
  <2> QED
    BY <2>1, SameKeys DEF Gate!Next
<1>5. ASSUME NEW id \in Ids, Timeout(id) PROVE Gate!Next
  <2>1. Gate!DecideOnce(request[id], "deny") /\ request[id] \in Keys
    BY <1>2, <1>5 DEF Timeout, Gate!DecideOnce
  <2> QED
    BY <2>1, SameKeys DEF Gate!Next
<1>6. ASSUME NEW s \in Sessions, CancelSession(s) PROVE Gate!Next
  <2>1. ASSUME NEW c \in Callers, answer[c] = "pending"
        PROVE  key[c] \in {s} \X ToolUses <=> \E id \in RowsOf(s) : request[id] = key[c]
    <3>1. joined[c] \in waiting /\ request[joined[c]] = key[c] /\ key[c] \in Keys
      BY <2>1, ApprovalsAssumption DEF ApprovalsInv, PendingHasRow, JoinedOwnCall, TypeOK
    <3>2. key[c] \in {s} \X ToolUses <=> key[c][1] = s
      BY <3>1 DEF Keys
    <3> QED
      BY <3>1, <3>2 DEF RowsOf
  <2>2. Gate!Decide({s} \X ToolUses, "deny")
    BY <1>6, <2>1, FinishDecides DEF CancelSession, RowsOf
  <2>3. Gate!DenySession(s)
    BY <1>6, <2>2 DEF CancelSession, Gate!DenySession
  <2> QED
    BY <2>3 DEF Gate!Next
<1>7. ASSUME NEW A \in SUBSET Sessions, Toggle(A) PROVE Gate!Next
  BY <1>7 DEF Toggle, Gate!Toggle, Gate!Next
<1>8. CASE UNCHANGED vars
  BY <1>8 DEF vars, Gate!vars
<1> QED
  BY <1>1, <1>3, <1>4, <1>5, <1>6, <1>7, <1>8 DEF Next

(* Rows, index, timers and chains are an implementation of the gate: every *)
(* behaviour of the store is one the gate allows.                          *)
THEOREM StoreImplementsGate == Spec => ImplementsGate
<1>1. Init => Gate!Init
  BY DEF Init, Gate!Init
<1> QED
  BY <1>1, GateStep, Invariance, PTL DEF Spec, ImplementsGate, Gate!Spec

=============================================================================
