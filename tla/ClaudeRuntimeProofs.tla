------------------------ MODULE ClaudeRuntimeProofs ------------------------
(***************************************************************************)
(* Theorems about ClaudeRuntime, for any number of sessions, turns, prompt *)
(* handlers and approval requests.                                         *)
(***************************************************************************)
EXTENDS ClaudeRuntime, TLAPS

(* The theorems of the approval store, for the store inside the runtime.   *)
ApprovalFacts == INSTANCE ClaudeApprovalsProofs

-----------------------------------------------------------------------------
(* The runtime's own invariant says nothing of the approval store, so its  *)
(* proof does not either.                                                  *)

(* The initial state satisfies the invariant.                              *)
LEMMA InitInv == Init => OwnTypeOK /\ RuntimeInv
BY RuntimeAssumption DEF Init, OwnTypeOK, RuntimeInv, RunRecordAgrees, RunningIsBacked,
  SlotIsLive, Outcomes

(* Every step keeps the types.                                             *)
LEMMA TypeStep == OwnTypeOK /\ RuntimeInv /\ [Next]_vars => OwnTypeOK'
<1> SUFFICES ASSUME OwnTypeOK, RuntimeInv, [Next]_vars PROVE OwnTypeOK'
  OBVIOUS
<1> USE RuntimeAssumption DEF OwnTypeOK, Outcomes,
         askVars, storeVars, childVars, promptVars, worktreeVars
<1>1. ASSUME NEW q \in Requests, NEW s \in Sessions, PromptArrives(q, s) PROVE OwnTypeOK'
  BY <1>1 DEF PromptArrives, SetPhase
<1>2. ASSUME NEW q \in Requests, PromptVerified(q) PROVE OwnTypeOK'
  BY <1>2 DEF PromptVerified, SetPhase
<1>3. ASSUME NEW q \in Requests, PromptRefused(q) PROVE OwnTypeOK'
  BY <1>3 DEF PromptRefused, HandlerReturns, SetPhase
<1>4. ASSUME NEW q \in Requests, NEW r \in Runs, StartTurn(q, r) PROVE OwnTypeOK'
  <2>1. /\ target[q] \in Sessions
        /\ running' \in [Sessions -> BOOLEAN] /\ sawResult' \in [Sessions -> BOOLEAN]
        /\ activeRun' \in [Sessions -> Runs \cup {None}]
        /\ outcome' \in [Runs -> Outcomes]
        /\ runSession' \in [Runs -> Sessions \cup {None}]
    BY <1>4 DEF StartTurn, StartRun, RuntimeInv
  <2>2. /\ slot' \in [Sessions -> Runs \cup {None}]
        /\ child' \in [Runs -> {"none", "starting", "live", "errored", "closed"}]
        /\ resumed' \subseteq Runs
        /\ promptRun' \in [Requests -> Runs \cup {None}]
        /\ phase' \in [Requests -> {"idle", "verifying", "staging", "spawning", "failing"}]
    <3>1. CASE slot' = [slot EXCEPT ![target[q]] = r]
      BY <1>4, <3>1 DEF StartTurn, SetPhase
    <3>2. CASE UNCHANGED slot
      BY <1>4, <3>2 DEF StartTurn, SetPhase
    <3> QED
      BY <1>4, <3>1, <3>2 DEF StartTurn
  <2> QED
    BY <1>4, <2>1, <2>2 DEF StartTurn, StartRun
<1>5. ASSUME NEW q \in Requests, Spawned(q) PROVE OwnTypeOK'
  BY <1>5 DEF Spawned, HandlerReturns, SetPhase
<1>6. ASSUME NEW q \in Requests, SpawnFailed(q) PROVE OwnTypeOK'
  BY <1>6 DEF SpawnFailed, SetPhase
<1>7. ASSUME NEW q \in Requests, PromptFailed(q) PROVE OwnTypeOK'
  BY <1>7 DEF PromptFailed, HandlerReturns, SetPhase, FinishIfRunning, FinishAll
<1>8. ASSUME NEW r \in Runs, NEW o \in {"completed", "failed"}, ResultFrame(r, o) PROVE OwnTypeOK'
  BY <1>8 DEF ResultFrame, ApplyResult, FinishAll
<1>9. ASSUME NEW r \in Runs, ErrorFrame(r) PROVE OwnTypeOK'
  BY <1>9 DEF ErrorFrame, FinishIfRunning, FinishAll
<1>10. ASSUME NEW r \in Runs, NEW o \in {"interrupted", "failed"}, Closed(r, o) PROVE OwnTypeOK'
  BY <1>10 DEF Closed, HandleExit, FinishAll
<1>11. ASSUME NEW c \in Callers, NEW r \in Runs, AskSent(c, r) PROVE OwnTypeOK'
  BY <1>11 DEF AskSent
<1>12. ASSUME NEW c \in Callers, NEW u \in ToolUses, AskHandled(c, u) PROVE OwnTypeOK'
  BY <1>12 DEF AskHandled
<1>13. ASSUME NEW id \in Ids, Decision(id) PROVE OwnTypeOK'
  BY <1>13 DEF Decision
<1>14. ASSUME NEW id \in Ids, AskTimesOut(id) PROVE OwnTypeOK'
  BY <1>14 DEF AskTimesOut
<1>15. ASSUME NEW A \in SUBSET Sessions, Toggled(A) PROVE OwnTypeOK'
  BY <1>15 DEF Toggled
<1>16. ASSUME NEW s \in Sessions, Cancel(s) PROVE OwnTypeOK'
  BY <1>16 DEF Cancel, SignalSlot, FinishIfRunning, FinishAll
<1>17. ASSUME NEW s \in Sessions, MergeArrives(s) PROVE OwnTypeOK'
  BY <1>17 DEF MergeArrives
<1>18. ASSUME NEW s \in Sessions, Merged(s) PROVE OwnTypeOK'
  BY <1>18 DEF Merged
<1>19. ASSUME NEW s \in Sessions, MergeRefused(s) PROVE OwnTypeOK'
  BY <1>19 DEF MergeRefused
<1>20. ASSUME NEW s \in Sessions, DiscardArrives(s) PROVE OwnTypeOK'
  BY <1>20 DEF DiscardArrives, SignalSlot, FinishIfRunning, FinishAll
<1>21. ASSUME NEW s \in Sessions, WorktreeRemoved(s) PROVE OwnTypeOK'
  BY <1>21 DEF WorktreeRemoved
<1>22. CASE ShutdownStarts
  BY <1>22 DEF ShutdownStarts, FinishAll
<1>23. CASE ShutdownCloses
  BY <1>23 DEF ShutdownCloses
<1>24. CASE UNCHANGED vars
  BY <1>24 DEF vars
<1> QED
  BY <1>1, <1>2, <1>3, <1>4, <1>5, <1>6, <1>7, <1>8, <1>9, <1>10, <1>11, <1>12,
     <1>13, <1>14, <1>15, <1>16, <1>17, <1>18, <1>19, <1>20, <1>21, <1>22, <1>23, <1>24
  DEF Next, Prompts, Children, Asks, Users

(* Every step keeps the invariant.                                         *)
LEMMA InvStep == OwnTypeOK /\ RuntimeInv /\ [Next]_vars => RuntimeInv'
<1> SUFFICES ASSUME OwnTypeOK, RuntimeInv, [Next]_vars PROVE RuntimeInv'
  OBVIOUS
<1> USE RuntimeAssumption DEF OwnTypeOK,
         askVars, storeVars, childVars, promptVars, worktreeVars
<1>1. ASSUME NEW q \in Requests, NEW s \in Sessions, PromptArrives(q, s) PROVE RuntimeInv'
  BY <1>1 DEF PromptArrives, SetPhase,
    RuntimeInv, RunRecordAgrees, RunningIsBacked, SlotIsLive
<1>2. ASSUME NEW q \in Requests, PromptVerified(q) PROVE RuntimeInv'
  BY <1>2 DEF PromptVerified, SetPhase,
    RuntimeInv, RunRecordAgrees, RunningIsBacked, SlotIsLive
<1>3. ASSUME NEW q \in Requests, PromptRefused(q) PROVE RuntimeInv'
  BY <1>3 DEF PromptRefused, HandlerReturns, SetPhase,
    RuntimeInv, RunRecordAgrees, RunningIsBacked, SlotIsLive
<1>4. ASSUME NEW q \in Requests, NEW r \in Runs, StartTurn(q, r) PROVE RuntimeInv'
  <2>1. RunRecordAgrees'
    BY <1>4 DEF StartTurn, StartRun, RuntimeInv, RunRecordAgrees
  <2>2. RunningIsBacked'
    BY <1>4 DEF StartTurn, StartRun, SetPhase, RuntimeInv, RunRecordAgrees, RunningIsBacked
  <2>3. SlotIsLive'
    BY <1>4 DEF StartTurn, StartRun, RuntimeInv, SlotIsLive
  <2> QED
    BY <1>4, <2>1, <2>2, <2>3 DEF StartTurn, StartRun, SetPhase, RuntimeInv
<1>5. ASSUME NEW q \in Requests, Spawned(q) PROVE RuntimeInv'
  BY <1>5 DEF Spawned, HandlerReturns, SetPhase,
    RuntimeInv, RunRecordAgrees, RunningIsBacked, SlotIsLive
<1>6. ASSUME NEW q \in Requests, SpawnFailed(q) PROVE RuntimeInv'
  (* The handler turns to its catch, which backs the turn from now on.      *)
  <2>1. RunningIsBacked'
    BY <1>6 DEF SpawnFailed, SetPhase, RuntimeInv, RunRecordAgrees, RunningIsBacked
  <2>2. SlotIsLive'
    BY <1>6 DEF SpawnFailed, RuntimeInv, SlotIsLive
  <2> QED
    BY <1>6, <2>1, <2>2 DEF SpawnFailed, SetPhase, RuntimeInv, RunRecordAgrees
<1>7. ASSUME NEW q \in Requests, PromptFailed(q) PROVE RuntimeInv'
  BY <1>7 DEF PromptFailed, HandlerReturns, SetPhase, FinishIfRunning, FinishAll,
    RuntimeInv, RunRecordAgrees, RunningIsBacked, SlotIsLive
<1>8. ASSUME NEW r \in Runs, NEW o \in {"completed", "failed"}, ResultFrame(r, o) PROVE RuntimeInv'
  BY <1>8 DEF ResultFrame, ApplyResult, FinishAll,
    RuntimeInv, RunRecordAgrees, RunningIsBacked, SlotIsLive
<1>9. ASSUME NEW r \in Runs, ErrorFrame(r) PROVE RuntimeInv'
  BY <1>9 DEF ErrorFrame, FinishIfRunning, FinishAll,
    RuntimeInv, RunRecordAgrees, RunningIsBacked, SlotIsLive
<1>10. ASSUME NEW r \in Runs, NEW o \in {"interrupted", "failed"}, Closed(r, o) PROVE RuntimeInv'
  (* The exit settles whatever the session runs: running excludes sawResult. *)
  <2>1. \A s \in Sessions : running'[s] <=> running[s] /\ s # runSession[r]
    BY <1>10 DEF Closed, HandleExit, FinishAll, RuntimeInv
  <2>2. RunRecordAgrees'
    BY <1>10, <2>1 DEF Closed, HandleExit, FinishAll, RuntimeInv, RunRecordAgrees
  <2>3. RunningIsBacked'
    BY <1>10, <2>1, <2>2 DEF Closed, HandleExit, FinishAll, RuntimeInv, RunRecordAgrees, RunningIsBacked
  <2>4. SlotIsLive'
    BY <1>10 DEF Closed, RuntimeInv, SlotIsLive
  <2> QED
    BY <1>10, <2>1, <2>2, <2>3, <2>4 DEF Closed, HandleExit, FinishAll, RuntimeInv, RunRecordAgrees
<1>11. ASSUME NEW c \in Callers, NEW r \in Runs, AskSent(c, r) PROVE RuntimeInv'
  BY <1>11 DEF AskSent,
    RuntimeInv, RunRecordAgrees, RunningIsBacked, SlotIsLive
<1>12. ASSUME NEW c \in Callers, NEW u \in ToolUses, AskHandled(c, u) PROVE RuntimeInv'
  BY <1>12 DEF AskHandled,
    RuntimeInv, RunRecordAgrees, RunningIsBacked, SlotIsLive
<1>13. ASSUME NEW id \in Ids, Decision(id) PROVE RuntimeInv'
  BY <1>13 DEF Decision,
    RuntimeInv, RunRecordAgrees, RunningIsBacked, SlotIsLive
<1>14. ASSUME NEW id \in Ids, AskTimesOut(id) PROVE RuntimeInv'
  BY <1>14 DEF AskTimesOut,
    RuntimeInv, RunRecordAgrees, RunningIsBacked, SlotIsLive
<1>15. ASSUME NEW A \in SUBSET Sessions, Toggled(A) PROVE RuntimeInv'
  BY <1>15 DEF Toggled,
    RuntimeInv, RunRecordAgrees, RunningIsBacked, SlotIsLive
<1>16. ASSUME NEW s \in Sessions, Cancel(s) PROVE RuntimeInv'
  BY <1>16 DEF Cancel, SignalSlot, FinishIfRunning, FinishAll,
    RuntimeInv, RunRecordAgrees, RunningIsBacked, SlotIsLive
<1>17. ASSUME NEW s \in Sessions, MergeArrives(s) PROVE RuntimeInv'
  BY <1>17 DEF MergeArrives,
    RuntimeInv, RunRecordAgrees, RunningIsBacked, SlotIsLive
<1>18. ASSUME NEW s \in Sessions, Merged(s) PROVE RuntimeInv'
  BY <1>18 DEF Merged,
    RuntimeInv, RunRecordAgrees, RunningIsBacked, SlotIsLive
<1>19. ASSUME NEW s \in Sessions, MergeRefused(s) PROVE RuntimeInv'
  BY <1>19 DEF MergeRefused,
    RuntimeInv, RunRecordAgrees, RunningIsBacked, SlotIsLive
<1>20. ASSUME NEW s \in Sessions, DiscardArrives(s) PROVE RuntimeInv'
  BY <1>20 DEF DiscardArrives, SignalSlot, FinishIfRunning, FinishAll,
    RuntimeInv, RunRecordAgrees, RunningIsBacked, SlotIsLive
<1>21. ASSUME NEW s \in Sessions, WorktreeRemoved(s) PROVE RuntimeInv'
  BY <1>21 DEF WorktreeRemoved,
    RuntimeInv, RunRecordAgrees, RunningIsBacked, SlotIsLive
<1>22. CASE ShutdownStarts
  BY <1>22 DEF ShutdownStarts, FinishAll,
    RuntimeInv, RunRecordAgrees, RunningIsBacked, SlotIsLive
<1>23. CASE ShutdownCloses
  BY <1>23 DEF ShutdownCloses,
    RuntimeInv, RunRecordAgrees, RunningIsBacked, SlotIsLive
<1>24. CASE UNCHANGED vars
  BY <1>24 DEF vars,
    RuntimeInv, RunRecordAgrees, RunningIsBacked, SlotIsLive
<1> QED
  BY <1>1, <1>2, <1>3, <1>4, <1>5, <1>6, <1>7, <1>8, <1>9, <1>10, <1>11, <1>12,
     <1>13, <1>14, <1>15, <1>16, <1>17, <1>18, <1>19, <1>20, <1>21, <1>22, <1>23, <1>24
  DEF Next, Prompts, Children, Asks, Users

-----------------------------------------------------------------------------
(* The invariant holds of every behaviour.                                 *)
THEOREM RuntimeInvariance == Spec => [](OwnTypeOK /\ RuntimeInv)
<1>1. OwnTypeOK /\ RuntimeInv /\ [Next]_vars => (OwnTypeOK /\ RuntimeInv)'
  BY TypeStep, InvStep
<1> QED
  BY <1>1, InitInv, PTL DEF Spec

(* A session runs exactly while its active run's own record says so.       *)
THEOREM RecordsAgree == Spec => []RunRecordAgrees
<1>1. RuntimeInv => RunRecordAgrees
  BY DEF RuntimeInv
<1> QED
  BY <1>1, RuntimeInvariance, PTL

(* A running session always has a process or a handler that will end it.   *)
THEOREM NoOrphanSpinner == Spec => []RunningIsBacked
<1>1. RuntimeInv => RunningIsBacked
  BY DEF RuntimeInv
<1> QED
  BY <1>1, RuntimeInvariance, PTL

(* The supervisor's slot never holds an ended process nor another          *)
(* session's.                                                              *)
THEOREM SlotsAreLive == Spec => []SlotIsLive
<1>1. RuntimeInv => SlotIsLive
  BY DEF RuntimeInv
<1> QED
  BY <1>1, RuntimeInvariance, PTL

-----------------------------------------------------------------------------
(* Outcomes                                                                *)

(* Finishing sessions that run touches only records that say "running".    *)
LEMMA FinishSettlesRunning ==
  ASSUME OwnTypeOK, RunRecordAgrees, NEW S \in SUBSET Sessions, NEW o,
         \A s \in S : running[s], FinishAll(S, o)
  PROVE  \A r \in Runs : outcome[r] # "running" => outcome'[r] = outcome[r]
BY DEF OwnTypeOK, RunRecordAgrees, FinishAll

(* No step rewrites an outcome that is settled.                            *)
LEMMA OutcomeStep ==
  ASSUME OwnTypeOK, RuntimeInv, [Next]_vars
  PROVE  \A r \in Runs : outcome[r] \notin {"unborn", "running"} => outcome'[r] = outcome[r]
<1> DEFINE Kept == \A r \in Runs : outcome[r] \notin {"unborn", "running"} => outcome'[r] = outcome[r]
<1> USE DEF askVars, storeVars, childVars, promptVars, worktreeVars
<1>0. RunRecordAgrees
  BY DEF RuntimeInv
<1>1. ASSUME NEW s \in Sessions, NEW o, FinishIfRunning(s, o) PROVE Kept
  BY <1>0, <1>1, FinishSettlesRunning DEF FinishIfRunning
<1>2. CASE Prompts
  <2>1. ASSUME NEW q \in Requests, PromptFailed(q) PROVE Kept
    <3>1. target[q] \in Sessions
      BY <2>1 DEF PromptFailed, RuntimeInv, OwnTypeOK
    <3> QED
      BY <1>1, <2>1, <3>1 DEF PromptFailed
  <2>2. ASSUME NEW q \in Requests, NEW r \in Runs, StartTurn(q, r) PROVE Kept
    BY <2>2 DEF StartTurn, StartRun, OwnTypeOK
  <2> QED
    BY <1>2, <2>1, <2>2 DEF Prompts, PromptArrives, PromptVerified, PromptRefused, Spawned, SpawnFailed
<1>3. CASE Children
  <2>1. ASSUME NEW r \in Runs, NEW o \in {"completed", "failed"}, ResultFrame(r, o) PROVE Kept
    BY <1>0, <2>1, FinishSettlesRunning DEF ResultFrame, ApplyResult, RuntimeInv, OwnTypeOK
  <2>2. ASSUME NEW r \in Runs, ErrorFrame(r) PROVE Kept
    BY <1>1, <2>2 DEF ErrorFrame, RuntimeInv, OwnTypeOK
  <2>3. ASSUME NEW r \in Runs, NEW o \in {"interrupted", "failed"}, Closed(r, o) PROVE Kept
    BY <1>0, <2>3, FinishSettlesRunning DEF Closed, HandleExit, RuntimeInv, OwnTypeOK
  <2> QED
    BY <1>3, <2>1, <2>2, <2>3 DEF Children
<1>4. CASE Asks
  BY <1>4 DEF Asks, AskSent, AskHandled, Decision, AskTimesOut, Toggled
<1>5. CASE Users
  BY <1>1, <1>5 DEF Users, Cancel, MergeArrives, Merged, MergeRefused, DiscardArrives, WorktreeRemoved
<1>6. CASE ShutdownStarts
  BY <1>0, <1>6, FinishSettlesRunning DEF ShutdownStarts
<1>7. CASE ShutdownCloses \/ UNCHANGED vars
  BY <1>7 DEF ShutdownCloses, vars
<1> QED
  BY <1>2, <1>3, <1>4, <1>5, <1>6, <1>7 DEF Next

(* A late frame, a late exit or a second cancel never rewrites a settled   *)
(* record.                                                                 *)
THEOREM OutcomesAreFinal == Spec => OutcomeIsFinal
<1>1. OwnTypeOK /\ RuntimeInv /\ [Next]_vars =>
        [\A r \in Runs : outcome[r] \notin {"unborn", "running"} => outcome'[r] = outcome[r]]_vars
  BY OutcomeStep
<1> QED
  BY <1>1, RuntimeInvariance, PTL DEF Spec, OutcomeIsFinal

-----------------------------------------------------------------------------
(* The approval store inside the runtime                                   *)

(* Every step of the runtime is one operation of the approval store, or    *)
(* leaves it alone.                                                        *)
LEMMA ApprovalStep ==
  ASSUME OwnTypeOK, RuntimeInv, [Next]_vars
  PROVE  [Approvals!Next]_(Approvals!vars)
<1> USE DEF askVars, approvalVars, Approvals!vars
<1>1. ASSUME NEW c \in Callers, NEW u \in ToolUses, AskHandled(c, u) PROVE Approvals!Next
  <2>1. runSession[asker[c]] \in Sessions
    BY <1>1 DEF AskHandled, RuntimeInv, OwnTypeOK
  <2> QED
    BY <1>1, <2>1 DEF AskHandled, Approvals!Next, Approvals!Keys
<1>2. ASSUME NEW id \in Ids, Decision(id) \/ AskTimesOut(id) PROVE Approvals!Next
  BY <1>2 DEF Decision, AskTimesOut, Approvals!Next
<1>3. ASSUME NEW A \in SUBSET Sessions, Toggled(A) PROVE Approvals!Next
  BY <1>3 DEF Toggled, Approvals!Next
<1>4. ASSUME NEW c \in Callers, NEW r \in Runs, AskSent(c, r) PROVE UNCHANGED Approvals!vars
  BY <1>4 DEF AskSent
<1>5. CASE Children
  <2>1. ASSUME NEW r \in Runs, NEW o \in {"interrupted", "failed"}, Closed(r, o) PROVE Approvals!Next
    BY <2>1 DEF Closed, Approvals!Next, RuntimeInv, OwnTypeOK
  <2> QED
    BY <1>5, <2>1 DEF Children, ResultFrame, ErrorFrame
<1>6. CASE Users
  <2>1. ASSUME NEW s \in Sessions, Cancel(s) PROVE Approvals!Next
    BY <2>1 DEF Cancel, Approvals!Next
  <2> QED
    BY <1>6, <2>1 DEF Users, MergeArrives, Merged, MergeRefused, DiscardArrives, WorktreeRemoved
<1>7. CASE Prompts
  BY <1>7 DEF Prompts, PromptArrives, PromptVerified, PromptRefused, StartTurn, Spawned, SpawnFailed, PromptFailed
<1>8. CASE ShutdownStarts \/ ShutdownCloses \/ UNCHANGED vars
  BY <1>8 DEF ShutdownStarts, ShutdownCloses, vars
<1> QED
  BY <1>1, <1>2, <1>3, <1>4, <1>5, <1>6, <1>7, <1>8 DEF Next, Asks

(* So the runtime drives the approval store as the store's specification    *)
(* allows.                                                                 *)
LEMMA RuntimeUsesApprovals == Spec => Approvals!Spec
<1>1. Init => Approvals!Init
  BY DEF Init
<1>2. OwnTypeOK /\ RuntimeInv /\ [Next]_vars => [Approvals!Next]_(Approvals!vars)
  BY ApprovalStep
<1> QED
  BY <1>1, <1>2, RuntimeInvariance, PTL DEF Spec, Approvals!Spec

(* So every variable of the runtime, the store's included, holds a value   *)
(* of the code's type, and all that was proved of the store holds here.    *)
THEOREM RuntimeTypes == Spec => [](TypeOK /\ Approvals!ApprovalsInv)
<1>1. Approvals!ApprovalsAssumption
  BY RuntimeAssumption DEF Approvals!ApprovalsAssumption, Approvals!Keys
<1>2. Approvals!Spec => [](Approvals!TypeOK /\ Approvals!ApprovalsInv)
  <2>1. ApprovalFacts!Spec => [](ApprovalFacts!TypeOK /\ ApprovalFacts!ApprovalsInv)
    BY <1>1, ApprovalFacts!Invariance DEF Approvals!ApprovalsAssumption, ApprovalFacts!ApprovalsAssumption,
      Approvals!Keys, ApprovalFacts!Keys
  <2>2. Approvals!Init => ApprovalFacts!Init
    BY DEF Approvals!Init, ApprovalFacts!Init, Approvals!Keys, ApprovalFacts!Keys
  <2>3. [Approvals!Next]_(Approvals!vars) => [ApprovalFacts!Next]_(ApprovalFacts!vars)
    BY Zenon DEF Approvals!Next, ApprovalFacts!Next, Approvals!vars, ApprovalFacts!vars,
      Approvals!Keys, ApprovalFacts!Keys, Approvals!Ask, ApprovalFacts!Ask,
      Approvals!AskCovered, ApprovalFacts!AskCovered, Approvals!AskJoin, ApprovalFacts!AskJoin,
      Approvals!AskNew, ApprovalFacts!AskNew, Approvals!StandingAllows, ApprovalFacts!StandingAllows,
      Approvals!ReplyOnce, ApprovalFacts!ReplyOnce, Approvals!ReplyAlways, ApprovalFacts!ReplyAlways,
      Approvals!Timeout, ApprovalFacts!Timeout, Approvals!CancelSession, ApprovalFacts!CancelSession,
      Approvals!RowsOf, ApprovalFacts!RowsOf, Approvals!Finish, ApprovalFacts!Finish,
      Approvals!Toggle, ApprovalFacts!Toggle
  <2>4. ApprovalFacts!TypeOK /\ ApprovalFacts!ApprovalsInv => Approvals!TypeOK /\ Approvals!ApprovalsInv
    BY Zenon DEF Approvals!TypeOK, ApprovalFacts!TypeOK, Approvals!ApprovalsInv, ApprovalFacts!ApprovalsInv,
      Approvals!Keys, ApprovalFacts!Keys, Approvals!Answers, ApprovalFacts!Answers,
      Approvals!IndexInv, ApprovalFacts!IndexInv, Approvals!PendingHasRow, ApprovalFacts!PendingHasRow,
      Approvals!JoinedOwnCall, ApprovalFacts!JoinedOwnCall, Approvals!OneDecision, ApprovalFacts!OneDecision
  <2> QED
    BY <2>1, <2>2, <2>3, <2>4, PTL DEF Approvals!Spec, ApprovalFacts!Spec
<1>3. OwnTypeOK /\ Approvals!TypeOK => TypeOK
  BY DEF TypeOK
<1> QED
  BY <1>2, <1>3, RuntimeInvariance, RuntimeUsesApprovals, PTL
=============================================================================
