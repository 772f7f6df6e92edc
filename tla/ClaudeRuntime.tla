---------------------------- MODULE ClaudeRuntime ----------------------------
(***************************************************************************)
(* The Claude runtime of the BFF: ClaudeSessionStore (server/claude/       *)
(* store.ts), ClaudeSupervisor (server/claude/supervisor.ts), the handlers *)
(* of server/routes/claude.ts that drive them, and the approval store they *)
(* share (module ClaudeApprovals).                                         *)
(*                                                                         *)
(* The BFF is one thread: a handler runs until it awaits, so every stretch *)
(* between two awaits, and every event callback, is one action.  What      *)
(* interleaves is handlers parked at an await, child processes, timers and *)
(* users.  Each run (turn) has its own child process, named by the run.    *)
(***************************************************************************)

CONSTANTS
  Sessions, ToolUses, Tools, ToolOf, Callers, Ids, None,
  Isolated,   \* sessions created with worktree isolation
  Runs,       \* ledger record ids (randomUUID); bounds the number of turns
  Requests    \* POST .../prompt handlers; bounds how many are in flight

ASSUME RuntimeAssumption ==
  /\ Isolated \subseteq Sessions
  /\ None \notin Runs
  /\ None \notin Sessions
  /\ ToolOf \in [ToolUses -> Tools]
  /\ None \notin Ids
  /\ None \notin Sessions \X ToolUses

VARIABLES
  \* the approval store, as in ClaudeApprovals
  waiting, request, byToolUse, standing, autoSessions, key, joined, answer,
  asker,      \* caller -> the run whose process sent the ask
  \* ClaudeSessionStore
  running, started, sawResult, activeRun,
  outcome,    \* run -> its ledger outcome, "unborn" before startRun
  runSession, \* run -> the session of its record
  \* ClaudeSupervisor
  slot,       \* session -> the child in the `children` map
  child,      \* run -> the state of its process
  signalled,  \* runs whose process was sent SIGTERM and has not ended
  resumed,    \* runs whose process was started with --resume
  \* handlers of routes/claude.ts parked at an await
  phase,      \* prompt handler -> where it is
  target,     \* prompt handler -> its session
  promptRun,  \* prompt handler -> the run it started
  worktree,   \* session -> "direct", "present" or "removed"
  closing,    \* session -> where its merge or discard handler is
  bff         \* "up", then "draining" and "closed" once a signal arrived

Approvals == INSTANCE ClaudeApprovals

approvalVars == <<waiting, request, byToolUse, standing, autoSessions, key, joined, answer>>
askVars == <<approvalVars, asker>>
storeVars == <<running, started, sawResult, activeRun, outcome>>
childVars == <<slot, child, signalled>>
promptVars == <<phase, target, promptRun>>
worktreeVars == <<worktree, closing>>
vars == <<askVars, storeVars, runSession, childVars, resumed, promptVars, worktreeVars, bff>>

Init ==
  /\ Approvals!Init
  /\ asker = [c \in Callers |-> None]
  /\ running = [s \in Sessions |-> FALSE]
  /\ started = [s \in Sessions |-> FALSE]
  /\ sawResult = [s \in Sessions |-> FALSE]
  /\ activeRun = [s \in Sessions |-> None]
  /\ outcome = [r \in Runs |-> "unborn"]
  /\ runSession = [r \in Runs |-> None]
  /\ slot = [s \in Sessions |-> None]
  /\ child = [r \in Runs |-> "none"]
  /\ signalled = {}
  /\ resumed = {}
  /\ phase = [q \in Requests |-> "idle"]
  /\ target = [q \in Requests |-> None]
  /\ promptRun = [q \in Requests |-> None]
  /\ worktree = [s \in Sessions |-> IF s \in Isolated THEN "present" ELSE "direct"]
  /\ closing = [s \in Sessions |-> "idle"]
  /\ bff = "up"

-----------------------------------------------------------------------------
(* ClaudeSessionStore                                                      *)

(* Mutants of FinishAll: activeRunId is not cleared; the record is found   *)
(* by its session instead of its id.                                       *)
FinishAllKeepsActive(S, o) ==
  /\ running' = [s \in Sessions |-> running[s] /\ s \notin S]
  /\ started' = [s \in Sessions |-> started[s] \/ s \in S]
  /\ outcome' = [r \in Runs |-> IF \E s \in S : activeRun[s] = r THEN o ELSE outcome[r]]
  /\ UNCHANGED activeRun

FinishAllBySession(S, o) ==
  /\ running' = [s \in Sessions |-> running[s] /\ s \notin S]
  /\ started' = [s \in Sessions |-> started[s] \/ s \in S]
  /\ activeRun' = [s \in Sessions |-> IF s \in S THEN None ELSE activeRun[s]]
  /\ outcome' = [r \in Runs |-> IF runSession[r] \in S THEN o ELSE outcome[r]]

(* finish(): every way a turn ends passes through here.                    *)
FinishAll(S, o) ==
  /\ running' = [s \in Sessions |-> running[s] /\ s \notin S]
  /\ started' = [s \in Sessions |-> started[s] \/ s \in S]
  /\ activeRun' = [s \in Sessions |-> IF s \in S THEN None ELSE activeRun[s]]
  /\ outcome' = [r \in Runs |-> IF \E s \in S : activeRun[s] = r THEN o ELSE outcome[r]]

FinishIfRunning(s, o) == FinishAll(IF running[s] THEN {s} ELSE {}, o) /\ UNCHANGED sawResult

(* startRun()                                                              *)
StartRun(s, r) ==
  /\ outcome[r] = "unborn"
  /\ running' = [running EXCEPT ![s] = TRUE]
  /\ sawResult' = [sawResult EXCEPT ![s] = FALSE]
  /\ activeRun' = [activeRun EXCEPT ![s] = r]
  /\ outcome' = [outcome EXCEPT ![r] = "running"]
  /\ runSession' = [runSession EXCEPT ![r] = s]
  /\ UNCHANGED started

(* applyFrame() with a result frame: a frame of a session that is not      *)
(* running is dropped.                                                     *)
ApplyResult(s, o) ==
  /\ FinishAll(IF running[s] THEN {s} ELSE {}, o)
  /\ sawResult' = [sawResult EXCEPT ![s] = @ \/ running[s]]

(* Mutant of HandleExit: a process ended by a signal settles nothing.      *)
HandleExitIgnoresSignal(s, o) ==
  /\ FinishAll(IF running[s] /\ ~sawResult[s] /\ o = "failed" THEN {s} ELSE {}, o)
  /\ UNCHANGED sawResult

(* handleExit(): the backstop.                                             *)
HandleExit(s, o) ==
  /\ FinishAll(IF running[s] /\ ~sawResult[s] THEN {s} ELSE {}, o)
  /\ UNCHANGED sawResult

-----------------------------------------------------------------------------
(* POST /claude/sessions/:id/prompt                                        *)

SetPhase(q, p) == phase' = [phase EXCEPT ![q] = p]

(* The handler returns, and its locals with it.                            *)
HandlerReturns(q) ==
  /\ SetPhase(q, "idle")
  /\ target' = [target EXCEPT ![q] = None]
  /\ promptRun' = [promptRun EXCEPT ![q] = None]

(* The 409 guard on session.running, then the first await.                 *)
PromptArrives(q, s) ==
  /\ bff = "up"
  /\ phase[q] = "idle"
  /\ ~running[s]
  /\ SetPhase(q, "verifying")
  /\ target' = [target EXCEPT ![q] = s]
  /\ UNCHANGED <<askVars, storeVars, runSession, childVars, resumed, promptRun, worktreeVars, bff>>

(* Workspace resolved and verified, worktreeExists() answered true; the    *)
(* handler goes on to reminders and staging, more awaits.                  *)
PromptVerified(q) ==
  /\ phase[q] = "verifying"
  /\ worktree[target[q]] # "removed"
  /\ SetPhase(q, "staging")
  /\ UNCHANGED <<askVars, storeVars, runSession, childVars, resumed, target, promptRun, worktreeVars, bff>>

(* Any 400, 409 or 500 before startRun.                                    *)
PromptRefused(q) ==
  /\ phase[q] \in {"verifying", "staging"}
  /\ HandlerReturns(q)
  /\ UNCHANGED <<askVars, storeVars, runSession, childVars, resumed, worktreeVars, bff>>

(* startRun() and the synchronous part of supervisor.run(): a child is in  *)
(* the session's slot, or run() threw and the handler is in its catch.     *)
StartTurn(q, r) ==
  LET s == target[q] IN
  /\ phase[q] = "staging"
  /\ StartRun(s, r)
  /\ promptRun' = [promptRun EXCEPT ![q] = r]
  /\ \/ /\ slot' = [slot EXCEPT ![s] = r]
        /\ child' = [child EXCEPT ![r] = "starting"]
        /\ resumed' = IF started[s] THEN resumed \cup {r} ELSE resumed
        /\ SetPhase(q, "spawning")
     \/ /\ SetPhase(q, "failing")
        /\ UNCHANGED <<slot, child, resumed>>
  /\ UNCHANGED <<askVars, signalled, target, worktreeVars, bff>>

(* The child's "spawn" event resolves run(); the prompt is accepted.       *)
Spawned(q) ==
  LET r == promptRun[q] IN
  /\ phase[q] = "spawning"
  /\ child[r] = "starting"
  /\ child' = [child EXCEPT ![r] = "live"]
  /\ HandlerReturns(q)
  /\ UNCHANGED <<askVars, storeVars, runSession, slot, signalled, resumed, worktreeVars, bff>>

(* Mutant of SpawnFailed: the slot keeps the child that never ran.         *)
SpawnFailedKeepsSlot(q) ==
  LET r == promptRun[q] IN
  /\ phase[q] = "spawning"
  /\ child[r] = "starting"
  /\ child' = [child EXCEPT ![r] = "errored"]
  /\ SetPhase(q, "failing")
  /\ UNCHANGED <<askVars, storeVars, runSession, slot, signalled, resumed, target, promptRun, worktreeVars, bff>>

(* The child's "error" event: the slot is cleared and run() rejects.       *)
SpawnFailed(q) ==
  LET r == promptRun[q] IN
  /\ phase[q] = "spawning"
  /\ child[r] = "starting"
  /\ child' = [child EXCEPT ![r] = "errored"]
  /\ slot' = [slot EXCEPT ![target[q]] = None]
  /\ SetPhase(q, "failing")
  /\ UNCHANGED <<askVars, storeVars, runSession, signalled, resumed, target, promptRun, worktreeVars, bff>>

(* Mutant of PromptFailed: the handler answers 502 without telling the store. *)
PromptFailedSilently(q) ==
  /\ phase[q] = "failing"
  /\ HandlerReturns(q)
  /\ UNCHANGED <<askVars, storeVars, runSession, childVars, resumed, worktreeVars, bff>>

(* The catch: staged images are removed (an await), then applyFrame() gets *)
(* an error frame for the session.                                         *)
PromptFailed(q) ==
  /\ phase[q] = "failing"
  /\ FinishIfRunning(target[q], "failed")
  /\ HandlerReturns(q)
  /\ UNCHANGED <<askVars, runSession, childVars, resumed, worktreeVars, bff>>

-----------------------------------------------------------------------------
(* The child process and the supervisor's callbacks                        *)

(* A result frame on stdout.                                               *)
ResultFrame(r, o) ==
  /\ child[r] = "live"
  /\ ApplyResult(runSession[r], o)
  /\ UNCHANGED <<askVars, runSession, childVars, resumed, promptVars, worktreeVars, bff>>

(* An error frame on stdout.                                               *)
ErrorFrame(r) ==
  /\ child[r] = "live"
  /\ FinishIfRunning(runSession[r], "failed")
  /\ UNCHANGED <<askVars, runSession, childVars, resumed, promptVars, worktreeVars, bff>>

(* Mutant of Closed: the session's rows are dropped, their callers left.   *)
ClosedDropsRows(r, o) ==
  LET s == runSession[r] IN
  /\ child[r] \in {"live", "errored"}
  /\ child' = [child EXCEPT ![r] = "closed"]
  /\ slot' = [slot EXCEPT ![s] = None]
  /\ waiting' = waiting \ Approvals!RowsOf(s)
  /\ UNCHANGED <<request, byToolUse, standing, autoSessions, key, joined, answer>>
  /\ HandleExit(s, o)
  /\ signalled' = signalled \ {r}
  /\ UNCHANGED <<asker, runSession, resumed, promptVars, worktreeVars, bff>>

(* "close": the slot is cleared whichever child it holds, the session's    *)
(* approvals are refused and the backstop runs.  The process ended by      *)
(* signal ("interrupted") or with an exit code ("failed").                 *)
Closed(r, o) ==
  LET s == runSession[r] IN
  /\ child[r] \in {"live", "errored"}
  /\ child' = [child EXCEPT ![r] = "closed"]
  /\ slot' = [slot EXCEPT ![s] = None]
  /\ Approvals!CancelSession(s)
  /\ HandleExit(s, o)
  /\ signalled' = signalled \ {r}
  /\ UNCHANGED <<asker, runSession, resumed, promptVars, worktreeVars, bff>>

(* supervisor.cancel(): SIGTERM to whatever child holds the slot.          *)
SignalSlot(s) ==
  signalled' = IF slot[s] = None THEN signalled ELSE signalled \cup {slot[s]}

-----------------------------------------------------------------------------
(* Asks of the approver inside a live process                              *)

(* The approver posts an ask: the request is on its way.                   *)
AskSent(c, r) ==
  /\ child[r] = "live"
  /\ asker[c] = None
  /\ asker' = [asker EXCEPT ![c] = r]
  /\ UNCHANGED <<approvalVars, storeVars, runSession, childVars, resumed, promptVars, worktreeVars, bff>>

(* The BFF handles it; the route checks that the session exists, not that  *)
(* it is running, and the process may be gone by then.                     *)
AskHandled(c, u) ==
  /\ asker[c] # None
  /\ Approvals!Ask(c, <<runSession[asker[c]], u>>)
  /\ UNCHANGED <<asker, storeVars, runSession, childVars, resumed, promptVars, worktreeVars, bff>>

Decision(id) ==
  /\ \/ \E d \in {"allow", "deny"} : Approvals!ReplyOnce(id, d)
     \/ Approvals!ReplyAlways(id)
  /\ UNCHANGED <<asker, storeVars, runSession, childVars, resumed, promptVars, worktreeVars, bff>>

AskTimesOut(id) ==
  /\ Approvals!Timeout(id)
  /\ UNCHANGED <<asker, storeVars, runSession, childVars, resumed, promptVars, worktreeVars, bff>>

Toggled(A) ==
  /\ Approvals!Toggle(A)
  /\ UNCHANGED <<asker, storeVars, runSession, childVars, resumed, promptVars, worktreeVars, bff>>

-----------------------------------------------------------------------------
(* POST .../cancel                                                         *)
Cancel(s) ==
  /\ bff = "up"
  /\ Approvals!CancelSession(s)
  /\ SignalSlot(s)
  /\ FinishIfRunning(s, "cancelled")
  /\ UNCHANGED <<asker, runSession, slot, child, resumed, promptVars, worktreeVars, bff>>

(* POST .../merge: the guard on session.running, then awaits up to the     *)
(* removal of the worktree.                                                *)
MergeArrives(s) ==
  /\ bff = "up"
  /\ worktree[s] # "direct" /\ closing[s] = "idle"
  /\ ~running[s]
  /\ closing' = [closing EXCEPT ![s] = "merging"]
  /\ UNCHANGED <<askVars, storeVars, runSession, childVars, resumed, promptVars, worktree, bff>>

(* worktreeExists(), isDirty() and mergeWorktree() all succeeded ...       *)
Merged(s) ==
  /\ closing[s] = "merging" /\ worktree[s] = "present"
  /\ closing' = [closing EXCEPT ![s] = "removing"]
  /\ UNCHANGED <<askVars, storeVars, runSession, childVars, resumed, promptVars, worktree, bff>>

(* ... or one of them did not, or the removal itself failed, that of a      *)
(* discard too: the answer is 409 and the worktree stays.                  *)
MergeRefused(s) ==
  /\ closing[s] \in {"merging", "removing"}
  /\ closing' = [closing EXCEPT ![s] = "idle"]
  /\ UNCHANGED <<askVars, storeVars, runSession, childVars, resumed, promptVars, worktree, bff>>

(* POST .../discard: a running turn is cancelled first, without refusing   *)
(* its approvals; then the worktree is removed.                            *)
DiscardArrives(s) ==
  /\ bff = "up"
  /\ worktree[s] # "direct" /\ closing[s] = "idle"
  /\ IF running[s] THEN SignalSlot(s) ELSE UNCHANGED signalled
  /\ FinishIfRunning(s, "cancelled")
  /\ closing' = [closing EXCEPT ![s] = "removing"]
  /\ UNCHANGED <<askVars, runSession, slot, child, resumed, promptVars, worktree, bff>>

(* removeWorktree() returned.                                              *)
WorktreeRemoved(s) ==
  /\ closing[s] = "removing"
  /\ worktree' = [worktree EXCEPT ![s] = "removed"]
  /\ closing' = [closing EXCEPT ![s] = "idle"]
  /\ UNCHANGED <<askVars, storeVars, runSession, childVars, resumed, promptVars, bff>>

-----------------------------------------------------------------------------
(* shutdown() of server/index.ts                                           *)

(* server.close(), then every running turn is finished as interrupted.     *)
ShutdownStarts ==
  /\ bff = "up"
  /\ bff' = "draining"
  /\ FinishAll({s \in Sessions : running[s]}, "interrupted")
  /\ UNCHANGED <<askVars, sawResult, runSession, childVars, resumed, promptVars, worktreeVars>>

(* The store is flushed; supervisor.close() signals the children it knows. *)
ShutdownCloses ==
  /\ bff = "draining"
  /\ bff' = "closed"
  /\ signalled' = signalled \cup {r \in Runs : \E s \in Sessions : slot[s] = r}
  /\ slot' = [s \in Sessions |-> None]
  /\ UNCHANGED <<askVars, storeVars, runSession, child, resumed, promptVars, worktreeVars>>

-----------------------------------------------------------------------------
Prompts == \E q \in Requests :
  \/ \E s \in Sessions : PromptArrives(q, s)
  \/ PromptVerified(q)
  \/ PromptRefused(q)
  \/ \E r \in Runs : StartTurn(q, r)
  \/ Spawned(q)
  \/ SpawnFailed(q)
  \/ PromptFailed(q)

Children == \E r \in Runs :
  \/ \E o \in {"completed", "failed"} : ResultFrame(r, o)
  \/ ErrorFrame(r)
  \/ \E o \in {"interrupted", "failed"} : Closed(r, o)

Asks ==
  \/ \E c \in Callers, r \in Runs : AskSent(c, r)
  \/ \E c \in Callers, u \in ToolUses : AskHandled(c, u)
  \/ \E id \in Ids : Decision(id)
  \/ \E id \in Ids : AskTimesOut(id)
  \/ \E A \in SUBSET Sessions : Toggled(A)

Users == \E s \in Sessions :
  \/ Cancel(s)
  \/ MergeArrives(s)
  \/ Merged(s)
  \/ MergeRefused(s)
  \/ DiscardArrives(s)
  \/ WorktreeRemoved(s)

Next == Prompts \/ Children \/ Asks \/ Users \/ ShutdownStarts \/ ShutdownCloses

Spec == Init /\ [][Next]_vars

(* A parked handler is resumed, a started process spawns or fails and ends *)
(* in the end (`claude -p` is one-shot), and timers fire.                  *)
Fairness ==
  /\ \A q \in Requests : WF_vars(Spawned(q) \/ SpawnFailed(q)) /\ WF_vars(PromptFailed(q))
  /\ \A r \in Runs : WF_vars(\E o \in {"interrupted", "failed"} : Closed(r, o))
  /\ \A id \in Ids : WF_vars(AskTimesOut(id))

FairSpec == Spec /\ Fairness

-----------------------------------------------------------------------------
(* What holds                                                              *)

Outcomes == {"unborn", "running", "completed", "failed", "cancelled", "interrupted"}

(* The variables that are not the approval store's.                        *)
OwnTypeOK ==
  /\ asker \in [Callers -> Runs \cup {None}]
  /\ running \in [Sessions -> BOOLEAN]
  /\ started \in [Sessions -> BOOLEAN]
  /\ sawResult \in [Sessions -> BOOLEAN]
  /\ activeRun \in [Sessions -> Runs \cup {None}]
  /\ outcome \in [Runs -> Outcomes]
  /\ runSession \in [Runs -> Sessions \cup {None}]
  /\ slot \in [Sessions -> Runs \cup {None}]
  /\ child \in [Runs -> {"none", "starting", "live", "errored", "closed"}]
  /\ signalled \subseteq Runs
  /\ resumed \subseteq Runs
  /\ phase \in [Requests -> {"idle", "verifying", "staging", "spawning", "failing"}]
  /\ target \in [Requests -> Sessions \cup {None}]
  /\ promptRun \in [Requests -> Runs \cup {None}]
  /\ worktree \in [Sessions -> {"direct", "present", "removed"}]
  /\ closing \in [Sessions -> {"idle", "merging", "removing"}]
  /\ bff \in {"up", "draining", "closed"}

(* Every variable holds a value of the code's type.                        *)
TypeOK == Approvals!TypeOK /\ OwnTypeOK

(* The session flags and the ledger agree, whatever the order of prompts,  *)
(* frames, exits and cancels: a session runs exactly while it has an       *)
(* active run, and that run's own record says "running".                   *)
RunRecordAgrees ==
  \A s \in Sessions :
    /\ running[s] <=> activeRun[s] # None
    /\ running[s] => outcome[activeRun[s]] = "running" /\ runSession[activeRun[s]] = s

(* No spinner without a cause: a running session has the process of its    *)
(* active run, or the handler that will report that it never started.      *)
RunningIsBacked ==
  \A s \in Sessions : running[s] =>
    \/ child[activeRun[s]] \in {"starting", "live"}
    \/ \E q \in Requests : phase[q] = "failing" /\ promptRun[q] = activeRun[s]

(* The slot a cancel signals never holds a process that already ended, nor *)
(* one of another session.                                                 *)
SlotIsLive ==
  \A s \in Sessions : slot[s] # None =>
    child[slot[s]] \in {"starting", "live"} /\ runSession[slot[s]] = s

(* What the three need about fresh runs and parked handlers: inductive.    *)
(* A handler past startRun holds a run of its own session; one whose child *)
(* is starting is the only one that hears of it.                           *)
RuntimeInv ==
  /\ RunRecordAgrees
  /\ RunningIsBacked
  /\ SlotIsLive
  /\ \A s \in Sessions : running[s] => ~sawResult[s]
  /\ \A r \in Runs : outcome[r] = "unborn" <=> runSession[r] = None
  /\ \A r \in Runs : child[r] # "none" => runSession[r] # None
  /\ \A c \in Callers : asker[c] # None => runSession[asker[c]] # None
  /\ \A q \in Requests : phase[q] # "idle" => target[q] # None
  /\ \A q \in Requests : phase[q] \in {"spawning", "failing"} =>
       promptRun[q] # None /\ runSession[promptRun[q]] = target[q]
  /\ \A q \in Requests : phase[q] = "spawning" =>
       /\ child[promptRun[q]] = "starting"
       /\ \A p \in Requests \ {q} :
            phase[p] = "spawning" => promptRun[p] # promptRun[q]

(* A turn's outcome is final: a late frame, a late exit or a second cancel *)
(* never rewrites a record that a turn's end already settled.              *)
OutcomeIsFinal ==
  [][\A r \in Runs : outcome[r] \notin {"unborn", "running"} => outcome'[r] = outcome[r]]_vars

(* Every turn's session comes to rest, though two prompts may overlap,     *)
(* spawns may fail and exits may be applied to the wrong turn.             *)
SessionSettles == \A s \in Sessions : running[s] ~> ~running[s]

(* Every ask held open is answered, though its process may be gone.        *)
AskSettles == \A c \in Callers : answer[c] = "pending" ~> answer[c] \in {"allow", "deny"}

-----------------------------------------------------------------------------
(* What the repository says and the code does not keep                     *)

(* docs/claude-runtime.md:27 "cancel is SIGTERM": a turn recorded as       *)
(* cancelled had its process signalled, if it still had one.               *)
CancelIsSigterm ==
  [][\A r \in Runs :
       outcome[r] = "running" /\ outcome'[r] = "cancelled" /\ child[r] \in {"starting", "live"}
       => r \in signalled']_vars

(* server/claude/store.ts:496 "Backstop: the process exited. If no result  *)
(* frame settled the run, it failed.": the run an exit settles is the run  *)
(* of the process that exited.                                             *)
ExitSettlesItsOwnRun ==
  [][\A r \in Runs : outcome[r] = "running" /\ outcome'[r] \notin {"running"}
       /\ (\E p \in Runs : child[p] # "closed" /\ child'[p] = "closed")
       => child'[r] = "closed"]_vars

(* server/routes/claude.ts:229 "Claude session is already running" (409):  *)
(* no turn starts while one runs.                                          *)
NoTurnOverTurn ==
  [][\A s \in Sessions : running[s] /\ running'[s] => activeRun'[s] = activeRun[s]]_vars

(* docs/claude-runtime.md:103 "Both remove the worktree and branch; the    *)
(* session is then finished (its cwd is gone)".                            *)
NoTurnWithoutWorktree == \A s \in Sessions : running[s] => worktree[s] # "removed"

(* docs/claude-runtime.md:26 "Each prompt is a fresh process               *)
(* (`--session-id` first, `--resume` after)": a process that is told to    *)
(* resume has a predecessor that ran.                                      *)
ResumeHasPredecessor ==
  \A r \in resumed : \E p \in Runs \ {r} :
    runSession[p] = runSession[r] /\ child[p] \in {"live", "closed"}

=============================================================================
