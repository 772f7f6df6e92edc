# dcaleon: verification project

TLA+ models of dcaleon: its server (the BFF under `src/server`), the DSH bridge
process, and those parts of the client that keep state of their own (the session
pages, the service worker's badge, push registration). TLC configurations check
them on small instances, and TLAPS proves what matters most for every instance.
Paths below are relative to `src/`.

dcaleon is a phone-first control panel for coding agents. One Node process (the
BFF) stands between a React client and three agent runtimes: `opencode serve`
(HTTP plus an event stream), the `claude` CLI (one child process per turn) and
DSH (a long-lived bridge process per workspace). The BFF runs on one thread:
code runs until it awaits, and every model here takes the stretch between two
awaits, or one event callback, as one step. What interleaves is handlers parked
at an await, timers, child processes, other users' requests and crashes.

## 1. The system

In parentheses after a component, the modules that model it. Where there is none,
`PROJECT.json` says why.

| Component | State | Operations | What is hard | What makes it correct |
|---|---|---|---|---|
| **Claude approval store** `server/claude/approvals.ts` (`ClaudeApprovals`) | `waiting`, `byToolUse`, `standing`; one timer per row; the settle chain of each row | `ask`, `chain`, `reply`, `cancelSession`, timer | retried asks join a row while timer, reply and end of turn race | every held request gets one final answer, the same for all who joined; a rule comes only from a human's answer |
| **Claude runtime** `store.ts`, `supervisor.ts`, `routes/claude.ts`, `index.ts` (`ClaudeRuntime`) | session flags, ledger records, `children` map, parked handlers | prompt, frames, exit, cancel, merge, discard, shutdown | checks before awaits; events of one child applied to a session that has another | flags and ledger agree; outcomes final; no spinner without cause; turns end |
| **Claude persistence** `store.ts` (`ClaudeDurability`) | two files, a chain of queued snapshots | `persist`, `persistSessions`, `load` | crash between two writes, failed writes | flushed means durable; recovery settles exactly what ran |
| **Claude worktrees** `server/claude/worktree.ts` (`ClaudeWorktrees`) | the worktree, its branch, the project's tree, origin | merge, discard, pull request: a sequence of git commands each | a turn or a lingering child writes between two commands; any command may fail | nothing the agent wrote gets lost; an answer says what was done |
| **Claude transcript** `server/claude/transcript.ts`, `client/lib/useClaudeTranscript.ts` (`ClaudeTranscript`) | the index with its epoch and revisions; the page's window and cursors | page, delta, poll, load earlier or later, evict | deltas against pages that were loaded meanwhile; epochs that end; rows that change | the window is a gapless part of the transcript and misses no change |
| **Auto-permissions** `server/opencode/autoPermissions.ts` (`AutoPermissions`, `AutoPermissionFile`) | per directory: flag, source, generation, promise queue, failures, answered ids; shared state file | `setEnabled`, event handlers, reconcile, approve, file reconcile | toggles and events while a task awaits opencode; lost events; two processes on one file | no approval after a disable returned; no open request forgotten; status tells the truth |
| **opencode prompts** `server/opencode/sessions.ts`, `server/routes/sessions.ts` (`SessionPrompts`) | `sessionPromptTails`, a lock per session | prompt in Plan or Build, as the session's agent, to a managed child | the policy is put on and the prompt sent in two calls, each of which may fail or lose its answer | prompts of a session are serial; each runs under its own policy |
| **opencode launches** the same files and `server/opencode/worktrees.ts` (`SessionLaunches`) | two bounded maps of idempotency keys; worktree waiters | managed child, root session, cleanup | retries while the first is in flight; a worktree's event before its POST's answer | one session per key; nothing left over unnamed |
| **opencode sub-agents** `server/opencode/subagents.ts` (`Subagents`) | none: derived from four requests | merge launches, children and evidence | the evidence is read at four moments, some of it is missing, and a message is understood by its words | completed has something completed behind it; an end that was seen is told |
| **opencode event bus** `server/opencode/events.ts` (`SessionStream`) | controller, backoff | connect, read, reconnect | what is sent while it is down is lost | reconnects for ever |
| **opencode message pages** `server/opencode/sessions.ts` (`TranscriptPages`) | none | a page by cursor | - | pages adjoin |
| **opencode client and catalogues** | caches | HTTP translations | - | - |
| **Notification service and history** `server/notifications/service.ts`, `history.ts` (`Notifications`) | parked timers, lineage cache and lookup slots, abort window; records, badge revision, file | classify, suppress, append, deliver, escalate, check off, prune | the answer to a request overtakes its ask; a timer races the reply; a verdict arrives late | every delivered record stays until checked off; nothing answered is escalated; count and revision move together |
| **Web push** `server/notifications/webpush.ts`, `client/lib/webPush.ts` (`PushDevices`) | the registrations | add, remove, expire; the browser renews | expiry against a renewal of the same endpoint | an accepted device stays listed; dead rows go |
| **ntfy, preferences, audit** | a file each | read, write, send | - | - |
| **DSH runs** `server/dsh/*`, `server/routes/dsh.ts`, `scripts/dsh-bridge.py` (`DshRuns`) | the store's ledger, the pool's bridge, `pending` requests; in the bridge, one loop and a thread per turn | prompt, cancel, lines, timeout, exit, replacement | lines name a session, not a run; several cancels of one session, which time out or fail; the process dies with lines unread | an outcome is the run's own; every run ends |
| **DSH capture and trajectory** `server/routes/dsh.ts`, `server/dsh/trajectory.ts`, `client/components/dsh-trajectory-inspector.tsx` (`DshCapture`, `DshPages`) | a bounded queue and a set of sessions that lost records; the pages a reader has | capture, write, page, load earlier | the queue is full; two numberings behind one cursor | a loss for want of room is named; who loads all pages has all events |
| **Browser** `server/browser/manager.ts` (`BrowserSlots`, `BrowserStream`) | `context`, `launching`, `pages`, the `opening` chain, the reaper; a stream and its chain per page | open, close, reap, attach, detach | Chromium's close events name a session only; attaches and closes cross | at most `maxPages`; a slot names a live page; a page is awake exactly while it is watched |
| **Planning** `server/github-planning.ts`, `server/routes/planning.ts` (`PlanningCache`) | the cached list, the load in flight, a generation | read, refresh, write | a write during a load | a tab that asks after a write sees the write; loads are shared |
| **Client session page** `client/lib/useSessionStream.ts`, `messagePages.ts` (`SessionStream`, `TranscriptPages`) | what is shown, a gate per scope, the event source and its backoff, pages of rows | poll, stream, hide, switch session, answer a request, load earlier | answers of the session that was left; events lost while reconnecting | shows its own session; catches up |
| **Service worker badge** `client/public/sw.js`, `client/lib/appBadge.ts` (`BadgeSync`) | the stored count and revision, a queue, a lease per page | push, sync, lease, release, abandon | pages that are slow or die in the middle | the icon shows the stored count; nobody wedges the queue |
| **Claude bus bridges** `approvalBridge.ts`, `notifications.ts` (claude) | reason map | store events become bus events | - | - |
| **Claude credentials and usage; config, files, prompt, attachments** | last published state | timer, file reads, validation, composing | - | - |
| **Reminders, workflows; other routes, deployment, logs, forge** | caches | file, process and GitHub reads | - | - |
| **Other client pages; simulator, scripts, deploy, docs** | React state | rendering | - | - |

How they interact: the routes call the stores and the supervisor directly; the
supervisor calls back into the route module (frame, exit, error), which applies
frames to the store and refuses approvals whose turn is over; the approver, a
small MCP server inside each `claude` process, posts asks to an internal route
and holds the request open; `approvalBridge` and the claude `notifications`
module turn store events into bus events, which the notification service
handles like opencode's own; the auto-permissions service listens to the same
bus, answers opencode, and is asked by the approval store (`autoApprove`) and
the notification service (`isEnabledCanonical`). The notification service hands
its deliveries to web push, with the badge count and its revision; the service
worker takes both from the push, and an open page hands it the revision it read.
The session page polls the routes and listens to `GET /events`, which passes on
what the event bus receives. DSH routes, store and bridge are one chain from a
prompt to the store's ledger, and each step of it also feeds the capture queue.

`PROJECT.json` lists every component with its status, and every hazard at the
line where it bites.

## 2. Modules

| Module | Models | Kind |
|---|---|---|
| `ApprovalGate` | what an approval store promises, with no rows, ids or timers | abstract specification |
| `ClaudeApprovals` | `approvals.ts` and the two routes that reach it | detailed specification |
| `ClaudeRuntime` | session store, supervisor, prompt/cancel/merge/discard handlers, shutdown, with `ClaudeApprovals` as an instance | composition |
| `ClaudeDurability` | the two files of `store.ts`, the write chain, crash and `load()` | detailed specification |
| `ClaudeWorktrees` | merge, discard and pull request, git command by git command | component |
| `ClaudeTranscript` | the transcript index and the page's window on it | client and server |
| `AutoPermissions` | `AutoPermissionService` for one directory | detailed specification |
| `AutoPermissionFile` | two processes that share the state file | component |
| `Notifications` | `NotificationService` with the history and its file | composition |
| `SessionPrompts` | the prompt lock and the Plan or Build policy | component |
| `SessionLaunches` | launches under an idempotency key | component |
| `Subagents` | how the ledger of sub-agents is derived | component |
| `DshRuns` | routes, store, bridge and bridge process of DSH turns | composition |
| `DshCapture` | the capture queue of `routes/dsh.ts` | component |
| `DshPages` | the pages of a trajectory and the reader of them | client and server |
| `BrowserSlots` | contexts, pages, the opening chain, closes and the reaper | component |
| `BrowserStream` | the streams of one page | component |
| `PushDevices` | push registrations, renewals and expiry | client and server |
| `BadgeSync` | the service worker's badge queue and the pages' leases | client |
| `SessionStream` | the session page's polls and event stream, over the event bus | client and server |
| `TranscriptPages` | the message pages of a session page | client and server |
| `PlanningCache` | the planning snapshot | component |
| `ClaudeApprovalsProofs`, `ClaudeRuntimeProofs`, `ClaudeDurabilityProofs`, `AutoPermissionsProofs` | theorems about the modules they are named after | proofs |
| `PartsProofs` | theorems about `DshCapture`, `PlanningCache`, `BrowserStream`, `BrowserSlots`, `AutoPermissionFile`, `ClaudeWorktrees`, `Subagents` and `DshRuns` | proofs |
| `PagesProofs` | theorems about `TranscriptPages`, `DshPages`, `ClaudeTranscript` and `SessionStream` | proofs |
| `ServicesProofs` | theorems about `SessionPrompts`, `BadgeSync`, `PushDevices` and `SessionLaunches` | proofs |
| `NotificationsProofs` | theorems about `Notifications` | proofs |
| `MCClaudeApprovals`, `MCClaudeRuntime`, `MCClaudeDurability`, `MCAutoPermissions`, `MCNotifications` | instances for TLC (symmetry, the tool of each call, the session of each ask) | - |
| `MCServices`, `MCParts` | the other modules side by side | - |

`MCServices` and `MCParts` put modules that share no state into one run each:
the variable `moves` is chosen at the start and only that module takes steps,
so the states are the sum of the modules' states and not their product. What
does not move stands still in one initial state. Each property of those runs is
the properties of its modules, with their type invariants, each asked where its
module moves. In `MCServices`, fairness conditions of different modules are
written as one weak fairness condition, which is no stronger than each module's
own as only one of them is ever enabled.

### ApprovalGate and ClaudeApprovals

`Callers` are the HTTP requests held open; a retried ask is a second caller with
the same key. `waiting`, `byToolUse` and `standing` are the three maps of the
class (the request record is `request[id]`); a waiter's timer is armed as long
as it is in `waiting`, so `Timeout(id)` is enabled exactly then. The settle
chain (`chain()` replaces `waiter.settle` with a function that calls the earlier
one) is `joined`: settling a row tells every caller chained to it. `Finish`
settles a set of rows because `cancelSession()` loops over a session's rows
without an await. The `autoApprove` callback is the set `autoSessions`, changed
by `Toggle`. The abstract gate knows only callers, keys, answers and rules: rows,
ids, index and chains are erased by `INSTANCE ApprovalGate WITH verdict <- answer`.

### ClaudeRuntime

A run is a ledger record and also names the process that its prompt handler
started. `phase[q]` says where a prompt handler is parked: `verifying` (after
the 409 check of `routes/claude.ts:229`, before the worktree check at 241),
`staging` (after it), `spawning` (awaiting the child's `spawn` or `error`),
`failing` (in the catch, before the error frame). `StartTurn` is the stretch
from the last await to `supervisor.run()`'s: `startRun()`, then the slot, or the
throw. `Closed` is the whole `close` callback: slot deleted, approvals refused,
`handleExit()`. The store's operations (`FinishAll`, `StartRun`, `ApplyResult`,
`HandleExit`) take the session only, as the code does: nothing ties a frame or an
exit to the run it came from, and the model keeps that. `merge` and `discard`
are handlers of their own (`closing`). `ShutdownStarts` and `ShutdownCloses` are
the two halves of `shutdown()` around the flush.

The approval variables are shared by name with `Approvals == INSTANCE
ClaudeApprovals`; every action either applies one of its operations or leaves
them alone. `MergeRefused` is also the failure of `removeWorktree()`, of a merge or
of a discard: the answer is 409 and the worktree stays.

### ClaudeDurability

`chain` is `writeChain`: a sequence of snapshots, each taken when it was queued.
`LedgerWrite` and `SessionsWrite` use the primed memory because `persist()` and
`persistSessions()` stand after the assignments. `atomicWrite()` writes a
temporary file and renames it, so a write happens whole (`WriteOk`) or not at
all (`WriteFails`, which emits an error and lets the chain go on). `Crash` drops
memory and chain; `Load` is `load()`, including what it writes back. Sessions
exist on disk from the start. A session's `running` flag is `activeRunId` being
set: `RunRecordAgrees`, proved in `ClaudeRuntimeProofs`, is the reason.

### AutoPermissions

One directory, since directories share nothing but the state file. `queue` is
the promise chain of `enqueue()`; its head is the running task, and `step` says
at which await that task is. A `setEnabled(false)` that awaits the tail of the
queue is a `drain` entry: it returns when everything before it is done and holds
nothing up. `generation` outdates queued tasks. `persistQueue` keeps the order in
which calls return from the state-file write. The file's own contents are
whatever another writer put there (`FileLists`, `FileDrops`). opencode and the
event stream are external: a request is asked once, an event is lost if the
stream drops before it is delivered, replies may be carried out although their
answer is lost, and handlers of events may overtake each other (they await a
`realpath` and perhaps a file read first).

### ClaudeWorktrees

`op[r]` is a request and the git command it comes to next: a merge asks whether
the project is clean (`Clean`), looks at the worktree (`Status`), stages and
commits what it finds (`Add`, `Commit`), asks what is ahead (`Ahead`), merges,
aborts on a conflict, removes the worktree and then the branch. A discard starts
at the removal; a pull request commits and pushes. Any command may fail
(`Fails`), and the server may stop (`Stops`). `Writes` is a turn's edit, also by
a child that lingers after a cancel: cancelling frees the session at once while
the process takes up to two signals to die. `late` holds what was written while
a merge of the session was under way: `NothingLost` leaves it out, since the
code does lose it (see below). A commit takes the whole tree: files that git
ignores, which `git add -A` leaves behind, are not in the model, nor is a removal
that fails half way through the directory.

### ClaudeTranscript

`first..last` are the events the store keeps, `rev[i]` the revision at which
the index saw event `i` change, `epoch` the index's identity, which ends with a
restart or when the oldest event goes. `Read` is the route's choice between a
delta, a page and a reset; `Deliver` is the hook's reconciliation: take a delta,
join a page of earlier or later rows, or replace the window, and evict what is too
much from the end away from the reader. `Pin` is the reader scrolling up. One
request is on its way at a time: a refresh waits for it (`queued`), another load
aborts it. Search and the action filter are other readings of the same pages.

### AutoPermissionFile

Two processes and some directories. `SetEnabled` changes the memory and queues
the list as it is at the call; `Renames` and `Stats` are the two halves of a
write, of which the first replaces the file at once and the second notes the
mtime of whatever is there by then. A pass looks at the mtime (`Looks`), notes it
if it is new (`Compares`), reads the file (`Reads`) and lets the directories that
were not toggled here follow it (`Applies`). `mixed` is a ghost: a pass
overlapped a write of its own process, a write came between another's rename and
stat, or a read failed. Memory and file may then differ with nothing left to
read, which `FollowsFile` leaves out. In `AutoPermissions` the same file is an
outside writer of one directory.

### Notifications

A `job` is one call of a handler: `phase` names the await it is parked at
(lineage lookup, preferences, excerpt, the auto-permissions check, append,
delivery). `wire` is the stream of bus events, in order; their handlers are not:
an event is handled while the one before still awaits. `lookups` and `slots` are
the in-flight lineage lookups and their budget (`LookupSlots`, four in the code);
`aborted` is the window in which an abort silences the end of its turn; `armed`
the requests with a parked timer. `seen` holds the keys of the echo dedupe: abort
and error are one event type, and a question has an id of its own, so the key of one
stands for those of its session and another question may pass it. `records`, `revision` and `file` are the
history: each change is followed by a write of its whole list, which a restart
loads. A record keeps its place when pruning takes others away, as it keeps its id
in the code; a new one comes above all. The badge counts the active, delivered records (`BadgeCount`).

### SessionPrompts

`tail[s]` is the map `sessionPromptTails`. A request joins the line (`Join`),
reads the session when it is its turn (`Read`), patches the policy when it has
one (`Patch`) and submits (`Submit`); each upstream call is carried out or not,
and its answer may be lost either way. `denied[s]` is the effect of opencode's
permission rules, of which the last match counts; `suffix[s]` the rules last
appended, which a prompt of the same mode and catalogue need not append again.
`sent` is a ghost: what held at opencode when a prompt was submitted. Two
simplifications: the rules Build puts on a session deny nothing (those of an agent's
own denies that `buildRulesForTools` projects are not in the model), and a child whose
marker names another policy than its session has is refused before it takes the lock,
where the code refuses it with the lock held.

### SessionLaunches

`kind` says which of the two maps the instance is: managed children (a failed
launch gives its key back) or root sessions (it keeps it and replays its error).
`entries` is the map in insertion order, from which the oldest settled entry is
dropped to make room; a full map of launches in flight refuses. A launch goes
through `Policy`, `MakeTree` and the worktree's event, `Create`, `Verify`,
`Submit`, and `Cleanup` when a step fails after the session was made. `buffered`
are the worktree events that come before the POST's answer tells whose they are.

### Subagents

What children do (`Begins`, `Answers`, `Steps`, `Ends`, `Cancelled`, `Promotes`,
`Restart` of the server that owns them), what is written of them in the parent, and
what a request for the ledger reads: the status of the sessions, the parent's
transcript, then a bounded number of the children's own transcripts (`Probe`), then
`Derive` with its precedence. Steps of the children come between the reads, and each
read may be refused. `sure`, `done` and the fields of `report` other than `state` are
ghosts.

A message of role "user" tells of a child by its words (`Reading`): it has words of
failure, of success, of both or of neither, and those of failure are looked for
first. A hand-back (`Notifies`) has the words its text happens to have, so a completed
child may be told as failed, or not at all; what is assumed of opencode is that the
hand-back of a child that failed does not speak of success alone. A human who names
the child (`Mentions`) may write anything. A turn completes an answer for each of its
steps (`Steps`), its last one with its end (`Ends`): the code looks at the last answer
only (`childTerminalState`), and so does `Probe`.

### DshRuns, DshCapture and DshPages

`DshRuns` follows a turn from the route's checks (`Prompt`, parked at
`verifyWorkspaceIdentity`) through `Start` to the bridge, into the process
(`TakePrompt`, a thread per turn, `Accepts` once it has started) and back as lines
(`Reads`) to the ledger. An answer goes to the request whose id it carries (`calls` is
`pending`, per process); any other line names a session and nothing else, so what it
does to the store depends on the store alone: `Outcome` closes the session's newest
open record, if it runs at all, with the outcome the turn's reason or the answer has
(`Ended`). A cancel is asked whatever the session does and as often as somebody asks.
The bridge process waits five seconds for a cancelled turn's thread and then exits by
itself (`ForcedExit`); when the harness cannot be closed it answers with the error and
the turn goes on, with its session among the `cancelled` (`CloseRaises`); the server
gives a request up after a time of its own and kills the process (`TimesOut`); `Exits`
fails every running session of the preset and workspace; `Replaced` is a workspace
whose identity changed. A process is up from its spawn: that it is not ready yet (up
to ten seconds, `bridge.ts:134`) is that it has read none of its lines, and a request
made meanwhile waits in `inbox`; that it never gets ready is a timeout or an exit, and
`StartFails` is the start that fails at once. One thing is not the code's: a request
made while a process that never got ready is being killed is refused at once there,
and here with the exit.

`crossed` is a ghost that marks the cases the properties leave out: a prompt accepted
while another of its session is between its check and its start, a prompt beside a
cancel of its session that waits or under the mark of one that failed, a cancel that
fails while an end of its session's turns is on its way, lines unread when a process
dies, an old process outliving its replacement.

`DshCapture` is the queue: `queue`'s head is being written, `overflow` the
sessions whose records found it full, each owed one record that says so. A record
that was queued and cannot be written is lost with a warning and nothing else:
`Accounts` counts it among the losses, and `unnamed` names the sessions that are owed
no gap record, for that reason or because the set of names was full.
`DshPages` is the trajectory's `page()` with its reader: in durable mode a native
event is paged by its place in the log and a lifecycle event by its place in the
capture, which is what the violation run is about.

### BrowserSlots and BrowserStream

`opens` is the `opening` promise chain, whose head is at one of the awaits of
`openPage`; `closing` are the calls of `close` (the route's and the reaper's),
which wait for as much of the chain as they found. Chromium's `close` events are
steps of their own. `BrowserStream` is one page with its `streamOperation` chain:
attach and detach queue an operation, whose two or three commands check before
each whether its response still is the one that is streamed to. `newest` is a
ghost: the last response attached.

### PushDevices and BadgeSync

`browser[d]` is a device's subscription, `posting[d]` its registrations on
their way, `rows` the server's list, `sending` and `expired` a delivery: rows
listed, then answered, then removed if the push service said 404 or 410, by
endpoint and keys. `BadgeSync` is the worker's queue of tasks (a push, a page's
sync, a reapply), the page's side of the handshake, and the lease that the
worker gives up after 2 s and abandons after 30 s. `late` marks a page that
writes the icon after that.

### SessionStream and TranscriptPages

`gen` is the page's `scope` counter: answers of an older one are dropped. `gate`
is the poll gate, `flight[g]` a poll with what it has read so far: messages and
requests are two calls, so what is shown may be of two moments. `source` is the
`EventSource` with its backoff, `bus` the server's subscription at opencode; a
change is a nudge if both are up and is lost otherwise, until the poll timer.
`ReplyTaken` and `ReplyAnswered` are the user's answer to a permission request.
`TranscriptPages` keeps the newest page, which every poll replaces, and the older
rows with their cursor; `Event` and `Reconnect` give the older rows up. A load
remembers the cursor it was asked by. The ghost `outlived` is true from the moment
older rows are given up while the load of more of them stays welcome; see the
session page in the list below.

### PlanningCache

`getPlanningSnapshot` serves the cached list or joins or starts a load (`Get`),
a load reads and ends later (`Reads`, `Ends`), and a write invalidates by
counting `cacheGeneration` up. `acked` and `need` are ghosts. The pages of one load
are read at one moment here, and at several in the code: a list whose pages are of
different versions is not in the model.

## 3. Runs

Passing runs:

| Run | Instance | States | Shows |
|---|---|---|---|
| `claude_approvals` | 2 sessions, 2 tool_use ids of one tool, 3 callers, 2 rows | 45 thousand | `ApprovalsInv` (`IndexInv`, `PendingHasRow`, `JoinedOwnCall`, `OneDecision`); rules need a row; the store implements the gate; every ask is answered |
| `claude_turns` | 2 sessions (one with a worktree), 2 turns, 2 prompt handlers, no asks | 2.0 million (symmetric) | `RuntimeInv` (`RunRecordAgrees`, `RunningIsBacked`, `SlotIsLive` and what they need), `OutcomeIsFinal` |
| `claude_live` | 1 session, 2 turns, 2 handlers that may overlap, 1 caller, 1 row | 686 thousand | the session comes to rest, also when a turn starts over another; every ask is answered |
| `claude_durability` | 2 sessions, 3 turns, ledger of 2, 2 crashes, 1 failed write | 933 thousand | `DurabilityInv` (`FlushedIsDurable`, `ActiveIsInLedger`), `NeverRunningAgain`, `RecoveryIsLocal`, `NoSpinnerForever` |
| `auto_permissions` | 2 requests, 2 toggles, 1 flip of the file, 1 lost stream | 7.5 million (symmetric) | `NoApprovalAfterDisable`, `NobodyForgotten` |
| `auto_permissions_live` | 1 request, 2 toggles, 2 flips (listed, dropped), 1 lost stream | 440 thousand | `QueueInv` (the inductive form of `NobodyForgotten`), `RequestSettles`, `FailureClears` |
| `notifications` | 1 session, 1 ask, 4 handler calls, 1 lookup slot, a history of 1, 3 steps from outside | 255 thousand | `ServiceInv` (`BudgetBalanced`, `HidesOnlyChildren`, `NoStaleEscalation`), `CountMovesRevision`, `UncheckedStays`, `StalledAskEscalates` |
| `services` | `SessionPrompts`, `SessionLaunches`, `DshRuns`, `BadgeSync`, `PushDevices`, `SessionStream` (without requests), `ClaudeTranscript`, with fairness | 350 thousand | `PromptInv` (serial, own policy, identity kept), `LaunchInv` (one in flight, one prompted, leftovers named, own worktree), `DevicesInv` (the icon shows the stored count, an accepted device is listed), and that lines, launches and runs settle, badges and dead rows settle, pages catch up |
| `parts` | `BrowserStream`, `BrowserSlots`, `DshRuns` (with two cancels), `DshCapture`, `SessionStream` (with requests), `TranscriptPages`, `DshPages`, `ClaudeTranscript`, `Subagents`, `PlanningCache`, `ClaudeWorktrees`, `AutoPermissionFile` | 5.3 million | `BrowserInv` (pages follow their stream, slots capped and live), `DshInv` (outcomes are the run's own, open runs are the newest, what is on its way of a run or a cancel is in one place), `CaptureInv` (a loss is named), `StreamInv`, `PagesInv` (no hole, no repeat, no missed change), `LedgerInv`, `PlanningInv`, `WorktreeInv`, `AutoFileInv` (memory follows the file, the file holds the last toggles) |

Runs that end in a violation, each a sentence of the repository that the code
does not keep (quoted in `PROJECT.json` under `findings`):

| Run | Property | What happens |
|---|---|---|
| `turn_over_turn` | `NoTurnOverTurn` | two prompt handlers pass the check of `session.running` before either starts; the second turn replaces the first, whose record stays "running" |
| `browser_orphan` | `LivePageHasSlot` | the close event of a session's former page arrives after the session opened its next one and deletes the new page's slot: a live page that neither the cap nor the reaper sees |
| `dsh_pages` | `AllShown` | with the durable log, native and lifecycle events are numbered by different counters, and one cursor over both passes over events |

### Disagreements without a run

Met in the same models. Where a module keeps the property, TLC finds it violated
in an instance that asks for it; where it does not, the behaviour is one the
model allows.

- Claude turns: `ExitSettlesItsOwnRun` (`store.ts:497`: the close of an old
  process fails the turn of the new one), `CancelIsSigterm` (`supervisor.ts:209`:
  after such a close, cancelling signals nothing), `NoTurnWithoutWorktree`
  (`routes/claude.ts:272`: a merge removes the worktree after a prompt checked
  it), `ResumeHasPredecessor` (`store.ts:593`: a first turn that never spawned
  marks the session as started), `MidTurnIsMarked` (`store.ts:344`: a crash before
  the session file is written loads a session that never ran). A handler past its
  check starts a turn after `shutdown()` interrupted the running ones
  (`server/index.ts:273` "stop accepting prompts before changing run state").
  An ask still on its way when its process closes opens a row nobody can use
  (`routes/claude.ts:86`) until its timer denies it. The stdout buffer is keyed by
  session (`supervisor.ts:238`): partial lines of two overlapping children join.
- Worktrees: `NothingTheAgentWroteIsLost` (`worktree.ts:192` "so nothing the agent
  wrote is lost"): what a lingering child or a new turn writes between a merge's
  commit and the removal goes with the worktree.
- Auto-permissions: a failure recorded for a request answered before its task ran
  stays in the status until the next list (why `FailureClears` starts from
  `ReplyToCome`).
- The state file: `NeverStale` (`autoPermissions.ts:97` "must not stay silently
  stale"): a list that another process writes between this one's rename and stat
  is never read, since its mtime is taken for this one's own (`:339`), until
  somebody writes again. Two processes that write without having read each other
  also drop each other's toggles from the file, which a restart makes final.
- Sub-agents: `OwnWordFirst`: the precedence puts a child's own transcript before
  a message in the parent (`subagents.ts:341`), but a child such a message names
  is never probed (`subagents.ts:526`), so an old message hides a newer end.
  `InterruptedIsNull` (`subagents.ts:325`: the transcript says null "when its last
  turn neither completed nor failed"): a turn has an answer for each of its steps, so a
  child that is cut between two answers, the last of which is completed, reads as
  completed (`subagents.ts:336`).
- Session page: `ShownIsCurrent` (`TranscriptPages`): an older row may show what a
  message was before it changed, as a load under way is not given up for a change
  it has not yet shown. And the transcript may have a hole: the first message of the
  newest page may also be the last of the older rows (`messagePages.ts:58` keeps rows
  up to it), so an event about it gives the older rows up
  (`invalidateOlderPages`) and, as it is in the newest page, keeps the load on its way
  (`useSessionStream.ts:258`). What that load brings was read before the old cursor.
  The next poll that starts the history again closes the hole. `PagesAdjoin` says that
  there is no other way to one (`outlived`); nothing in the repository says there is
  none.
- Browser: `UnstreamedIsFrozen` (`manager.ts:10`) fails for a page whose first
  navigation failed; the reaper closes a page that a viewer attached to meanwhile
  (`manager.ts:403`).
- DSH: two prompts may pass the check of `running` (`routes/dsh.ts:192`) before
  either starts; the cases `crossed` marks follow from that and from lines that
  name only a session. `AcceptedIsTold` (`routes/dsh.ts:226`: "the capture shows an
  accepted prompt and no outcome, which is the one direction a projection must never be
  wrong in"): a cancel whose harness could not be closed fails the run and leaves the
  session among the `cancelled` (`dsh-bridge.py:141`); its turn gives the bridge up
  (`:77`), the next prompt is accepted, and before the first thread takes the mark off
  (`:95`) the second has found it (`:58`) and ended without a word: its run stays on.
  Two prompts, one cancel and one fault show it. A bridge whose `ready` promise was rejected stays in the
  pool until it exits (`bridge.ts:93`).
- Badge: a page that writes after its lease was abandoned is not repaired until
  the next push (`sw.js:99`).
- Notifications: parked timers are lost over a restart (`service.ts:761`).

### Bounds

Identifiers (`Ids`, `Runs`, `Requests`, `Callers`, `Toggles`, `Jobs`, pages,
launches) are used once each, as `randomUUID()` and request objects are, so their
number bounds the length of a behaviour. Two of each kind that compete is what
most properties can tell apart: two callers joined to one row and one that is
not, two turns of one session or one of each of two, two handlers past one check.
A third is there where a property needs it: the ledger drops a record with the
third turn; three prompts make a line with somebody in the middle; three launch
requests let a retry come while a second key is pressed out of the full map; the
third viewer replaces one that replaced another; three versions of a plan let a
load be older than two writes.

Counters that stand for faults (`MaxFaults`, `MaxDrops`, `MaxCrashes`,
`MaxOutside` and the like) are 1 to 3: each hazard listed needs one or two. A
limit of the code is as small as it can be and still be reached with something on
both sides of it: pages of 2 rows of at most 5 or 6, a window of 3 of a transcript
of 4, a queue of 2 with 7 captures of 3 sessions, one browser page for two
sessions, a history of one, one lookup slot, maps of one and of two keys.

- `services`: 1 session of 3 prompts and 2 restricted tools; 2 keys, 2 bodies, 3
  launch requests, managed limit 1, root limit 2; 2 DSH sessions, 2 prompts, 1
  cancel, 2 bridges, 1 fault; 2 pages, 3 revisions, 3 messages; 2 devices, 2
  endpoints, 3 renewals; 2 sessions of a page with 1 change, 1 switch, 1 fault.
- `parts`: 2 DSH sessions, 2 prompts, 2 cancels, 2 bridges, 1 fault (with 2 faults: 4.8
  million states of that module alone, checked apart); 3 responses; 2 browser sessions, 2 pages, 2 browsers, 1 queued open (that
  two opens never pass the cap together is the proof's, `BrowserIsKept`); 2 sessions of
  a page with a request; 6 messages in pages of 2; 6 captured trajectory events in pages
  of 2 (the durable log is in `dsh_pages` alone), earlier ones loaded one page at a
  time; 1 child with 2 turns and 2 faults; 2 tabs, 2 loads, 3 versions; 1 worktree with
  2 requests, 2 edits and a human who dirties the project once; 2 processes, 2
  directories, 2 toggles, 1 fault (3 toggles without faults: 5.3 million states of that
  module alone, checked apart).
- What some properties leave out where the code does lose something: a running session
  whose record the full ledger dropped (`NothingDropped` in `ClaudeDurability`), a
  failure recorded after the reply it is about (`ReplyToCome` in `AutoPermissions`), and
  the ghosts `late`, `mixed`, `outlived`, `early`, `unnamed` and `crossed`, each
  described with its module.

`MaxQueue` of `ClaudeDurability` keeps a turn from starting or ending while more
than two writes are queued; two overlapping snapshots of each file still occur (a
chain of five). `TranscriptPages` and `DshPages` let less than a page's worth
happen between two polls that land. Runs with symmetry check no liveness.
`CHECK_DEADLOCK FALSE` stands where counters or identifiers run out
(`AutoPermissions`, `AutoPermissionsLive`, `BrowserOrphan`, `ClaudeDurability`,
`DshPages`, `Notifications`, `Parts`, `Services`); in the other Claude runs the toggle is always possible, so a deadlock would be one.

### Fairness

- `ClaudeApprovals`: timers fire (`setTimeout`, `approvals.ts:118-122`).
- `ClaudeRuntime`: a started child emits `spawn` or `error`, the catch of the
  prompt handler resumes, a process ends (`claude -p` answers one prompt and
  exits; nothing else bounds a turn), timers fire. No fairness is assumed of
  users, of frames, or of handlers before `startRun()`.
- `ClaudeDurability`: queued writes are carried out (or fail), the service is
  restarted, turns end (that is `SessionSettles` of the runtime).
- `AutoPermissions`: promise chains go on, HTTP calls are answered or fail,
  event handlers resume, and the event bus connects again (its loop retries for
  ever with at most 30 s between attempts).
- `Notifications`: an armed timer fires and its handler goes on.
- `SessionPrompts`, `SessionLaunches`: opencode answers or fails every call, and
  the worktree timer fires.
- `DshRuns`: a turn's thread runs on, a process reads its lines, the server reads
  what is written, a process told to stop exits. That a turn ends is assumed: nothing
  in the repository bounds `runtime.run()`. `SessionsSettle` leaves out a process whose
  harness could not be closed: the turn its mark silences has no end to wait for
  (`AcceptedIsTold`).
- `BadgeSync`: the worker's promises run and its timers fire; nothing is assumed
  of pages. `PushDevices`: notifications keep coming and deliveries end, and the push
  service answers 404 or 410 for each row whose subscription is gone; the code trusts it
  to, and a service that does not leaves the row (`webpush.ts:261`).
- `SessionStream`, `ClaudeTranscript`: calls are answered or fail (the requests of the
  Claude transcript have no timeout in the client, so this is the browser's and the
  network's doing), the stream opens or is retried, the poll timer fires. `PageCatchesUp` starts from a page that
  stays visible.

## 4. Proofs

All proofs hold for every value of the constants that satisfies the named
assumptions. `ApprovalsAssumption`, `RuntimeAssumption`, `DurabilityAssumption`
and `AutoPermissionsAssumption` say that `None` differs from the ids, runs and
keys, that `ToolOf` is a function, that isolated sessions are sessions, and that
bounds and caps are numbers, the caps of the ledger and of the answered ids at
least 1. `PartsAssumption` and
`ServicesAssumption` say the same of the constants of the modules that stand side
by side, and that children are finitely many; `PageAssumption` and
`PollsAreRecords` say it of the session page's `None` and `Lost`, `RunsAssumption` of
the DSH turns (somebody has a session, `None` is no session);
`PagesAssumption` that page sizes and bounds are numbers, pages not empty, a page that
follows the end no longer than one that was scrolled, and `None` no direction of a load;
`NotificationsAssumption` that every request is of a session, that slots, limits and
bounds are numbers, and that `None` is no lineage and no reason of suppression.
`PassWords`, `ChildWords`,
`RequestWords`, `PromptWords` and `LaunchWords` say that `None` (and the name of
the session's own agent) is none of the words that stand where it may stand:
modes, stages, the commands of a request. The provers do not know two strings
and a constant apart, and TLC evaluates each of these on every run.

**ClaudeApprovalsProofs.** `ApprovalsInv` is inductive together with `TypeOK`.
None of its parts is on its own: that a pending caller has a row
(`PendingHasRow`) survives `AskNew` only because the index names every waiter
(`IndexInv`), so a new row never takes the index entry of a live one; that all
callers of a row agree (`OneDecision`) needs that callers of a waiting row are
still pending, and that settled rows are not joined. `FinishInv` proves the
preservation once for an arbitrary set of rows, and `AskInv` once for the three
ways an ask begins; each action is then a case. `RulesNeedRows` follows from the
invariant and one lemma per step. `StoreImplementsGate` maps every step to a step of the gate or a stutter:
`FinishDecides` shows that settling rows decides, in the gate, a set of calls
with all their callers, which is where `JoinedOwnCall` and `IndexInv` are used.

**ClaudeRuntimeProofs.** `RuntimeInv` is inductive with `OwnTypeOK` (the types
of the variables that are not the approval store's). The strengthening beyond
`RunRecordAgrees`, `RunningIsBacked` and `SlotIsLive` says that a fresh run has
no session and no process, that a parked handler holds a run of its own session,
and that a handler awaiting `spawn` is the only one that holds its run: without
the last, the failure of one spawn could end the backing of another turn.
The lemma `RuntimeUsesApprovals` shows each step to be a step of `ClaudeApprovals` or to
leave it alone; the theorem `Approvals!ApprovalsInv` of `RuntimeTypes` then
comes from the approval store's proof by instantiation rather than by a second
proof. `OutcomesAreFinal` follows from `RunRecordAgrees`: an operation that
settles a run settles the active run of its session, whose record is running.

**AutoPermissionsProofs.** `QueueInv` is inductive with `TypeOK`. That an open
request of an enabled directory is reported or in hand is not inductive alone:
a list on its way may miss a request (`ListInv` says that such a request has an
event, a task or a toggle of its own), and a task whose generation is over ends
its loop early (`OutdatedInv` says that another list, or the call that will
queue it, follows). `HeadInv` ties the await the task is at to the head of the
queue, and `HistoryInv` says that what was answered is not open and that a call
a task answers has left the write of the file: without it, the end of a task
could return a call that had still to queue its list. The proof goes by who
takes the step: `OtherInHand` for toggles, file and bus, `QueueForgotten` for the
running task. `EnqueueKeeps`, `EnqueueLists` and `EndKeeps` say what the two
things that happen to the queue do to what is in hand. `NoApprovalAfterDisable`
is inductive given the types; `DisableStep` shows that the disabling call that
waits outlives the reply in flight.

**ClaudeDurabilityProofs.** `DurabilityInv` is inductive with the strengthening
it now names: the queue of snapshots is read as a history. The last queued write
of either file is the memory as it is (`LastIsMemory`), so a *flushed* chain
means a durable state. No ledger takes back an outcome of the file, of a ledger queued
before it or of itself (`OutcomesFollow`), whatever records the cap has dropped
between the two. Until one is dropped or a write fails, the record of a run that a
sessions file points to is in the ledger file or queued ahead of it
(`RecordGoesFirst`), where `LedgerFits` counts the runs started to say that
none was dropped. All of them agree on whose a run is (`OwnersAgree`). `QueueFacts` and `HeadGone` are the two things that happen
to the queue, and each handler is a case of the first. `OutcomeStays` and
`RecoveryLocal` follow from the invariant step by step: the first from
`OutcomesFollow` at the write of a ledger, the second from what `load()` settles.

**PartsProofs.** `OnePartMoves` reduces each theorem to one module. What each
needed beyond its stated property:

- *Capture*: a session that lost a record has its name in `overflow` or its gap
  record in the queue (`LossIsNoted`), unless a write of its own failed since its last
  gap record or its name found the set full. `overflow` lists no name twice.
- *Planning*: what is cached, and what the load of this generation has read, is as
  new as any answered write (`KeptIsNew`); a load a tab joined is as new as that tab
  needs, even once its generation is over (`JoinedIsNew`). `LoadsCoalesce` counts
  loads, and the proof says it of pairs.
- *Browser streams*: the chain of operations is read from its end. The last one
  queued serves whoever streams now, so an empty chain leaves a page that is
  frozen or cast for its newest viewer; an operation under way has done what its
  place says and has the stream's identity to check against.
- *Browser slots*: one open is past the chain's head at a time (`QueuedIsIdle`),
  and between its count of pages and its slot only closes come, so the count it
  took is still an upper bound when the slot is taken.
- *State file*: a process that has seen the file as it is agrees with it until a pass
  finds otherwise (`SeenAgrees`); the last list it queued has every toggle made in it
  (`LastListAgrees`, which needed all queued lists and the half-written one); and a
  pass that began with nothing to write still has nothing to write (`SeenIsOlder`).
- *Worktrees*: each request's place says where the session's writes are: before
  its commit in the worktree, after it on the branch, after the merge in the
  project. Every command of one request has to keep what another's place
  says, for a discard or a pull request of the same session may be parked
  between two of its own.
- *Sub-agents*: a word of completion, of the child's transcript, its part or a message
  in the parent, has a completed answer, a completed turn or a human's word behind it,
  and the last answer of a turn that ended says what the turn came to (`WordIsTrue`);
  what was read of them is true in the same sense,
  and still so of a child that has not changed since the request began
  (`ReadIsTrue`, `ProbedIsTrue`).
- *DSH turns*: `RunsAreTheirOwn`, all of `DshInv`, for any number of sessions, prompts,
  cancels, processes and failures. `ProcsAreWhole`: the process that is up is the pool's,
  and only it has threads; `LinesAreOfPrompts`: lines, threads and records are of prompts
  that were sent, with one record each; a session that runs has its newest record open,
  and without crossings no other. `LedgerGrows` says what a step may do to the ledger.
  All that closes runs is one thing, `Closing(S, o)`: the open newest records of the
  sessions of `S` get outcome `o` (`OutcomeCloses`, `ExitCloses`), and `ClosingKeeps`
  shows that this leaves the ledger in order. Where what is on its way of a run or a
  cancel can be, `NothingIsMixedUp`, is proved in two halves, of prompts and turns
  (`PromptAhead`, `TurnIsOn`, `EndIsTold`) and of cancels and answers (`AnswerIsDue`,
  `AnswerIsLast`), together `InPlaces`: a step leaves alone the sessions it does not touch
  (`Elsewhere`), and of the one it touches, what closes its run leaves nothing on its way
  but a silenced turn (`NothingLeft`). `OutcomeIsOwn` follows: without crossings a
  session has one open run, so the line that closes it is its own (`ReadsOwn`), and what
  is closed stays so (`OwnStays`).

**PagesProofs.** `PagesInv` and `StreamInv`, from `OnePartMoves` again:

- *Session page*: a poll on its way has read no version its session does not have and
  was begun after no reply that is still to be heard (`PollsAreOfThePast`); once the
  answer to a reply is heard, the request is not pending in that generation and no poll
  of the current revision lists it (`ReplyIsTaken`).
- *Pages of rows*: a cursor stands for the first message that is loaded, and each part
  of the page is an interval: the newest page ends at what opencode had when it was
  read (`NewestWhole`, `PollFollows`: no poll brings an older one), the older rows reach
  from the cursor to the newest page (`OlderReaches`), and a load that is still welcome
  has read what lies before the cursor (`LoadAdjoins`). `outlived` is in both because
  the step that gives the older rows up and keeps the load breaks `LoadAdjoins`: a
  load's cursor is the one it was asked by, so its rows end before the older rows
  that went. Four messages in pages of 2 show the hole.
- *Trajectory*: from the cursor to the newest event that the page may have seen
  (`unseen` of them came since), everything is shown, or is in the copy that a load
  under way will join its page to (`DshCovered`).
- *Claude transcript*: the window is a run of consecutive events (`Run`), each as the
  store has it or changed after the window's revision (`Current`, `WindowOK`). The invariant
  has to say what an *answer* on its way promises, while the store goes on
  (`AnswerOK`, one form per kind): a delta has every change up to its own revision, and
  of what lies beyond a window that follows the end a first part without gaps
  (`DeltaOK`); earlier and later rows are a run that ends or begins at the cursor they
  were asked by (`EarlierOK`, `LaterOK`), of a revision no older than the window's, which
  is why joining them leaves the window's revision alone; the newest page is a run to the
  end (`NewestOK`). An answer of an epoch that ended promises its run and nothing of the
  store. `AskedOK` says that the window is as it was when its request was made.
  `KeptWindow` then shows once, for all four ways an answer is taken, that what eviction
  keeps of such a run is such a window.

**ServicesProofs.** Likewise, from `OneServiceMoves`:

- *Prompts*: `OneAtATime` is not inductive: that a line is ordered by arrival, and
  every waiter's predecessor is in front of it, is (`LineIsOrdered`). Then whoever
  has its turn has only answered requests before it (`AloneInLine`). `PolicyHolds`
  says that what the holder of a lock read is still in place when it submits, as
  nobody else of its session takes a step that touches it.
- *Badge*: a count that is stored and not shown has somebody left to write it:
  a page with a lease or a reapplication in the queue (`IconIsOwed`, `Repaired`).
  A page calls once, with the count its lease is opened with (`LeaseIsOwn`); with
  nothing left in the queue and no lease, the icon is therefore right.
- *Devices*: an endpoint belongs to one device and its keys are never minted again
  (`SubsAreOwn`), so a registration that expired stays gone, and what a delivery
  drops by endpoint *and* keys is not what a renewal put in its place.
- *Launches*: `MapIsWhole` says that a launch is in the map, or was taken from it
  to make room after it settled, or gave its key back by failing; keys in the map
  are distinct and entries belong to the request that made them. A retry that
  begins a second launch of its key therefore found the first replaceable, which is
  `OneInFlight` and `OnePrompted` at once. `StagesFollow` ties session and worktree to
  the place of the launch: a session is made only where the worktree is ready or
  none is asked for, and the event that came before its POST was answered is
  buffered. Making room takes a settled launch (`RoomIsMade`) whatever the limits are.

**NotificationsProofs.** `ServiceKept` is inductive, in parts: the world, the
handlers, the caches, the budget of lookups, the store and the file. The budget
balances with no assumption on how many sessions or handlers there are: what is in
flight is finite because each step adds one. What is hidden needs what a handler
*knows* (`JobKept`): it takes a session for a child only if it is one, and an
escalation whose request was answered before its timer fired has not come past the
pending check, as upstream takes no reply back. What a record *says* (`Told`) is then
kept by every *steady* step (`Steady`): the handler of a record is past its append and
never goes back to settle, so the verdict it writes at the end is the one it wrote at
the append, from the preferences it had read before the sends; a late verdict moves
no badge. The same is kept of the file's records, for the reload. `PruneKeeps` is the
lemma about the caps: a prune takes no delivered record that is not checked off, and
leaves no more of the settled ones than the limit (`FewAbove`, from the lowest place of
a set). The badge count is the cardinality of the *live* places (`Live`), so
`CountMovesRevision` and `UncheckedStays` are statements about that set at the four kinds
of steps that touch the store (`StoreMoves`).

Only model-checked: everything under fairness (`AskIsAnswered`, `SessionSettles`,
`AskSettles`, `NoSpinnerForever`, `RequestSettles`, `FailureClears`,
`StalledAskEscalates`, `SessionsSettle`, `DevicesSettle`, `PageCatchesUp`), which
is out of this prover's reach. Every other invariant and every action property that a
passing run checks is proved. No module of the project declares a RECURSIVE operator:
`Ranked` of `ClaudeTranscript` orders a finite set by counting, not by recursion, for
that reason.

## 5. Plan

Done: the modules of section 2, and the proofs of section 4. What is left is breadth:
the parts that section 6 names, of which session abort and revert, and the creation of
worktrees for Claude sessions, have the most control.

## 6. Not modelled

- Of the approval store: the wording of decisions, tool input, `forgetSession()`
  (no caller).
- Of the runtime: what a frame adds to the transcript, token accounting, version
  drift, attachments, session creation and renaming, `remove()` (no caller); the
  stdout buffer; an `error` event from a child that already runs (a failed kill).
- Of persistence: loss of a rename that was carried out (power failure), and a
  file that does not parse.
- Of worktrees: their creation for Claude sessions, the view of their changes, and
  GitHub's side of a pull request.
- Of auto-permissions: two directories' queues at once, two writes with one mtime,
  a file that is edited in place, an event delivered twice.
- Of opencode sessions: abort, rename, revert, summarize, share and the listings,
  which are single upstream calls without state here.
- Of notifications: texts, ntfy, the preferences' file, and the client's
  notification centre (whose refresh after an await uses the filter it captured,
  `useNotificationCenter.tsx`).
- Of DSH: the messages of a turn, the store's files, preset configuration.
- Of the browser: input events, the policy of URLs, profile files, shutdown, a page
  leaked by a failing `newCDPSession`.
- Of the badge and push: collapsing of notifications, the click handler, the dates
  the push store backfills.
- Of sub-agents: titles, models and the order of rows. Of planning: the catalogue
  of labels, the edges of epics and the validation of entries.
- Workflows and reminders, catalogues, credentials and usage, deployment, logs,
  previews, and the client's remaining pages: lookup, parsing, file and process
  reads and rendering, with no state that a step of another actor could cross.
- Components with status `not_modelled` in `PROJECT.json`, each with its reason.
