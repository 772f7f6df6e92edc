-------------------------------- MODULE MCParts --------------------------------
(* Parts whose properties are safety, side by side: the streams and slots of the  *)
(* browser, the turns of dsh and its capture queue, a session as its page shows it, *)
(* the pages of three kinds of transcript, the ledger of sub-agents, the planning  *)
(* cache, the git commands on worktrees and the state file of auto-permissions.   *)
(* They share no state: a behaviour moves one of them, chosen at the start.       *)
EXTENDS Naturals, Integers, Sequences, FiniteSets

CONSTANTS Responses, MaxFaults, Sessions, MaxPages, MaxMade, MaxContexts, MaxOpens,
          CaptureSessions, MaxQueue, MaxCaptures, PageSessions, MaxChanges, MaxSwitches,
          MaxOuter, Asks, Lost, Window, MaxMessages, MaxEvents, Limit, MaxHappenings,
          PageRows, Resident, Retained, MaxRows, MaxOutside, Children, Probes, MaxTurns,
          LedgerFaults, Tabs, Loads, MaxVersion, WorkSessions, Requests, MaxEdits,
          MaxHuman, Processes, Directories, MaxToggles, FileFaults, MaxPrompts,
          MaxCancels, MaxBridges, None

\* None is none of the things it stands for the absence of; the bounds are numbers.
ASSUME PartsAssumption ==
  /\ {MaxFaults, MaxPages, MaxMade, MaxContexts, MaxOpens, MaxQueue, MaxCaptures, Probes,
      MaxTurns, LedgerFaults, MaxVersion, MaxEdits, MaxHuman, MaxToggles, FileFaults} \subseteq Nat
  /\ Sessions # {} /\ IsFiniteSet(Children) /\ MaxVersion > 0
  /\ None \notin Nat
  /\ None \notin Responses \union Loads \union Tabs \union WorkSessions \union Processes

\* Of dsh turns: no session is None, and their bounds are numbers.
ASSUME RunsAssumption ==
  /\ {MaxPrompts, MaxCancels, MaxBridges, MaxFaults} \subseteq Nat
  /\ Sessions # {} /\ None \notin Sessions

\* Nor is it one of the words that stand where it may: of a pass over the state file, of a
\* child and its part, of a request on a worktree.
ASSUME PassWords == None \notin {"looked", "reading", "read"}
ASSUME ChildWords ==
  None \notin {"going", "cut", "open", "running", "launched", "completed", "failed", "error",
               "unknown"}
ASSUME RequestWords ==
  None \notin {"merge", "discard", "pr", "clean", "clean again", "status", "add", "commit",
               "ahead", "push", "remove", "branch"}

\* Of a page's session: Lost is a call that failed, which is neither an answer nor None.
ASSUME PageAssumption ==
  /\ {MaxChanges, MaxSwitches, MaxOuter} \subseteq Nat /\ Asks \subseteq BOOLEAN
  /\ None # Lost /\ Lost \notin Nat \union BOOLEAN /\ None \notin BOOLEAN
ASSUME PollsAreRecords ==
  None \notin [of : PageSessions, ver : Nat \union {None, Lost},
               ask : BOOLEAN \union {None, Lost}, rev : Nat]
\* Of the pages of a transcript: they hold something, a window holds a page, and the
\* bound on rows leaves room for what the store keeps.
ASSUME PagesAssumption ==
  /\ {Window, MaxMessages, Limit, MaxHappenings, PageRows, Resident, Retained, MaxRows}
       \subseteq Nat \ {0}
  /\ {MaxEvents, MaxOutside} \subseteq Nat /\ PageRows <= Resident /\ Retained <= MaxRows
  /\ None \notin {"refresh", "before", "after", "latest"}

VARIABLES moves,
  stream, gone, attached, viewer, chain, lifecycle, casting, opening, early, streamFaults,
  stopFailed,
  slots, live, owner, home, fresh, streaming, context, browsers, launched, made,
  slotFaults, opens, closing,
  queue, overflow, dropped, unnamed, captures, faults,
  versions, pending, scope, generation, gate, polls, view, replied, reply, seen, source,
  retries, bus, nudge, outside,
  sent, edited, newest, older, cursor, newestCursor, backfill, poll, load, up, events,
  outlived, used,
  world, durable, shown, before, loading, unseen,
  first, last, changed, rev, revision, epoch, window, known, since, back, forth, pinned,
  flight, queued, visible, spent,
  turn, lastTold, owned, part, background, notice, owed, turns, done, pc, going, parent,
  todo, terminal, sure, report, ledgerFaults,
  version, acked, cached, inFlight, gen, loads, asks, need, answer, write,
  agent, present, branches, tip, tree, index, main, project, pushed, op, answered, makes,
  during, discarded, human,
  on, explicit, file, observed, pass, loaded, writes, renamed, mixed, failed, toggles,
  fileFaults,
  prompts, asked, calls, running, ledger, pool, procs, inbox, outbox, threads, finished,
  crossed, runFaults

Stream    == INSTANCE BrowserStream WITH newest <- viewer, faults <- streamFaults
Slots     == INSTANCE BrowserSlots WITH MaxQueue <- MaxOpens, running <- browsers,
              faults <- slotFaults
Capture   == INSTANCE DshCapture WITH Sessions <- CaptureSessions
Session   == INSTANCE SessionStream WITH Sessions <- PageSessions,
              MaxOutside <- MaxOuter, version <- versions, asked <- pending,
              gen <- generation, flight <- polls, shown <- view,
              revision <- replied, visible <- seen
Rows      == INSTANCE TranscriptPages
Dsh       == INSTANCE DshPages WITH MaxEvents <- MaxHappenings, cursor <- before
Claude    == INSTANCE ClaudeTranscript WITH Page <- PageRows, edited <- changed,
              rows <- window, cursor <- since, before <- back, after <- forth,
              used <- spent
Ledger    == INSTANCE Subagents WITH MaxFaults <- LedgerFaults, running <- going,
              last <- lastTold, faults <- ledgerFaults
Planning  == INSTANCE PlanningCache WITH shown <- answer, load <- loads
Worktrees == INSTANCE ClaudeWorktrees WITH Sessions <- WorkSessions,
              made <- makes, late <- during
File      == INSTANCE AutoPermissionFile WITH MaxFaults <- FileFaults,
              seen <- observed, faults <- fileFaults
Runs      == INSTANCE DshRuns WITH faults <- runFaults

streamVars == <<stream, gone, attached, viewer, chain, lifecycle, casting, opening,
    early, streamFaults, stopFailed>>
slotsVars == <<slots, live, owner, home, fresh, streaming, context, browsers, launched,
    made, slotFaults, opens, closing>>
captureVars == <<queue, overflow, dropped, unnamed, captures, faults>>
sessionVars == <<versions, pending, scope, generation, gate, polls, view, replied,
    reply, seen, source, retries, bus, nudge, outside>>
rowsVars == <<sent, edited, newest, older, cursor, newestCursor, backfill, poll, load,
    up, events, outlived, used>>
dshVars == <<world, durable, shown, before, loading, unseen>>
claudeVars == <<first, last, changed, rev, revision, epoch, window, known, since, back,
    forth, pinned, flight, queued, visible, spent>>
ledgerVars == <<turn, lastTold, owned, part, background, notice, owed, turns, done, pc,
    going, parent, todo, terminal, sure, report, ledgerFaults>>
planningVars == <<version, acked, cached, inFlight, gen, loads, asks, need, answer,
    write>>
worktreesVars == <<agent, present, branches, tip, tree, index, main, project, pushed,
    op, answered, makes, during, discarded, human>>
fileVars == <<on, explicit, file, observed, pass, loaded, writes, renamed, mixed,
    failed, toggles, fileFaults>>
runsVars == <<prompts, asked, calls, running, ledger, pool, procs, inbox, outbox,
    threads, finished, crossed, runFaults>>
vars == <<moves, streamVars, slotsVars, captureVars, sessionVars, rowsVars, dshVars,
          claudeVars, ledgerVars, planningVars, worktreesVars, fileVars, runsVars>>

\* What does not move has one initial state.
Init ==
  /\ moves \in {"stream", "slots", "capture", "session", "rows", "dsh", "claude",
                 "ledger", "planning", "worktrees", "file",
                 "runs"}
  /\ Stream!Init /\ Slots!Init /\ Capture!Init /\ Session!Init /\ Rows!Init
  /\ Dsh!Init /\ Claude!Init /\ Ledger!Init /\ Planning!Init /\ Worktrees!Init
  /\ File!Init /\ Runs!Init
  /\ moves # "session" => ~pending /\ scope = CHOOSE s \in PageSessions : TRUE
  /\ moves # "rows" => sent = 1
  /\ moves # "dsh" => ~durable
  /\ moves # "file" => file.mtime = 0
  /\ moves # "claude" => last = 1

\* A step of one of them leaves the others alone.
MovesStream ==
  /\ moves = "stream"
  /\ UNCHANGED <<moves, slotsVars, captureVars, sessionVars, rowsVars, dshVars,
                  claudeVars, ledgerVars, planningVars, worktreesVars, fileVars,
                  runsVars>>
MovesSlots ==
  /\ moves = "slots"
  /\ UNCHANGED <<moves, streamVars, captureVars, sessionVars, rowsVars, dshVars,
                  claudeVars, ledgerVars, planningVars, worktreesVars, fileVars,
                  runsVars>>
MovesCapture ==
  /\ moves = "capture"
  /\ UNCHANGED <<moves, streamVars, slotsVars, sessionVars, rowsVars, dshVars,
                  claudeVars, ledgerVars, planningVars, worktreesVars, fileVars,
                  runsVars>>
MovesSession ==
  /\ moves = "session"
  /\ UNCHANGED <<moves, streamVars, slotsVars, captureVars, rowsVars, dshVars,
                  claudeVars, ledgerVars, planningVars, worktreesVars, fileVars,
                  runsVars>>
MovesRows ==
  /\ moves = "rows"
  /\ UNCHANGED <<moves, streamVars, slotsVars, captureVars, sessionVars, dshVars,
                  claudeVars, ledgerVars, planningVars, worktreesVars, fileVars,
                  runsVars>>
MovesDsh ==
  /\ moves = "dsh"
  /\ UNCHANGED <<moves, streamVars, slotsVars, captureVars, sessionVars, rowsVars,
                  claudeVars, ledgerVars, planningVars, worktreesVars, fileVars,
                  runsVars>>
MovesClaude ==
  /\ moves = "claude"
  /\ UNCHANGED <<moves, streamVars, slotsVars, captureVars, sessionVars, rowsVars,
                  dshVars, ledgerVars, planningVars, worktreesVars, fileVars,
                  runsVars>>
MovesLedger ==
  /\ moves = "ledger"
  /\ UNCHANGED <<moves, streamVars, slotsVars, captureVars, sessionVars, rowsVars,
                  dshVars, claudeVars, planningVars, worktreesVars, fileVars,
                  runsVars>>
MovesPlanning ==
  /\ moves = "planning"
  /\ UNCHANGED <<moves, streamVars, slotsVars, captureVars, sessionVars, rowsVars,
                  dshVars, claudeVars, ledgerVars, worktreesVars, fileVars,
                  runsVars>>
MovesWorktrees ==
  /\ moves = "worktrees"
  /\ UNCHANGED <<moves, streamVars, slotsVars, captureVars, sessionVars, rowsVars,
                  dshVars, claudeVars, ledgerVars, planningVars, fileVars,
                  runsVars>>
MovesFile ==
  /\ moves = "file"
  /\ UNCHANGED <<moves, streamVars, slotsVars, captureVars, sessionVars, rowsVars,
                  dshVars, claudeVars, ledgerVars, planningVars, worktreesVars,
                  runsVars>>
MovesRuns ==
  /\ moves = "runs"
  /\ UNCHANGED <<moves, streamVars, slotsVars, captureVars, sessionVars, rowsVars,
                  dshVars, claudeVars, ledgerVars, planningVars, worktreesVars,
                  fileVars>>

Next == \/ MovesStream /\ Stream!Next
        \/ MovesSlots /\ Slots!Next
        \/ MovesCapture /\ Capture!Next
        \/ MovesSession /\ Session!Next
        \/ MovesRows /\ Rows!Next
        \/ MovesDsh /\ Dsh!Next
        \/ MovesClaude /\ Claude!Next
        \/ MovesLedger /\ Ledger!Next
        \/ MovesPlanning /\ Planning!Next
        \/ MovesWorktrees /\ Worktrees!Next
        \/ MovesFile /\ File!Next
        \/ MovesRuns /\ Runs!Next

Spec == Init /\ [][Next]_vars

\* Each module's type invariant is checked with its own invariant, where it moves.
BrowserInv  == /\ moves = "stream" => Stream!TypeOK /\ Stream!StreamInv
               /\ moves = "slots" => Slots!TypeOK /\ Slots!SlotsInv
CaptureInv  == moves = "capture" => Capture!TypeOK /\ Capture!CaptureInv
StreamInv   == moves = "session" => Session!TypeOK /\ Session!StreamInv
PagesInv    == /\ moves = "rows" => Rows!TypeOK /\ Rows!PagesAdjoin
               /\ moves = "dsh" => Dsh!TypeOK /\ Dsh!CapturedAllShown
               /\ moves = "claude" => Claude!TypeOK /\ Claude!TranscriptInv
LedgerInv   == moves = "ledger" => Ledger!TypeOK /\ Ledger!LedgerInv
PlanningInv == moves = "planning" => Planning!TypeOK /\ Planning!PlanningInv
WorktreeInv == moves = "worktrees" => Worktrees!TypeOK /\ Worktrees!WorktreeInv
DshInv      == moves = "runs" => Runs!TypeOK /\ Runs!DshInv
AutoFileInv == moves = "file" => File!TypeOK /\ File!AutoFileInv
================================================================================
