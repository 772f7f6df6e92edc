------------------------------ MODULE MCServices -------------------------------
(* What must settle or catch up, side by side: prompts and launches at opencode,  *)
(* dsh turns, a device's badge and its registration, a session's page and the     *)
(* window of a Claude conversation. They share no state: a behaviour moves one of *)
(* them, chosen at the start, and the others stay as their Init leaves them. The  *)
(* session's page is without permission requests here; MCParts has them.          *)
EXTENDS Naturals, Integers, Sequences, FiniteSets

CONSTANTS PromptSessions, MaxRequests, Tools, Agent, LaunchKeys, Bodies, ManagedLimit,
          PromptFaults, RootLimit, LaunchFaults, Sessions, MaxFaults, MaxPrompts,
          MaxCancels, MaxBridges, Pages, MaxRevision, MaxPushes, Installs, Endpoints,
          MaxSubs, MaxRenewals, MaxChanges, MaxSwitches, MaxOutside, Asks, Lost,
          PageRows, Resident, Retained, MaxRows, MaxLater, None

\* None is none of the things it stands for the absence of; the bounds are numbers.
ASSUME ServicesAssumption ==
  /\ {MaxRequests, PromptFaults, ManagedLimit, RootLimit, LaunchFaults, MaxRevision,
      MaxPushes, MaxSubs, MaxRenewals} \subseteq Nat
  /\ None \notin Nat \union PromptSessions \union LaunchKeys \union Installs
  /\ None \notin [endpoint : Endpoints, key : Nat]

\* Nor is it one of the words that stand where it may: of a prompt's path, of the rules put
\* on a session last and of the stage a launch failed at. Agent is neither plan nor build.
ASSUME PromptWords ==
  /\ None \notin {"plan", "build", "agent", "managed"}
  /\ None \notin {"plan", "build"} \X SUBSET Tools
  /\ Agent \notin {"plan", "build", None}
ASSUME LaunchWords ==
  None \notin {"policy", "session", "prompt", "launch", "cleanup", "worktree", "timeout"}

VARIABLES moves,
  alive, denied, suffix, recorded, lastUser, config, catalogue, tail, req, sent,
  promptFaults,
  kind, entries, launch, session, tree, buffered, request, evicted, launchFaults,
  prompts, asked, calls, running, ledger, pool, procs, inbox, outbox, threads, finished,
  crossed, runFaults,
  stored, shown, badgeQueue, page, lease, late, messages,
  rows, browser, posting, registered, sending, expired, owners, renewals,
  version, pending, scope, gen, gate, flight, view, revision, reply, visible, source,
  retries, bus, nudge, outside,
  first, last, changed, rev, atRevision, epoch, events, known, since, back, forth, pinned,
  fetch, queued, looking, spent

CountOf == [r \in 1..MaxRevision |-> r]

Prompts  == INSTANCE SessionPrompts WITH Sessions <- PromptSessions,
             MaxFaults <- PromptFaults, faults <- promptFaults
Launches == INSTANCE SessionLaunches WITH MaxFaults <- LaunchFaults, faults <- launchFaults
Runs     == INSTANCE DshRuns WITH faults <- runFaults
Badge    == INSTANCE BadgeSync WITH MaxMessages <- MaxPushes, queue <- badgeQueue
Devices  == INSTANCE PushDevices WITH owner <- owners
Stream   == INSTANCE SessionStream WITH asked <- pending, shown <- view
Claude   == INSTANCE ClaudeTranscript WITH Page <- PageRows, MaxOutside <- MaxLater,
             edited <- changed, revision <- atRevision, rows <- events, cursor <- since,
             before <- back, after <- forth, flight <- fetch, visible <- looking, used <- spent

promptsVars == <<alive, denied, suffix, recorded, lastUser, config, catalogue, tail,
    req, sent, promptFaults>>
launchesVars == <<kind, entries, launch, session, tree, buffered, request, evicted,
    launchFaults>>
runsVars == <<prompts, asked, calls, running, ledger, pool, procs, inbox, outbox,
    threads, finished, crossed, runFaults>>
badgeVars == <<stored, shown, badgeQueue, page, lease, late, messages>>
devicesVars == <<rows, browser, posting, registered, sending, expired, owners, renewals>>
streamVars == <<version, pending, scope, gen, gate, flight, view, revision, reply,
    visible, source, retries, bus, nudge, outside>>
claudeVars == <<first, last, changed, rev, atRevision, epoch, events, known, since,
    back, forth, pinned, fetch, queued, looking, spent>>
vars == <<moves, promptsVars, launchesVars, runsVars, badgeVars, devicesVars,
          streamVars, claudeVars>>

\* What does not move has one initial state.
Init ==
  /\ moves \in {"prompts", "launches", "runs", "badge", "devices", "stream", "claude"}
  /\ Prompts!Init /\ Launches!Init /\ Runs!Init /\ Badge!Init /\ Devices!Init
  /\ Stream!Init /\ Claude!Init
  /\ moves # "prompts" => /\ catalogue = Tools /\ config = [s \in PromptSessions |-> "none"]
                          /\ recorded = [s \in PromptSessions |-> None] /\ lastUser = recorded
  /\ moves # "launches" => kind = "child"
  /\ moves # "stream" => ~pending /\ scope = CHOOSE s \in Sessions : TRUE
  /\ moves # "claude" => last = 1

\* A step of one of them leaves the others alone.
MovesPrompts ==
  /\ moves = "prompts"
  /\ UNCHANGED <<moves, launchesVars, runsVars, badgeVars, devicesVars, streamVars,
                  claudeVars>>
MovesLaunches ==
  /\ moves = "launches"
  /\ UNCHANGED <<moves, promptsVars, runsVars, badgeVars, devicesVars, streamVars,
                  claudeVars>>
MovesRuns ==
  /\ moves = "runs"
  /\ UNCHANGED <<moves, promptsVars, launchesVars, badgeVars, devicesVars, streamVars,
                  claudeVars>>
MovesBadge ==
  /\ moves = "badge"
  /\ UNCHANGED <<moves, promptsVars, launchesVars, runsVars, devicesVars, streamVars,
                  claudeVars>>
MovesDevices ==
  /\ moves = "devices"
  /\ UNCHANGED <<moves, promptsVars, launchesVars, runsVars, badgeVars, streamVars,
                  claudeVars>>
MovesStream ==
  /\ moves = "stream"
  /\ UNCHANGED <<moves, promptsVars, launchesVars, runsVars, badgeVars, devicesVars,
                  claudeVars>>
MovesClaude ==
  /\ moves = "claude"
  /\ UNCHANGED <<moves, promptsVars, launchesVars, runsVars, badgeVars, devicesVars,
                  streamVars>>

Next == \/ MovesPrompts /\ Prompts!Next
        \/ MovesLaunches /\ Launches!Next
        \/ MovesRuns /\ Runs!Next
        \/ MovesBadge /\ Badge!Next
        \/ MovesDevices /\ Devices!Next
        \/ MovesStream /\ Stream!Next
        \/ MovesClaude /\ Claude!Next

Spec == Init /\ [][Next]_vars
\* The fairness of each module's own FairSpec: as one module moves, the conditions of
\* different modules are written as one.
FairSpec == /\ Spec
            /\ WF_vars(\/ MovesPrompts /\ Prompts!Work
                       \/ MovesLaunches /\ Launches!Work
                       \/ MovesRuns /\ Runs!Turns
                       \/ MovesBadge /\ Badge!Worker
                       \/ MovesDevices /\ Devices!Delivery
                       \/ MovesStream /\ Stream!Answers
                       \/ MovesClaude /\ Claude!Answers)
            /\ WF_vars(\/ MovesRuns /\ Runs!Lines
                       \/ MovesStream /\ Stream!Streams)
            /\ WF_vars(\/ MovesStream /\ Stream!Tick
                       \/ MovesClaude /\ Claude!Poll)

\* Each module's type invariant is checked with its own invariant, where it moves.
PromptInv  == moves = "prompts" => Prompts!TypeOK /\ Prompts!PromptInv
LaunchInv  == moves = "launches" => Launches!TypeOK /\ Launches!LaunchInv
DevicesInv == /\ moves = "badge" => Badge!TypeOK /\ Badge!BadgeInv
              /\ moves = "devices" => Devices!TypeOK /\ Devices!DeviceInv

\* SessionPrompts' PromptSettles, SessionLaunches' LaunchAnswers and DshRuns' RunSettles.
SessionsSettle == []<>(Prompts!LineEmpties /\ Launches!AllAnswered /\ Runs!RunsOver)

\* BadgeSync's BadgeSettles and PushDevices' DeadRowsGo.
DevicesSettle == []<>(Badge!Settled /\ Devices!NoDeadRow)

\* SessionStream's PageCatchesUp and ClaudeTranscript's WindowCatchesUp.
PageCatchesUp ==
  <>[](\/ moves = "stream" /\ visible
       \/ moves = "claude" /\ looking)
    => <>[](IF moves = "stream" THEN Stream!CaughtUp ELSE Claude!CaughtUp)
================================================================================
