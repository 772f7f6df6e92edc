---------------------------- MODULE AutoPermissions ----------------------------
(***************************************************************************)
(* AutoPermissionService (server/opencode/autoPermissions.ts): answering   *)
(* opencode's permission requests "once" for a workspace directory that    *)
(* the user switched to auto-approval.  One directory: directories share   *)
(* nothing but the state file, which is here whatever another writer put   *)
(* in it.                                                                  *)
(*                                                                         *)
(* All work of a directory goes through one promise chain (`queue`), one   *)
(* task at a time; toggles, events, the file timer and opencode go on      *)
(* while a task awaits an answer.  opencode and the event stream (`bus`)   *)
(* are external: a request is asked once, the handlers of events await and *)
(* overtake each other, and events sent while the stream is down are lost. *)
(***************************************************************************)
EXTENDS Naturals, Sequences, FiniteSets

CONSTANTS
  Requests,      \* permission request ids
  Toggles,       \* setEnabled() calls; bounds how many there are
  None,
  CompletedCap,  \* how many answered ids are kept, 500 in the code
  MaxFlips,      \* bound: how often the state file changes the flag
  MaxDrops       \* bound: how often the event stream is lost

ASSUME AutoPermissionsAssumption ==
  /\ None \notin Requests \cup Toggles
  /\ "reconcile" \notin Requests
  /\ CompletedCap \in Nat \ {0}
  /\ MaxFlips \in Nat /\ MaxDrops \in Nat

VARIABLES
  \* DirectoryState
  enabled, source, generation, queue, failures,
  completed,     \* ids answered
  \* the running task, the head of the queue
  step,          \* "idle", "listing", "listed", "looping" or "approving"
  todo,          \* ids listed and not looked at yet
  now,           \* id of the reply in flight
  \* setEnabled()
  toggle,        \* call -> where it is
  want,          \* call -> its argument
  persistQueue,  \* calls whose state-file write is queued, oldest first
  flips,
  \* opencode and the event stream (external)
  pending,       \* requests opencode holds open
  asked, replied, \* request -> where its permission.asked / .replied event is
  connected, drops

stateVars == <<enabled, source, generation, failures, completed>>
taskVars == <<step, todo, now>>
toggleVars == <<toggle, want, persistQueue>>
serverVars == <<pending, asked, replied, connected, drops>>
vars == <<stateVars, queue, taskVars, toggleVars, flips, serverVars>>

Init ==
  /\ enabled = FALSE /\ source = "loaded" /\ generation = 0
  /\ queue = <<>> /\ failures = {} /\ completed = {}
  /\ step = "idle" /\ todo = {} /\ now = None
  /\ toggle = [t \in Toggles |-> "unused"]
  /\ want = [t \in Toggles |-> FALSE]
  /\ persistQueue = <<>>
  /\ flips = 0
  /\ pending = {}
  /\ asked = [r \in Requests |-> "unsent"]
  /\ replied = [r \in Requests |-> "unsent"]
  /\ connected = TRUE /\ drops = 0

-----------------------------------------------------------------------------
(* Tasks                                                                   *)

AskedTask(r, g) == [kind |-> "asked", req |-> r, gen |-> g, by |-> None]
RepliedTask(r) == [kind |-> "replied", req |-> r, gen |-> 0, by |-> None]
ReconcileTask(g, t) == [kind |-> "reconcile", req |-> None, gen |-> g, by |-> t]
DrainTask(t) == [kind |-> "drain", req |-> None, gen |-> 0, by |-> t]

Enqueue(task) == queue' = Append(queue, task)

(* The head is of this kind and has not begun.                             *)
Ready(kind) == step = "idle" /\ queue # <<>> /\ Head(queue).kind = kind

(* A task queued under an older generation, or for a flag that is off.     *)
Outdated(task) == ~enabled \/ task.gen # generation

(* The head is done: the next may begin, and the setEnabled() call that    *)
(* waited for it returns.                                                  *)
TaskEnds ==
  /\ queue' = Tail(queue)
  /\ step' = "idle" /\ todo' = {} /\ now' = None
  /\ toggle' = [t \in Toggles |-> IF Head(queue).by = t THEN "returned" ELSE toggle[t]]
  /\ UNCHANGED <<want, persistQueue>>

(* Mutant of Complete: the cap is off by one.                              *)
CompleteLate(r) ==
  IF Cardinality(completed \cup {r}) <= CompletedCap + 1
  THEN completed' = completed \cup {r}
  ELSE \E oldest \in completed : completed' = (completed \ {oldest}) \cup {r}

(* complete(): when there are too many the oldest goes.  The order of      *)
(* insertion is not kept: any of the others may be the oldest.             *)
Complete(r) ==
  IF Cardinality(completed \cup {r}) <= CompletedCap
  THEN completed' = completed \cup {r}
  ELSE \E oldest \in completed : completed' = (completed \ {oldest}) \cup {r}

-----------------------------------------------------------------------------
(* The task of handleAsked()                                               *)

AskedSkips ==
  /\ Ready("asked")
  /\ Outdated(Head(queue)) \/ Head(queue).req \in completed
  /\ TaskEnds
  /\ UNCHANGED <<stateVars, flips, serverVars>>

AskedApproves ==
  /\ Ready("asked")
  /\ ~Outdated(Head(queue)) /\ Head(queue).req \notin completed
  /\ step' = "approving" /\ now' = Head(queue).req
  /\ UNCHANGED <<stateVars, queue, todo, toggleVars, flips, serverVars>>

(* The task of handleReplied().                                            *)
RepliedClears ==
  /\ Ready("replied")
  /\ failures' = failures \ {Head(queue).req}
  /\ completed' = completed \ {Head(queue).req}
  /\ TaskEnds
  /\ UNCHANGED <<enabled, source, generation, flips, serverVars>>

(* The calls that disabled wait for the tail of the queue, nothing more.   *)
Drained ==
  /\ Ready("drain")
  /\ TaskEnds
  /\ UNCHANGED <<stateVars, flips, serverVars>>

-----------------------------------------------------------------------------
(* The task of reconcile(): list what is pending and approve it one by one *)

ReconcileSkips ==
  /\ Ready("reconcile")
  /\ Outdated(Head(queue))
  /\ TaskEnds
  /\ UNCHANGED <<stateVars, flips, serverVars>>

ReconcileLists ==
  /\ Ready("reconcile")
  /\ ~Outdated(Head(queue))
  /\ step' = "listing"
  /\ UNCHANGED <<stateVars, queue, todo, now, toggleVars, flips, serverVars>>

(* opencode makes the list (external) ...                                  *)
ListServed ==
  /\ step = "listing"
  /\ step' = "listed" /\ todo' = pending
  /\ UNCHANGED <<stateVars, queue, now, toggleVars, flips, serverVars>>

(* Mutant of ListArrives: failures of requests not listed stay.            *)
ListArrivesKeepsFailures ==
  /\ step = "listed"
  /\ step' = "looping"
  /\ failures' = failures \ {"reconcile"}
  /\ completed' = completed \cap todo
  /\ UNCHANGED <<enabled, source, generation, queue, todo, now, toggleVars, flips, serverVars>>

(* ... and it arrives: what is known of requests not listed is dropped.    *)
ListArrives ==
  /\ step = "listed"
  /\ step' = "looping"
  /\ failures' = failures \cap todo
  /\ completed' = completed \cap todo
  /\ UNCHANGED <<enabled, source, generation, queue, todo, now, toggleVars, flips, serverVars>>

(* The list cannot be had: recorded, and the task is over.                 *)
ListFails ==
  /\ step \in {"listing", "listed"}
  /\ failures' = failures \cup {"reconcile"}
  /\ TaskEnds
  /\ UNCHANGED <<enabled, source, generation, completed, flips, serverVars>>

(* The loop goes on to a listed request that this process did not answer.  *)
LoopApproves(r) ==
  /\ step = "looping" /\ r \in todo
  /\ ~Outdated(Head(queue))
  /\ r \notin completed
  /\ step' = "approving" /\ now' = r /\ todo' = todo \ {r}
  /\ UNCHANGED <<stateVars, queue, toggleVars, flips, serverVars>>

LoopEnds ==
  /\ step = "looping"
  /\ Outdated(Head(queue)) \/ todo \subseteq completed
  /\ TaskEnds
  /\ UNCHANGED <<stateVars, flips, serverVars>>

-----------------------------------------------------------------------------
(* approve(): the reply to one request                                     *)

(* Back to the reconcile loop, or the asked task is over.                  *)
ApproveReturns ==
  IF Head(queue).kind = "reconcile"
  THEN /\ step' = "looping" /\ now' = None
       /\ UNCHANGED <<queue, todo, toggleVars>>
  ELSE TaskEnds

(* opencode takes the reply (external): the request is no longer open, and *)
(* its event is sent before the answer arrives.                            *)
ReplyServed ==
  /\ step = "approving" /\ now \in pending
  /\ pending' = pending \ {now}
  /\ replied' = [replied EXCEPT ![now] = IF connected THEN "underway" ELSE "handled"]
  /\ UNCHANGED <<stateVars, queue, step, todo, now, toggleVars, flips, asked, connected, drops>>

(* 200, or 404 because somebody else answered: either way it is answered.  *)
Approved ==
  /\ step = "approving" /\ now \notin pending
  /\ failures' = failures \ {now}
  /\ Complete(now)
  /\ ApproveReturns
  /\ UNCHANGED <<enabled, source, generation, flips, serverVars>>

(* Any other error, the answer of a reply that was served lost included.   *)
ApproveFails ==
  /\ step = "approving"
  /\ failures' = failures \cup {now}
  /\ ApproveReturns
  /\ UNCHANGED <<enabled, source, generation, completed, flips, serverVars>>

-----------------------------------------------------------------------------
(* setEnabled()                                                            *)

(* The call waits for the first read of the state file.                    *)
ToggleArrives(t, b) ==
  /\ toggle[t] = "unused"
  /\ toggle' = [toggle EXCEPT ![t] = "loading"]
  /\ want' = [want EXCEPT ![t] = b]
  /\ UNCHANGED <<stateVars, queue, taskVars, persistQueue, flips, serverVars>>

(* The flag flips and the file is queued to be written.                    *)
ToggleFlips(t) ==
  /\ toggle[t] = "loading"
  /\ toggle' = [toggle EXCEPT ![t] = "persisting"]
  /\ enabled' = want[t]
  /\ source' = "explicit"
  /\ generation' = generation + 1
  /\ failures' = {}
  /\ persistQueue' = Append(persistQueue, t)
  /\ UNCHANGED <<completed, queue, taskVars, want, flips, serverVars>>

(* Mutant of TogglePersisted: a disabling call does not wait.              *)
TogglePersistedNoWait(t) ==
  /\ persistQueue # <<>> /\ Head(persistQueue) = t
  /\ persistQueue' = Tail(persistQueue)
  /\ IF want[t]
     THEN /\ Enqueue(ReconcileTask(generation, t))
          /\ toggle' = [toggle EXCEPT ![t] = "waiting"]
     ELSE /\ toggle' = [toggle EXCEPT ![t] = "returned"]
          /\ UNCHANGED queue
  /\ UNCHANGED <<stateVars, taskVars, want, flips, serverVars>>

(* The file is written (or was not: the error is only logged): an enabling *)
(* call reconciles under the generation of this moment, a disabling one    *)
(* waits for the work that was queued.                                     *)
TogglePersisted(t) ==
  /\ persistQueue # <<>> /\ Head(persistQueue) = t
  /\ persistQueue' = Tail(persistQueue)
  /\ toggle' = [toggle EXCEPT ![t] = "waiting"]
  /\ Enqueue(IF want[t] THEN ReconcileTask(generation, t) ELSE DrainTask(t))
  /\ UNCHANGED <<stateVars, taskVars, want, flips, serverVars>>

-----------------------------------------------------------------------------
(* The state file, read by the timer or before an event is handled         *)

(* Mutant of FileLists: what is pending already is left waiting.           *)
FileListsOnly ==
  /\ source = "loaded" /\ ~enabled /\ flips < MaxFlips
  /\ flips' = flips + 1
  /\ enabled' = TRUE /\ generation' = generation + 1
  /\ UNCHANGED <<source, failures, completed, queue, taskVars, toggleVars, serverVars>>

(* doReconcileFromFile() finds the directory listed ...                    *)
FileLists ==
  /\ source = "loaded" /\ ~enabled /\ flips < MaxFlips
  /\ flips' = flips + 1
  /\ enabled' = TRUE /\ generation' = generation + 1
  /\ Enqueue(ReconcileTask(generation', None))
  /\ UNCHANGED <<source, failures, completed, taskVars, toggleVars, serverVars>>

(* ... or no longer listed.  A directory toggled here is left alone.       *)
FileDrops ==
  /\ source = "loaded" /\ enabled /\ flips < MaxFlips
  /\ flips' = flips + 1
  /\ enabled' = FALSE /\ generation' = generation + 1
  /\ UNCHANGED <<source, failures, completed, queue, taskVars, toggleVars, serverVars>>

-----------------------------------------------------------------------------
(* The bus                                                                 *)

(* A request is opened, or somebody else answers it (external).            *)
RequestOpens(r) ==
  /\ asked[r] = "unsent"
  /\ pending' = pending \cup {r}
  /\ asked' = [asked EXCEPT ![r] = IF connected THEN "underway" ELSE "handled"]
  /\ UNCHANGED <<stateVars, queue, taskVars, toggleVars, flips, replied, connected, drops>>

HumanReplies(r) ==
  /\ r \in pending
  /\ pending' = pending \ {r}
  /\ replied' = [replied EXCEPT ![r] = IF connected THEN "underway" ELSE "handled"]
  /\ UNCHANGED <<stateVars, queue, taskVars, toggleVars, flips, asked, connected, drops>>

(* The stream is lost (external), and of the events underway those that    *)
(* were not delivered yet.                                                 *)
StreamLost ==
  /\ connected /\ drops < MaxDrops
  /\ connected' = FALSE /\ drops' = drops + 1
  /\ \E A, P \in SUBSET Requests :
       /\ asked' = [r \in Requests |-> IF asked[r] = "underway" /\ r \in A THEN "handled" ELSE asked[r]]
       /\ replied' = [r \in Requests |-> IF replied[r] = "underway" /\ r \in P THEN "handled" ELSE replied[r]]
  /\ UNCHANGED <<stateVars, queue, taskVars, toggleVars, flips, pending>>

(* Mutant of Reconnected: nothing is done about the events that were lost. *)
ReconnectedOnly ==
  /\ ~connected /\ connected' = TRUE
  /\ UNCHANGED <<stateVars, queue, taskVars, toggleVars, flips, pending, asked, replied, drops>>

(* onConnected()                                                           *)
Reconnected ==
  /\ ~connected /\ connected' = TRUE
  /\ IF enabled THEN Enqueue(ReconcileTask(generation, None)) ELSE UNCHANGED queue
  /\ UNCHANGED <<stateVars, taskVars, toggleVars, flips, pending, asked, replied, drops>>

(* handleAsked() after its awaits: the canonical directory, then the state *)
(* file.  handleReplied() awaits less, so it may overtake.                 *)
HandleAsked(r) ==
  /\ asked[r] = "underway"
  /\ asked' = [asked EXCEPT ![r] = "handled"]
  /\ IF enabled THEN Enqueue(AskedTask(r, generation)) ELSE UNCHANGED queue
  /\ UNCHANGED <<stateVars, taskVars, toggleVars, flips, pending, replied, connected, drops>>

(* handleReplied() after its await.                                        *)
HandleReplied(r) ==
  /\ replied[r] = "underway"
  /\ replied' = [replied EXCEPT ![r] = "handled"]
  /\ Enqueue(RepliedTask(r))
  /\ UNCHANGED <<stateVars, taskVars, toggleVars, flips, pending, asked, connected, drops>>

-----------------------------------------------------------------------------
(* Steps of the head of the queue, and what it waits for.                  *)
QueueStep ==
  \/ AskedSkips \/ AskedApproves \/ RepliedClears \/ Drained
  \/ ReconcileSkips \/ ReconcileLists \/ ListArrives \/ ListFails \/ ListServed
  \/ \E r \in Requests : LoopApproves(r)
  \/ LoopEnds
  \/ ReplyServed \/ Approved \/ ApproveFails

Next ==
  \/ QueueStep
  \/ \E t \in Toggles :
       \/ \E b \in BOOLEAN : ToggleArrives(t, b)
       \/ ToggleFlips(t)
       \/ TogglePersisted(t)
  \/ FileLists
  \/ FileDrops
  \/ \E r \in Requests :
       \/ RequestOpens(r)
       \/ HumanReplies(r)
       \/ HandleAsked(r)
       \/ HandleReplied(r)
  \/ StreamLost
  \/ Reconnected

Spec == Init /\ [][Next]_vars

(* Promise chains move on, HTTP calls are answered or fail, handlers are   *)
(* resumed, and the bus connects again (its backoff ends at 30 s).         *)
Fairness ==
  /\ WF_vars(QueueStep)
  /\ \A t \in Toggles : WF_vars(ToggleFlips(t)) /\ WF_vars(TogglePersisted(t))
  /\ \A r \in Requests : WF_vars(HandleAsked(r)) /\ WF_vars(HandleReplied(r))
  /\ WF_vars(Reconnected)

FairSpec == Spec /\ Fairness

-----------------------------------------------------------------------------
Progress == {"unsent", "underway", "handled"}
Tasks == [kind : {"asked", "replied", "reconcile", "drain"}, req : Requests \cup {None},
          gen : Nat, by : Toggles \cup {None}]

(* Every variable holds a value of the code's type; no more ids are kept   *)
(* than the cap allows.                                                    *)
TypeOK ==
  /\ enabled \in BOOLEAN /\ source \in {"loaded", "explicit"} /\ generation \in Nat
  /\ queue \in Seq(Tasks)
  /\ failures \subseteq Requests \cup {"reconcile"}
  /\ completed \subseteq Requests /\ IsFiniteSet(completed) /\ Cardinality(completed) <= CompletedCap
  /\ step \in {"idle", "listing", "listed", "looping", "approving"}
  /\ todo \subseteq Requests /\ now \in Requests \cup {None}
  /\ toggle \in [Toggles -> {"unused", "loading", "persisting", "waiting", "returned"}]
  /\ want \in [Toggles -> BOOLEAN]
  /\ persistQueue \in Seq(Toggles)
  /\ flips \in 0..MaxFlips
  /\ pending \subseteq Requests
  /\ asked \in [Requests -> Progress] /\ replied \in [Requests -> Progress]
  /\ connected \in BOOLEAN /\ drops \in 0..MaxDrops

(* autoPermissions.ts:191 "pending event handlers observe the disable and  *)
(* cannot approve after this call resolves": a reply is in flight for a    *)
(* directory the user switched off only while a call that switched it off  *)
(* has not returned, whatever toggles, events and reconciles overlap.      *)
NoApprovalAfterDisable ==
  step = "approving" /\ ~enabled /\ source = "explicit" =>
    \E t \in Toggles : ~want[t] /\ toggle[t] \in {"persisting", "waiting"}

(* Where a pending request of an enabled directory is being taken care of. *)
Reported(r) == r \in failures \/ "reconcile" \in failures
EventUnderway(r) == ~connected \/ asked[r] = "underway"
Queued(r) == \E i \in DOMAIN queue :
  /\ queue[i].gen = generation
  /\ \/ (queue[i].kind = "asked" /\ queue[i].req = r)
     \/ (queue[i].kind = "reconcile" /\ (i > 1 \/ step \in {"idle", "listing"}))
Running(r) == (r \in todo /\ ~Outdated(Head(queue))) \/ (step = "approving" /\ now = r)
ToBeReconciled == \E t \in Toggles : want[t] /\ toggle[t] = "persisting"

InHand(r) == EventUnderway(r) \/ Queued(r) \/ Running(r) \/ ToBeReconciled

(* Nobody waits unseen: while a directory auto-approves, each request that *)
(* opencode holds open is reported as failed, or an event, a queued task,  *)
(* the running task, a toggle or the next connection will get to it --     *)
(* through toggles that overlap, generations that outdate queued tasks,    *)
(* lost events and the file flipping the flag.                             *)
NobodyForgotten ==
  enabled => \A r \in pending : Reported(r) \/ InHand(r)

(* What it rests on: the running task is the head of the queue ...         *)
Active == step # "idle"
HeadInv ==
  /\ Active => queue # <<>>
  /\ step \in {"listing", "listed", "looping"} => Head(queue).kind = "reconcile"
  /\ step = "approving" => now \in Requests /\ Head(queue).kind \in {"asked", "reconcile"}
  /\ step = "approving" /\ Head(queue).kind = "asked" => todo = {} /\ now = Head(queue).req
  /\ todo # {} => Active

(* ... what is listed, queued or answered was asked before, what was       *)
(* answered is not open, and a call that a task answers has persisted ...  *)
HistoryInv ==
  /\ \A r \in Requests : asked[r] = "unsent" => r \notin pending \cup completed \cup todo \cup {now}
  /\ completed \cap pending = {}
  /\ \A r \in Requests : replied[r] # "unsent" => r \notin pending /\ asked[r] # "unsent"
  /\ \A i \in DOMAIN queue :
       /\ queue[i].kind = "asked" => queue[i].req \in Requests /\ asked[queue[i].req] # "unsent"
       /\ queue[i].kind = "replied" => queue[i].req \in Requests /\ replied[queue[i].req] # "unsent"
       /\ queue[i].by \in Toggles => toggle[queue[i].by] \in {"waiting", "returned"}

(* ... a running task whose generation is over is followed by another list *)
AnotherList == \E i \in DOMAIN queue :
  i > 1 /\ queue[i].kind = "reconcile" /\ queue[i].gen = generation
OutdatedInv ==
  Active /\ enabled /\ Head(queue).gen # generation => ToBeReconciled \/ AnotherList

(* ... and what the list on its way misses has an event of its own.        *)
ListInv ==
  step = "listed" /\ enabled => \A r \in pending : InHand(r)

(* The inductive form of NobodyForgotten: at every step of the queue each  *)
(* open request of an enabled directory has somebody who will look at it.  *)
QueueInv == NobodyForgotten /\ HeadInv /\ HistoryInv /\ OutdatedInv /\ ListInv

(* So a request that stays open in a directory that stays enabled is       *)
(* reported in the status, at the latest when everything settled.          *)
RequestSettles ==
  \A r \in Requests : <>[]enabled => <>[](r \notin pending \/ Reported(r))

(* The reply's event of a request is still to be dealt with, or will be    *)
(* once the request is answered.                                           *)
ReplyToCome(r) ==
  \/ r \in pending
  \/ replied[r] = "underway"
  \/ \E i \in DOMAIN queue : queue[i].kind = "replied" /\ queue[i].req = r

(* The status does not keep the failure of a request that was answered:    *)
(* what is recorded before the event of the reply had its turn is cleared  *)
(* by that turn or, when the event was lost, by the list of the next       *)
(* connection, though the task that records it may overlap all of them.    *)
FailureClears ==
  \A r \in Requests :
    <>[](r \notin pending) =>
      ((r \in failures /\ ReplyToCome(r)) ~> (r \notin failures \/ ~enabled \/ "reconcile" \in failures))

=============================================================================
