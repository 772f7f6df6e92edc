--------------------------------- MODULE DshRuns ---------------------------------
(* The turns of DSH conversations, end to end: the prompt and cancel routes        *)
(* (server/routes/dsh.ts), the session store with its ledger of runs               *)
(* (server/dsh/store.ts), the pool's bridge (server/dsh/bridge.ts) and the bridge  *)
(* process itself (scripts/dsh-bridge.py): one loop that reads requests and one    *)
(* thread per turn. A process writes its lines to one pipe; only the answer to a   *)
(* request carries an identity, every other line names a session and nothing else. *)
EXTENDS Naturals, Sequences, FiniteSets, SequencesExt

CONSTANTS Sessions,       \* conversations of one preset and one workspace
          MaxPrompts,     \* bound: prompts asked for
          MaxCancels,     \* bound: cancels asked for
          MaxBridges,     \* bound: bridge processes ever started
          MaxFaults,      \* bound: failed checks, failed turns, timeouts, crashes
          None

VARIABLES prompts,        \* handler -> [session, at]
          asked,          \* how many cancels were asked for
          calls,          \* process -> the requests that wait for its answer: pending
          running,        \* the sessions whose run is on: session.running
          ledger,         \* Seq of [session, prompt, outcome]: ledger.records
          pool,           \* the bridge new requests go to, 0 when there is none
          procs,          \* process -> what it remembers, see NewProcess
          inbox, outbox,  \* process -> the lines it has yet to read, and written
          threads,        \* process -> set of [prompt, session, at]
          finished,       \* the prompts whose turn really ran to its end
          crossed,        \* ghost: something overlapped that OutcomeIsOwn leaves out
          faults

vars == <<prompts, asked, calls, running, ledger, pool, procs, inbox, outbox, threads,
          finished, crossed, faults>>

Prompts == 1..MaxPrompts
Bridges == 1..MaxBridges
Somebody == CHOOSE s \in Sessions : TRUE

Answers == {"accepted", "refused", "finished", "aborted", "failed", "kept", "cancelled",
            "uncancelled"}
Line(kind, s, n) == [kind |-> kind, session |-> s, id |-> n]
NewProcess(state) ==
  [state     |-> state,
   busy      |-> None,     \* busy_session
   cancelled |-> {},       \* the sessions whose turn was cancelled
   thread    |-> 0,        \* run_thread: the prompt of the last thread
   owes      |-> 0,        \* the prompt its loop has begun and has yet to accept
   joins     |-> 0,        \* the cancel for which its loop waits for the thread
   broken    |-> FALSE]    \* ghost: its harness could once not be closed

TypeOK ==
  /\ prompts \in [Prompts -> [session: Sessions, at: {"none", "verify", "done"}]]
  /\ asked \in 0..MaxCancels
  /\ calls \in [Bridges -> SUBSET [kind: {"prompt", "cancel"}, session: Sessions, id: Nat]]
  /\ running \subseteq Sessions
  /\ ledger \in Seq([session: Sessions, prompt: Prompts,
                     outcome: {"running", "completed", "cancelled", "failed"}])
  /\ pool \in 0..MaxBridges
  /\ procs \in [Bridges -> [state: {"unborn", "up", "dying", "gone"},
                            busy: Sessions \cup {None}, cancelled: SUBSET Sessions,
                            thread: 0..MaxPrompts, owes: 0..MaxPrompts,
                            joins: 0..MaxCancels, broken: BOOLEAN]]
  /\ inbox \in [Bridges -> Seq([kind: {"prompt", "cancel"}, session: Sessions, id: Nat])]
  /\ outbox \in [Bridges -> Seq([kind: Answers, session: Sessions, id: Nat])]
  /\ threads \in [Bridges -> SUBSET [prompt: Prompts, session: Sessions,
                                     at: {"run", "finish", "abort", "fail", "last"}]]
  /\ finished \subseteq Prompts /\ crossed \in BOOLEAN /\ faults \in 0..MaxFaults

Init ==
  /\ prompts = [n \in Prompts |-> [session |-> Somebody, at |-> "none"]]
  /\ asked = 0 /\ calls = [b \in Bridges |-> {}] /\ running = {} /\ ledger = <<>>
  /\ pool = 0
  /\ procs = [b \in Bridges |-> NewProcess("unborn")]
  /\ inbox = [b \in Bridges |-> <<>>] /\ outbox = [b \in Bridges |-> <<>>]
  /\ threads = [b \in Bridges |-> {}]
  /\ finished = {} /\ crossed = FALSE /\ faults = 0

Fault == faults < MaxFaults /\ faults' = faults + 1

(* SIGTERM: the process does nothing more, but what it wrote may still be read,  *)
(* and the server hears of its exit later.                                       *)
Killed(b) ==
  /\ procs' = [procs EXCEPT ![b].state = "dying", ![b].joins = 0, ![b].owes = 0]
  /\ threads' = [threads EXCEPT ![b] = {}]
  /\ crossed' = (crossed \/ outbox[b] # <<>> \/ pool # b)

-------------------------------------------------------------------------------
(* The store *)

(* finish: the latest record of the session that still runs gets the outcome.    *)
Close(s, outcome) ==
  LET mine == {i \in DOMAIN ledger : ledger[i].session = s /\ ledger[i].outcome = "running"}
  IN IF mine = {} THEN ledger
     ELSE [ledger EXCEPT ![CHOOSE i \in mine : \A j \in mine : j <= i].outcome = outcome]

(* applyBridge and cancel: what reaches a session that does not run is dropped.  *)
Outcome(s, outcome) ==
  /\ running' = running \ {s}
  /\ ledger' = IF s \in running THEN Close(s, outcome) ELSE ledger
NoOutcome == UNCHANGED <<running, ledger>>

-------------------------------------------------------------------------------
(* The routes *)

(* POST prompt: refused while the session runs, and checked again never: the     *)
(* workspace's identity is read from disk before the run starts.                 *)
Prompt(n, s) ==
  /\ prompts[n].at = "none" /\ s \notin running
  /\ \A m \in Prompts : m < n => prompts[m].at # "none"
  /\ prompts' = [prompts EXCEPT ![n] = [session |-> s, at |-> "verify"]]
  /\ UNCHANGED <<asked, calls, running, ledger, pool, procs, inbox, outbox, threads,
                 finished, crossed, faults>>

(* The bridge a request goes to: the pool's, or a process started for it.        *)
Target == IF pool # 0 THEN pool
          ELSE IF \E b \in Bridges : procs[b].state = "unborn"
               THEN CHOOSE b \in Bridges : procs[b].state = "unborn" /\
                      \A c \in Bridges : procs[c].state = "unborn" => b <= c
               ELSE 0
Sends(line) ==
  /\ Target # 0
  /\ pool' = Target
  /\ calls' = [calls EXCEPT ![Target] = @ \cup {line}]
  /\ procs' = [procs EXCEPT ![Target].state = IF @ = "unborn" THEN "up" ELSE @]
  /\ inbox' = [inbox EXCEPT ![Target] = Append(@, line)]

(* Requests of the session that may still close its run: a cancel that waits, or  *)
(* the mark of a turn whose cancel failed and which goes on.                     *)
Cancelling(s) == \E b \in Bridges : \E line \in calls[b] : line.kind = "cancel" /\ line.session = s
Marked(s) == pool # 0 /\ s \in procs[pool].cancelled

(* The workspace is the one allowed: the run starts, and its prompt is sent. A    *)
(* process is up from its spawn: that it is not ready yet is that it has not yet *)
(* read its lines, and that it never gets ready is TimesOut or Exits.            *)
Start(n) ==
  LET s == prompts[n].session
  IN /\ prompts[n].at = "verify"
     /\ running' = running \cup {s}
     /\ ledger' = Append(ledger, [session |-> s, prompt |-> n, outcome |-> "running"])
     /\ crossed' = (crossed \/ s \in running \/ Cancelling(s) \/ Marked(s))
     /\ Sends(Line("prompt", s, n))
     /\ prompts' = [prompts EXCEPT ![n].at = "done"]
     /\ UNCHANGED <<asked, outbox, threads, finished, faults>>

(* The bridge cannot be started: the run that has just started fails at once.    *)
StartFails(n) ==
  LET s == prompts[n].session
  IN /\ prompts[n].at = "verify" /\ pool = 0 /\ Fault
     /\ ledger' = Append(ledger, [session |-> s, prompt |-> n, outcome |-> "failed"])
     /\ running' = running \ {s}
     /\ crossed' = (crossed \/ s \in running)
     /\ prompts' = [prompts EXCEPT ![n].at = "done"]
     /\ UNCHANGED <<asked, calls, pool, procs, inbox, outbox, threads, finished>>

(* The workspace was replaced: its bridge is dropped from the pool and killed.   *)
Replaced(n) ==
  /\ prompts[n].at = "verify" /\ Fault
  /\ pool' = 0
  /\ IF pool = 0 THEN UNCHANGED <<procs, threads, crossed>> ELSE Killed(pool)
  /\ Outcome(prompts[n].session, "failed")
  /\ prompts' = [prompts EXCEPT ![n].at = "done"]
  /\ UNCHANGED <<asked, calls, inbox, outbox, finished>>

(* POST cancel asks whatever the session does, and however many ask already: a   *)
(* process is even started for it.                                               *)
Cancel(s) ==
  /\ asked < MaxCancels /\ asked' = asked + 1
  /\ Sends(Line("cancel", s, asked'))
  /\ UNCHANGED <<prompts, running, ledger, outbox, threads, finished, crossed, faults>>

(* There is none to ask and none can be started: a run of the session fails.     *)
CancelFails(s) ==
  /\ asked < MaxCancels /\ asked' = asked + 1
  /\ pool = 0 /\ Fault
  /\ Outcome(s, "failed")
  /\ UNCHANGED <<prompts, calls, pool, procs, inbox, outbox, threads, finished, crossed>>

-------------------------------------------------------------------------------
(* The bridge process *)

Writes(b, kind, s, n) == outbox' = [outbox EXCEPT ![b] = Append(@, Line(kind, s, n))]

(* Its loop handles one line at a time.                                          *)
Idle(b) == procs[b].state = "up" /\ procs[b].joins = 0 /\ procs[b].owes = 0

(* A prompt is taken when no turn is on: its thread starts.                      *)
TakePrompt(b) ==
  /\ Idle(b) /\ inbox[b] # <<>> /\ Head(inbox[b]).kind = "prompt"
  /\ LET line == Head(inbox[b])
     IN IF procs[b].busy = None
        THEN /\ procs' = [procs EXCEPT ![b].busy = line.session, ![b].thread = line.id,
                                       ![b].owes = line.id]
             /\ threads' = [threads EXCEPT ![b] = @ \cup
                  {[prompt |-> line.id, session |-> line.session, at |-> "run"]}]
             /\ UNCHANGED outbox
        ELSE Writes(b, "refused", line.session, line.id) /\ UNCHANGED <<procs, threads>>
  /\ inbox' = [inbox EXCEPT ![b] = Tail(@)]
  /\ UNCHANGED <<prompts, asked, calls, running, ledger, pool, finished, crossed, faults>>

(* Only then is it accepted: the thread may have ended and said so before.       *)
Accepts(b) ==
  /\ procs[b].state = "up" /\ procs[b].owes # 0
  /\ Writes(b, "accepted", prompts[procs[b].owes].session, procs[b].owes)
  /\ procs' = [procs EXCEPT ![b].owes = 0]
  /\ UNCHANGED <<prompts, asked, calls, running, ledger, pool, inbox, threads, finished,
                 crossed, faults>>

(* The head of what it has to read is a cancel.                                  *)
CancelTaken(b) ==
  /\ Idle(b) /\ inbox[b] # <<>> /\ Head(inbox[b]).kind = "cancel"
  /\ inbox' = [inbox EXCEPT ![b] = Tail(@)]
  /\ UNCHANGED <<prompts, asked, calls, running, ledger, pool, threads, finished>>

\* Mutant: a cancel is answered before its turn has ended.
CancelAtOnce(b) ==
  /\ CancelTaken(b) /\ UNCHANGED <<crossed, faults>>
  /\ LET line == Head(inbox[b])
     IN IF procs[b].busy = line.session
        THEN /\ procs' = [procs EXCEPT ![b].cancelled = @ \cup {line.session}]
             /\ Writes(b, "cancelled", line.session, line.id)
        ELSE Writes(b, "kept", line.session, line.id) /\ UNCHANGED procs

(* A cancel of the session that is busy marks it, and the loop waits for its     *)
(* thread; of any other, it answers that nothing was cancelled.                  *)
TakeCancel(b) ==
  /\ CancelTaken(b) /\ UNCHANGED <<crossed, faults>>
  /\ LET line == Head(inbox[b])
     IN IF procs[b].busy = line.session
        THEN /\ procs' = [procs EXCEPT ![b].cancelled = @ \cup {line.session},
                                       ![b].joins = line.id]
             /\ UNCHANGED outbox
        ELSE Writes(b, "kept", line.session, line.id) /\ UNCHANGED procs

(* Its harness cannot be closed: the cancel is answered with the error, and the  *)
(* turn goes on under its mark.                                                  *)
CloseRaises(b) ==
  /\ CancelTaken(b) /\ Fault
  /\ LET s == Head(inbox[b]).session
     IN /\ procs[b].busy = s
        /\ procs' = [procs EXCEPT ![b].cancelled = @ \cup {s}, ![b].broken = TRUE]
        /\ Writes(b, "uncancelled", s, Head(inbox[b]).id)
        /\ crossed' = (crossed \/ \E t \in threads[b] : t.session = s /\ t.at # "run")

(* The session whose cancel the loop waits for: its mark goes only with a thread. *)
JoinedFor(b) == prompts[procs[b].thread].session

(* The thread has ended: the loop answers the cancel it had stopped for.         *)
Joined(b) ==
  /\ procs[b].state = "up" /\ procs[b].joins # 0
  /\ \A t \in threads[b] : t.prompt # procs[b].thread
  /\ Writes(b, "cancelled", JoinedFor(b), procs[b].joins)
  /\ procs' = [procs EXCEPT ![b].joins = 0]
  /\ UNCHANGED <<prompts, asked, calls, running, ledger, pool, inbox, threads, finished,
                 crossed, faults>>

(* It has not after five seconds: the process says so, answers and exits.        *)
ForcedExit(b) ==
  /\ procs[b].state = "up" /\ procs[b].joins # 0 /\ Fault
  /\ \E t \in threads[b] : t.prompt = procs[b].thread
  /\ outbox' = [outbox EXCEPT ![b] = @ \o
       <<Line("failed", JoinedFor(b), 0), Line("cancelled", JoinedFor(b), procs[b].joins)>>]
  /\ procs' = [procs EXCEPT ![b].state = "dying", ![b].joins = 0, ![b].owes = 0]
  /\ threads' = [threads EXCEPT ![b] = {}]
  /\ UNCHANGED <<prompts, asked, calls, running, ledger, pool, inbox, finished, crossed>>

Moves(b, t, at) == threads' = [threads EXCEPT ![b] = (@ \ {t}) \cup {[t EXCEPT !.at = at]}]

(* runtime.run returns: under the lock, the turn sees whether it was cancelled   *)
(* and gives the bridge up; what it will say, it says after the lock, with the   *)
(* reason it ended for: completed, aborted or any other.                         *)
TurnEnds(b, t) ==
  /\ t.at = "run"
  /\ procs' = [procs EXCEPT ![b].busy = IF @ = t.session THEN None ELSE @]
  /\ \/ /\ t.session \in procs[b].cancelled
        /\ Moves(b, t, "last") /\ UNCHANGED <<finished, faults>>
     \/ /\ t.session \notin procs[b].cancelled
        /\ Moves(b, t, "finish") /\ finished' = finished \cup {t.prompt} /\ UNCHANGED faults
     \/ /\ t.session \notin procs[b].cancelled /\ Fault
        /\ (Moves(b, t, "abort") \/ Moves(b, t, "fail")) /\ UNCHANGED finished
  /\ UNCHANGED <<prompts, asked, calls, running, ledger, pool, inbox, outbox, crossed>>

(* It raises, because it failed or because the cancel closed the harness.        *)
TurnRaises(b, t) ==
  /\ t.at = "run"
  /\ \/ t.session \in procs[b].cancelled /\ UNCHANGED faults /\ Moves(b, t, "last")
     \/ t.session \notin procs[b].cancelled /\ Fault /\ Moves(b, t, "fail")
  /\ UNCHANGED <<prompts, asked, calls, running, ledger, pool, procs, inbox, outbox,
                 finished, crossed>>

Words == [finish |-> "finished", abort |-> "aborted", fail |-> "failed"]
Says(b, t) ==
  /\ t.at \in DOMAIN Words
  /\ Writes(b, Words[t.at], t.session, t.prompt)
  /\ Moves(b, t, "last")
  /\ UNCHANGED <<prompts, asked, calls, running, ledger, pool, procs, inbox, finished,
                 crossed, faults>>

(* `finally`: the session's mark goes, and the bridge is free if it was its own. *)
Ends(b, t) ==
  /\ t.at = "last"
  /\ procs' = [procs EXCEPT ![b].busy = IF @ = t.session THEN None ELSE @,
                            ![b].cancelled = @ \ {t.session}]
  /\ threads' = [threads EXCEPT ![b] = @ \ {t}]
  /\ UNCHANGED <<prompts, asked, calls, running, ledger, pool, inbox, outbox, finished,
                 crossed, faults>>

-------------------------------------------------------------------------------
(* What reaches the server *)

(* What a turn's end makes of its session's run.                                 *)
Ended == [finished |-> "completed", aborted |-> "cancelled", failed |-> "failed"]
Waits(b, kind, line) == Line(kind, line.session, line.id) \in calls[b]

\* Mutant: an answer is taken for every request of its kind and session.
AnsweredAll(b, kind, line) ==
  calls' = [calls EXCEPT ![b] = {c \in @ : c.kind # kind \/ c.session # line.session}]

(* An answer goes to its request, if that still waits.                           *)
Answered(b, kind, line) ==
  calls' = [calls EXCEPT ![b] = @ \ {Line(kind, line.session, line.id)}]

\* Mutant: a refused prompt only answers its request, and leaves the run on.
ReadsOnly(b) ==
  /\ outbox[b] # <<>>
  /\ LET line == Head(outbox[b])
         s == line.session
     IN \/ line.kind \in DOMAIN Ended /\ Outcome(s, Ended[line.kind]) /\ UNCHANGED calls
        \/ line.kind \in {"accepted", "refused"} /\ Answered(b, "prompt", line) /\ NoOutcome
        \/ /\ line.kind \in {"kept", "cancelled", "uncancelled"} /\ Answered(b, "cancel", line)
           /\ IF line.kind # "kept" /\ Waits(b, "cancel", line)
              THEN Outcome(s, IF line.kind = "cancelled" THEN "cancelled" ELSE "failed")
              ELSE NoOutcome
  /\ outbox' = [outbox EXCEPT ![b] = Tail(@)]
  /\ UNCHANGED <<prompts, asked, pool, procs, inbox, threads, finished, crossed, faults>>

(* One line is read. A turn's end closes the session's run, whichever it is; a   *)
(* request that is refused fails it, and a cancel that is granted cancels it.    *)
Reads(b) ==
  /\ outbox[b] # <<>>
  /\ LET line == Head(outbox[b])
         s == line.session
     IN \/ line.kind \in DOMAIN Ended /\ Outcome(s, Ended[line.kind]) /\ UNCHANGED calls
        \/ /\ line.kind \in {"accepted", "refused"} /\ Answered(b, "prompt", line)
           /\ IF line.kind = "refused" /\ Waits(b, "prompt", line)
              THEN Outcome(s, "failed") ELSE NoOutcome
        \/ /\ line.kind \in {"kept", "cancelled", "uncancelled"} /\ Answered(b, "cancel", line)
           /\ IF line.kind # "kept" /\ Waits(b, "cancel", line)
              THEN Outcome(s, IF line.kind = "cancelled" THEN "cancelled" ELSE "failed")
              ELSE NoOutcome
  /\ outbox' = [outbox EXCEPT ![b] = Tail(@)]
  /\ UNCHANGED <<prompts, asked, pool, procs, inbox, threads, finished, crossed, faults>>

(* A request waited too long: it is given up, its bridge is told to stop, and    *)
(* the session's run fails.                                                      *)
TimesOut(b, line) ==
  /\ line \in calls[b] /\ Fault
  /\ calls' = [calls EXCEPT ![b] = @ \ {line}]
  /\ Killed(b)
  /\ Outcome(line.session, "failed")
  /\ UNCHANGED <<prompts, asked, pool, inbox, outbox, finished>>

(* A process is gone, by itself or told to: every session of the preset and      *)
(* workspace that runs fails, and the requests it had are rejected. Lines it     *)
(* wrote may still be read after its exit.                                       *)
Exits(b) ==
  /\ \/ procs[b].state = "dying" /\ UNCHANGED faults
     \/ procs[b].state = "up" /\ Fault
  /\ procs' = [procs EXCEPT ![b] = NewProcess("gone")]
  /\ pool' = IF pool = b THEN 0 ELSE pool
  /\ inbox' = [inbox EXCEPT ![b] = <<>>]
  /\ threads' = [threads EXCEPT ![b] = {}]
  /\ calls' = [calls EXCEPT ![b] = {}]
  /\ crossed' = (crossed \/ outbox[b] # <<>> \/ pool # b)
  /\ running' = {}
  /\ ledger' = [i \in DOMAIN ledger |->
       LET s == ledger[i].session
       IN IF s \in running /\ Close(s, "failed")[i] # ledger[i]
          THEN Close(s, "failed")[i] ELSE ledger[i]]
  /\ UNCHANGED <<prompts, asked, outbox, finished>>

Turn(b) == \E t \in threads[b] : TurnEnds(b, t) \/ TurnRaises(b, t) \/ Says(b, t) \/ Ends(b, t)

Turns == \E b \in Bridges : Turn(b)
Lines == \E b \in Bridges : \/ TakePrompt(b) \/ Accepts(b) \/ TakeCancel(b) \/ Joined(b)
                            \/ Reads(b) \/ (procs[b].state = "dying" /\ Exits(b))
Next ==
  \/ \E n \in Prompts : \/ \E s \in Sessions : Prompt(n, s)
                        \/ Start(n) \/ StartFails(n) \/ Replaced(n)
  \/ \E s \in Sessions : Cancel(s) \/ CancelFails(s)
  \/ \E b \in Bridges : \/ TakePrompt(b) \/ Accepts(b) \/ TakeCancel(b) \/ CloseRaises(b)
                        \/ Joined(b) \/ ForcedExit(b) \/ Turn(b) \/ Reads(b) \/ Exits(b)
                        \/ \E line \in calls[b] : TimesOut(b, line)

Spec == Init /\ [][Next]_vars
(* A turn's thread runs on and a process reads its lines; the server reads what  *)
(* is written, and a process that was told to stop exits.                        *)
FairSpec == Spec /\ WF_vars(Turns) /\ WF_vars(Lines)

-------------------------------------------------------------------------------
(* A run the ledger calls completed is a run whose own turn completed, and one   *)
(* it calls cancelled has no turn left on in any bridge: lines that name only a  *)
(* session are never taken for another run's (store.ts:187, dsh-bridge.py:75).   *)
(* Left out: a prompt that overlapped another or a cancel of its session, or     *)
(* began beside a turn whose cancel had failed; a cancel that failed while an    *)
(* end of its session's turns was on its way; and a process that was killed or   *)
(* gone with lines unread, or after its replacement.                             *)
OutcomeIsOwn ==
  ~crossed =>
    \A i \in DOMAIN ledger :
      /\ ledger[i].outcome = "completed" => ledger[i].prompt \in finished
      /\ ledger[i].outcome = "cancelled" =>
           \A b \in Bridges : \A t \in threads[b] :
             t.prompt = ledger[i].prompt => t.at # "run"

(* A session runs exactly when its newest run is open in the ledger, and without *)
(* overlapping prompts no older run of it stays open (store.ts:163, :270).       *)
OpenRunIsNewest ==
  \A s \in Sessions :
    LET mine == {i \in DOMAIN ledger : ledger[i].session = s}
        open == {i \in mine : ledger[i].outcome = "running"}
    IN /\ s \in running => \E i \in open : \A j \in mine : j <= i
       /\ ~crossed /\ s \notin running => open = {}

(* One process is up, the pool's; the others do nothing, and have written nothing *)
(* unread unless something crossed. What is busy is the last thread's session.   *)
ProcsAreWhole ==
  /\ pool # 0 => procs[pool].state \in {"up", "dying"}
  /\ \A b \in Bridges : LET p == procs[b] IN
       /\ p.state = "up" => b = pool
       /\ p.state # "up" => threads[b] = {} /\ p.joins = 0 /\ p.owes = 0
       /\ p.state = "unborn" => inbox[b] = <<>> /\ outbox[b] = <<>>
       /\ p.busy # None \/ p.joins # 0 => p.thread # 0
       /\ p.busy # None => p.busy = prompts[p.thread].session
       /\ ~crossed /\ b # pool => outbox[b] = <<>>

(* Lines, threads and records are of prompts that were sent, once each, and the  *)
(* cancels that wait are among those asked for.                                  *)
Sent(n) == n \in Prompts /\ prompts[n].at = "done"
LinesAreOfPrompts ==
  /\ \A b \in Bridges :
       /\ \A k \in DOMAIN inbox[b] : LET line == inbox[b][k] IN
            /\ line.kind = "prompt" => Sent(line.id) /\ line.session = prompts[line.id].session
            /\ line.kind = "cancel" => line.id \in 1..MaxCancels
       /\ \A k \in DOMAIN outbox[b] :
            outbox[b][k].kind = "finished" => outbox[b][k].id \in finished
       /\ \A t \in threads[b] :
            /\ Sent(t.prompt) /\ t.session = prompts[t.prompt].session
            /\ t.at = "finish" => t.prompt \in finished
       /\ procs[b].thread # 0 => Sent(procs[b].thread)
       /\ \A line \in calls[b] : line.kind = "cancel" => line.id \in 1..asked
  /\ \A i \in DOMAIN ledger :
       Sent(ledger[i].prompt) /\ ledger[i].session = prompts[ledger[i].prompt].session
  /\ \A i, j \in DOMAIN ledger : ledger[i].prompt = ledger[j].prompt => i = j

(* Without crossings a session has one open record at most, its newest.          *)
OneOpenRun ==
  ~crossed =>
    \A i, j \in DOMAIN ledger :
      ledger[i].session = ledger[j].session /\ ledger[i].outcome = "running" => j <= i

(* Where a run of session s can be while process b is the pool's: a prompt still *)
(* to be read, a turn that is on, or a line that will close it.                  *)
Asked(b, k, s, kind) ==
  /\ procs[b].state = "up" /\ k \in DOMAIN inbox[b]
  /\ inbox[b][k].kind = kind /\ inbox[b][k].session = s
Active(b, t, s) == t \in threads[b] /\ t.at # "last" /\ t.session = s
Told(b, k, s, kinds) == k \in DOMAIN outbox[b] /\ outbox[b][k].kind \in kinds /\ outbox[b][k].session = s
Forced(b, k, s)  == Told(b, k, s, {"failed"}) /\ outbox[b][k].id = 0
Closes(b, k, s)  == Told(b, k, s, {"finished", "aborted", "failed", "refused"}) /\ ~Forced(b, k, s)
Replies(b, k, s) == Told(b, k, s, {"kept", "cancelled", "uncancelled"})
Grants(b, k, s)  == Told(b, k, s, {"cancelled"})
Denies(b, k, s)  == Told(b, k, s, {"uncancelled"})
Joins(b, s) == procs[b].joins # 0 /\ JoinedFor(b) = s
IsOpen(s, n) ==
  \E i \in DOMAIN ledger : ledger[i] = [session |-> s, prompt |-> n, outcome |-> "running"]
(* A turn that will say nothing: it is on under its session's mark, which only   *)
(* its own end can take away.                                                    *)
Silenced(b, t, s) ==
  /\ t.at = "run" /\ s \in procs[b].cancelled
  /\ \A u \in threads[b] : u.session = s => u = t

(* What is on its way is of the run that is open, and is in one place; or it is  *)
(* a turn that says nothing any more.                                            *)
RunInOnePlace(b, s) ==
  /\ \A k \in DOMAIN inbox[b] : Asked(b, k, s, "prompt") =>
       /\ IsOpen(s, inbox[b][k].id)
       /\ \A j \in DOMAIN inbox[b] : Asked(b, j, s, "prompt") => j = k
       /\ \A t \in threads[b] : t.session = s => t.at = "last" /\ t.prompt # inbox[b][k].id
       /\ \A j \in DOMAIN outbox[b] : ~Closes(b, j, s)
  /\ \A t \in threads[b] : Active(b, t, s) =>
       /\ \A k \in DOMAIN outbox[b] : ~Closes(b, k, s)
       /\ IsOpen(s, t.prompt) \/ Silenced(b, t, s)
  /\ \A k \in DOMAIN outbox[b] : Closes(b, k, s) =>
       IsOpen(s, outbox[b][k].id) /\ \A j \in DOMAIN outbox[b] : Closes(b, j, s) => j = k

(* A cancel is in one place as long as it waits, behind the prompt of the run it *)
(* is for. When it is granted, nothing is left of that run, and when it fails,   *)
(* what is left says nothing.                                                    *)
CancelInOnePlace(b, s) ==
  /\ \A k \in DOMAIN inbox[b] : Asked(b, k, s, "cancel") =>
       /\ inbox[b][k] \in calls[b]
       /\ \A j \in DOMAIN inbox[b] :
            /\ Asked(b, j, s, "prompt") => j < k
            /\ Asked(b, j, s, "cancel") /\ inbox[b][j].id = inbox[b][k].id => j = k
       /\ Joins(b, s) => procs[b].joins # inbox[b][k].id
       /\ \A j \in DOMAIN outbox[b] : Replies(b, j, s) => outbox[b][j].id # inbox[b][k].id
  /\ procs[b].busy = s \/ Joins(b, s) =>
       \A t \in threads[b] : Active(b, t, s) => t.prompt = procs[b].thread
  /\ Joins(b, s) =>
       /\ Line("cancel", s, procs[b].joins) \in calls[b]
       /\ \A k \in DOMAIN inbox[b] : ~Asked(b, k, s, "prompt")
       /\ \A k \in DOMAIN outbox[b] : Replies(b, k, s) => outbox[b][k].id # procs[b].joins
  /\ \A k \in DOMAIN outbox[b] : Replies(b, k, s) =>
       /\ Line("cancel", s, outbox[b][k].id) \in calls[b]
       /\ \A j \in DOMAIN outbox[b] :
            Replies(b, j, s) /\ outbox[b][j].id = outbox[b][k].id => j = k
  /\ \A k \in DOMAIN outbox[b] : Grants(b, k, s) \/ Denies(b, k, s) \/ Forced(b, k, s) =>
       /\ \A j \in DOMAIN inbox[b] : ~Asked(b, j, s, "prompt")
       /\ \A j \in DOMAIN outbox[b] : Closes(b, j, s) => j < k
       /\ \A t \in threads[b] : Active(b, t, s) => Denies(b, k, s) /\ Silenced(b, t, s)
  /\ \A k \in DOMAIN outbox[b] : Forced(b, k, s) =>
       \E j \in DOMAIN outbox[b] : k < j /\ Grants(b, j, s)

NothingIsMixedUp ==
  ~crossed /\ pool # 0 =>
    /\ \A t, u \in threads[pool] : t.prompt = u.prompt => t = u
    /\ \A s \in Sessions : RunInOnePlace(pool, s) /\ CancelInOnePlace(pool, s)

DshInv ==
  /\ OutcomeIsOwn /\ OpenRunIsNewest
  /\ ProcsAreWhole /\ LinesAreOfPrompts /\ OneOpenRun /\ NothingIsMixedUp

(* Every run of the finitely many ends: the bridge's turn, its refusal or its    *)
(* exit reaches the store. Left out: a process whose harness could not be closed *)
(* for a cancel, as the turn's mark may silence the next turn (AcceptedIsTold).  *)
RunsOver == running = {} \/ \E b \in Bridges : procs[b].broken
RunSettles == []<>RunsOver

(* What a capture must never be wrong in, an accepted prompt with no outcome     *)
(* (routes/dsh.ts:227): violated, when a cancel failed to close the harness and  *)
(* the next turn starts before the end of the one it was for takes its mark off. *)
AcceptedIsTold == []<>(running = {})
================================================================================
