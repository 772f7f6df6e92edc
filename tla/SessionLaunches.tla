----------------------------- MODULE SessionLaunches -----------------------------
(* Launching a session under an idempotency key: a managed child of a session, or *)
(* a root session, in a worktree of its own when it is isolated. Retries join the *)
(* launch their key names; each map of keys is bounded.                           *)
(* server/opencode/sessions.ts createManagedChild, POST /session-workflows/start  *)
(* in routes/sessions.ts, server/opencode/worktrees.ts createWorktree             *)
EXTENDS Naturals, FiniteSets, Sequences, SequencesExt

CONSTANTS
  LaunchKeys,  \* idempotency keys, with the directory and the parent session
  Bodies,      \* what is launched: the fingerprints
  ManagedLimit,\* MANAGED_LAUNCH_LIMIT
  RootLimit,   \* ROOT_LAUNCH_LIMIT
  MaxRequests, \* bound: requests, numbered as they arrive
  MaxFaults,   \* bound: calls that fail or whose answer is lost
  None

Requests == 1..MaxRequests
Launches == Requests          \* a launch is named after the request that began it

VARIABLES
  kind,     \* "child" or "root": which of the two maps this is
  entries,  \* the map in insertion order: [key, body, launch, settled]
  launch,   \* launch[l]: where it stands, and why it failed
  session,  \* session[l]: its session at opencode
  tree,     \* tree[l]: what opencode says of its worktree: "none", "made", "ready", "failed"
  buffered, \* buffered[l]: launches whose worktree events came before its POST was answered
  request,  \* request[r]: [key, body, joined, answer]
  evicted,  \* launches whose entry was taken to make room
  faults

vars == <<kind, entries, launch, session, tree, buffered, request, evicted, faults>>

Limit == IF kind = "child" THEN ManagedLimit ELSE RootLimit
Idle == [pc |-> "free", stage |-> None]

Init ==
  /\ kind \in {"child", "root"} /\ entries = <<>>
  /\ launch = [l \in Launches |-> Idle] /\ session = [l \in Launches |-> "none"]
  /\ tree = [l \in Launches |-> "none"] /\ buffered = [l \in Launches |-> {}]
  /\ request = [r \in Requests |-> [key |-> None, body |-> None, joined |-> None, answer |-> None]]
  /\ evicted = {} /\ faults = 0

Fault == faults < MaxFaults /\ faults' = faults + 1
NoFault == UNCHANGED faults
Goes(l, pc) == launch' = [launch EXCEPT ![l].pc = pc] /\ UNCHANGED <<entries, request>>

\* Mutant: only the request that began the launch hears of its end.
AnsweredFirst(l, answer) == request' = [request EXCEPT ![l].answer = answer]

\* Everybody who joined awaits the same promise.
Answered(l, answer) ==
  request' = [r \in Requests |-> IF request[r].joined = l /\ request[r].answer = None
                                   THEN [request[r] EXCEPT !.answer = answer] ELSE request[r]]
SettledEntry(l) == [i \in 1..Len(entries) |->
  IF entries[i].launch = l THEN [entries[i] EXCEPT !.settled = TRUE] ELSE entries[i]]

\* The key is given back only while it is this launch's.
Forgotten(l) ==
  LET own == {i \in 1..Len(entries) : entries[i].launch = l} IN
    IF own = {} THEN entries ELSE RemoveAt(entries, CHOOSE i \in own : TRUE)

\* Both maps mark a launch that succeeded; a failed managed child gives its key back,
\* a failed root session keeps it and replays its error.
Fails(l, stage) ==
  /\ launch' = [launch EXCEPT ![l] = [pc |-> "failed", stage |-> stage]]
  /\ Answered(l, stage)
  /\ entries' = IF kind = "child" THEN Forgotten(l) ELSE SettledEntry(l)

Succeeds(l) ==
  /\ launch' = [launch EXCEPT ![l].pc = "done"] /\ Answered(l, "accepted")
  /\ entries' = SettledEntry(l)

-------------------------------------------------------------------------------
\* Mutant: any oldest entry makes room.
VictimAny == {i \in 1..Len(entries) : i = 1}

\* The oldest settled entry, when there is one.
Victim == {i \in 1..Len(entries) :
             entries[i].settled /\ \A j \in 1..(i - 1) : ~entries[j].settled}

\* Between the look-up and the insertion there is no await: one request at a time.
Ask(r, k, b, isolated) ==
  LET found == {i \in 1..Len(entries) : entries[i].key = k}
      asked(l, answer) == [key |-> k, body |-> b, joined |-> l, answer |-> answer]
      full == Len(entries) >= Limit
      kept == IF full /\ Victim # {} THEN RemoveAt(entries, CHOOSE i \in Victim : TRUE) ELSE entries
  IN
  /\ request[r].key = None /\ \A q \in 1..(r - 1) : request[q].key # None
  /\ \/ \E i \in found :
          LET l == entries[i].launch IN
          /\ request' = [request EXCEPT ![r] =
               IF entries[i].body # b THEN asked(None, "conflict")
               ELSE asked(l, CASE launch[l].pc = "done" -> "accepted"
                               [] launch[l].pc = "failed" -> launch[l].stage
                               [] OTHER -> None)]
          /\ UNCHANGED <<entries, launch, evicted>>
     \/ /\ found = {} /\ full /\ Victim = {}
        /\ request' = [request EXCEPT ![r] = asked(None, "capacity")]
        /\ UNCHANGED <<entries, launch, evicted>>
     \/ /\ found = {} /\ (full => Victim # {})
        /\ entries' = Append(kept, [key |-> k, body |-> b, launch |-> r, settled |-> FALSE])
        /\ evicted' = evicted \union {entries[i].launch : i \in {i \in Victim : full}}
        /\ launch' = [launch EXCEPT ![r].pc =
             IF kind = "child" THEN "policy" ELSE IF isolated THEN "worktree" ELSE "create"]
        /\ request' = [request EXCEPT ![r] = asked(r, None)]
  /\ UNCHANGED <<kind, session, tree, buffered>> /\ NoFault

aside == <<kind, evicted>>

\* resolveManagedChildPolicy and managedChildMetadata: refused, or the rules to persist.
Policy(l) ==
  /\ launch[l].pc = "policy"
  /\ \/ Goes(l, "create") /\ NoFault
     \/ Fails(l, "policy") /\ Fault
  /\ UNCHANGED <<aside, session, tree, buffered>>

\* createSession: refused, or made with the answer lost, which leaves a session that
\* the launch has no id of.
Create(l) ==
  /\ launch[l].pc = "create"
  /\ \/ session' = [session EXCEPT ![l] = "made"] /\ NoFault
        /\ Goes(l, IF kind = "child" THEN "verify" ELSE "submit")
     \/ session' = [session EXCEPT ![l] = "lost"] /\ Fails(l, "session") /\ Fault
     \/ UNCHANGED session /\ Fails(l, "session") /\ Fault
  /\ UNCHANGED <<aside, tree, buffered>>

\* The child is read back: what was persisted differs, or the read fails.
Verify(l) ==
  /\ launch[l].pc = "verify"
  /\ \/ Goes(l, "submit") /\ NoFault
     \/ Goes(l, "cleanup") /\ Fault
  /\ UNCHANGED <<aside, session, tree, buffered>>

\* The opening prompt, under the session's prompt lock. A child is taken back when it
\* fails, even if opencode had accepted it; a root session stays and is reported.
SubmitFails(l) == IF kind = "child" THEN Goes(l, "cleanup") ELSE Fails(l, "prompt")

Submit(l) ==
  /\ launch[l].pc = "submit"
  /\ \/ session' = [session EXCEPT ![l] = "prompted"] /\ Succeeds(l) /\ NoFault
     \/ session' = [session EXCEPT ![l] = "prompted"] /\ SubmitFails(l) /\ Fault
     \/ UNCHANGED session /\ SubmitFails(l) /\ Fault
  /\ UNCHANGED <<aside, tree, buffered>>

\* Mutant: a failed deletion is reported as the failure that led to it.
CleanupSilent(l) ==
  /\ launch[l].pc = "cleanup"
  /\ \/ session' = [session EXCEPT ![l] = "deleted"] /\ Fails(l, "launch") /\ NoFault
     \/ session' \in {session, [session EXCEPT ![l] = "deleted"]} /\ Fails(l, "launch") /\ Fault
  /\ UNCHANGED <<aside, tree, buffered>>

\* deleteSession, or ManagedChildCleanupError with the id of the child.
Cleanup(l) ==
  /\ launch[l].pc = "cleanup"
  /\ \/ session' = [session EXCEPT ![l] = "deleted"] /\ Fails(l, "launch") /\ NoFault
     \/ session' \in {session, [session EXCEPT ![l] = "deleted"]} /\ Fails(l, "cleanup") /\ Fault
  /\ UNCHANGED <<aside, tree, buffered>>

-------------------------------------------------------------------------------
\* createWorktree listens before it posts. opencode makes the worktree, tells every
\* listener when its checkout is ready or failed, and answers the POST meanwhile.
MakeTree(l) ==
  /\ launch[l].pc = "worktree" /\ tree[l] = "none"
  /\ \/ tree' = [tree EXCEPT ![l] = "made"] /\ UNCHANGED <<entries, launch, request>> /\ NoFault
     \/ UNCHANGED tree /\ Fails(l, "worktree") /\ Fault
  /\ UNCHANGED <<aside, session, buffered>>

\* Mutant: an event that comes before the answer is not kept.
HearNow(l, outcome) ==
  /\ launch' = [k \in Launches |->
       IF k # l \/ launch[k].pc # "ready" THEN launch[k]
       ELSE [launch[k] EXCEPT !.pc = "create"]]
  /\ UNCHANGED buffered

\* onEvent of every createWorktree under way: kept until its own worktree is known,
\* then taken if it is about that one.
Hear(l, outcome) ==
  /\ launch' = [k \in Launches |->
       IF k # l \/ launch[k].pc # "ready" \/ outcome = "failed" THEN launch[k]
       ELSE [launch[k] EXCEPT !.pc = "create"]]
  /\ buffered' = [k \in Launches |->
       IF launch[k].pc = "worktree" THEN buffered[k] \union {l} ELSE buffered[k]]

TreeReady(l) ==
  /\ tree[l] = "made" /\ launch[l].pc \in {"worktree", "ready"}
  /\ tree' = [tree EXCEPT ![l] = "ready"] /\ Hear(l, "ready")
  /\ UNCHANGED <<aside, entries, session, request>> /\ NoFault

TreeFails(l) ==
  /\ tree[l] = "made" /\ launch[l].pc \in {"worktree", "ready"} /\ Fault
  /\ tree' = [tree EXCEPT ![l] = "failed"]
  /\ IF launch[l].pc = "ready" THEN Fails(l, "worktree") ELSE UNCHANGED <<entries, launch, request>>
  /\ buffered' = [k \in Launches |->
       IF launch[k].pc = "worktree" THEN buffered[k] \union {l} ELSE buffered[k]]
  /\ UNCHANGED <<aside, session>>

\* Mutant: any buffered event is taken for the worktree's own.
AnswerAny(l) ==
  /\ launch[l].pc = "worktree" /\ tree[l] # "none" /\ NoFault
  /\ Goes(l, IF buffered[l] # {} THEN "create" ELSE "ready")
  /\ buffered' = [buffered EXCEPT ![l] = {}] /\ UNCHANGED <<aside, session, tree>>

\* The POST is answered: what was buffered is replayed against the worktree's name.
TreeAnswer(l) ==
  /\ launch[l].pc = "worktree" /\ tree[l] # "none" /\ NoFault
  /\ CASE l \in buffered[l] /\ tree[l] = "ready"  -> Goes(l, "create")
       [] l \in buffered[l] /\ tree[l] = "failed" -> Fails(l, "worktree")
       [] OTHER                                   -> Goes(l, "ready")
  /\ buffered' = [buffered EXCEPT ![l] = {}] /\ UNCHANGED <<aside, session, tree>>

\* Sixty seconds for the POST and for the event together.
TreeTimeout(l) ==
  /\ launch[l].pc \in {"worktree", "ready"} /\ Fault
  /\ Fails(l, IF launch[l].pc = "ready" THEN "timeout" ELSE "worktree")
  /\ UNCHANGED <<aside, session, tree, buffered>>

Step(l) == \/ Policy(l) \/ Create(l) \/ Verify(l) \/ Submit(l) \/ Cleanup(l)
           \/ MakeTree(l) \/ TreeReady(l) \/ TreeFails(l) \/ TreeAnswer(l) \/ TreeTimeout(l)

Work == \E l \in Launches : Step(l)
Next == Work \/ \E r \in Requests, k \in LaunchKeys, b \in Bodies, i \in BOOLEAN :
                  (i => kind = "root") /\ Ask(r, k, b, i)

Spec == Init /\ [][Next]_vars

\* opencode answers or fails every call, and the worktree timer fires.
FairSpec == Spec /\ WF_vars(Work)
-------------------------------------------------------------------------------
Stages == {"policy", "session", "prompt", "launch", "cleanup", "worktree", "timeout"}
Answers == Stages \union {"accepted", "conflict", "capacity"}

TypeOK ==
  /\ kind \in {"child", "root"} /\ Len(entries) <= Limit
  /\ entries \in Seq([key : LaunchKeys, body : Bodies, launch : Launches, settled : BOOLEAN])
  /\ launch \in [Launches -> [pc : {"free", "policy", "worktree", "ready", "create", "verify",
                                    "submit", "cleanup", "done", "failed"},
                              stage : Stages \union {None}]]
  /\ session \in [Launches -> {"none", "made", "lost", "prompted", "deleted"}]
  /\ tree \in [Launches -> {"none", "made", "ready", "failed"}]
  /\ buffered \in [Launches -> SUBSET Launches]
  /\ request \in [Requests -> [key : LaunchKeys \union {None}, body : Bodies \union {None},
                    joined : Launches \union {None}, answer : Answers \union {None}]]
  /\ evicted \subseteq Launches /\ faults \in 0..MaxFaults

Running(l) == launch[l].pc \notin {"free", "done", "failed"}
Twins(l, m) == l # m /\ request[l].joined = l /\ request[m].joined = m
               /\ request[l].key = request[m].key

\* A key in flight is launched once: whoever repeats it joins that launch, and room in
\* the map is never made at its cost.
OneInFlight == \A l, m \in Launches : Running(l) /\ Twins(l, m) => ~Running(m)

\* Two sessions of one key were both given the prompt only if the first one's key had
\* left the full map after it settled, or the first could not be taken back.
OnePrompted ==
  \A l, m \in Launches :
    Twins(l, m) /\ l < m /\ session[l] = "prompted" /\ session[m] = "prompted" =>
      l \in evicted \/ launch[l].stage = "cleanup"

\* A launch that fails with a session whose id it knows has taken it back or says so:
\* the cleanup error of a managed child, the prompt stage of a root session.
LeftoverIsNamed ==
  \A l \in Launches :
    launch[l].pc = "failed" /\ session[l] \in {"made", "prompted"} =>
      launch[l].stage = IF kind = "child" THEN "cleanup" ELSE "prompt"

\* A session is made only in a worktree opencode reported ready, and no launch waits
\* in vain for an event that came while its POST was unanswered.
OwnTreeReady ==
  \A l \in Launches : /\ session[l] # "none" => tree[l] \in {"none", "ready"}
                      /\ launch[l].stage = "timeout" => tree[l] # "ready"

\* Why a key is launched once: the map has every launch that is under way, and every other
\* but those it had to make room for or gave the key of back.
Replaceable(l) == l \in evicted \/ (kind = "child" /\ launch[l].pc = "failed")
MapIsWhole ==
  /\ \A i, j \in DOMAIN entries : entries[i].key = entries[j].key => i = j
  /\ \A i \in DOMAIN entries : LET l == entries[i].launch IN
       /\ request[l].joined = l /\ request[l].key = entries[i].key
       /\ entries[i].settled => ~Running(l)
  /\ \A l \in Launches :
       /\ launch[l].pc # "free" <=> request[l].joined = l
       /\ request[l].joined = l => Replaceable(l) \/ \E i \in DOMAIN entries : entries[i].launch = l
       /\ l \in evicted => launch[l].pc \in {"done", "failed"}
       /\ request[l].joined # None => request[l].key # None
  /\ \A q, r \in Requests : q < r /\ request[r].key # None => request[q].key # None
  /\ \A l, m \in Launches : Twins(l, m) /\ l < m => Replaceable(l)

\* Why a session is made in a ready worktree and taken back: what opencode has of a launch
\* follows from where it stands.
StagesFollow ==
  \A l \in Launches : LET pc == launch[l].pc IN
    /\ pc # "failed" => launch[l].stage = None
    /\ pc \in {"free", "policy", "worktree", "ready", "create"} => session[l] = "none"
    /\ pc \in {"verify", "submit"} => session[l] = "made"
    /\ pc = "cleanup" => kind = "child" /\ session[l] \in {"made", "prompted"}
    /\ pc = "verify" => kind = "child"
    /\ pc \in {"free", "policy"} => tree[l] = "none"
    /\ pc \in {"create", "verify", "submit", "cleanup", "done"} => tree[l] \in {"none", "ready"}
    /\ pc = "ready" => tree[l] = "made"
    /\ pc = "worktree" /\ tree[l] \in {"ready", "failed"} => l \in buffered[l]

LaunchInv ==
  OneInFlight /\ OnePrompted /\ LeftoverIsNamed /\ OwnTreeReady /\ MapIsWhole /\ StagesFollow

\* Every request that joined a launch gets that launch's answer, however its own first
\* caller fared.
AllAnswered == \A r \in Requests : request[r].joined # None => request[r].answer # None
LaunchAnswers == []<>AllAnswered
================================================================================
