-------------------------------- MODULE Subagents --------------------------------
(* The ledger of a session's sub-agents (server/opencode/subagents.ts): opencode    *)
(* keeps no record of delegated work, so each child's state is derived from what    *)
(* four requests say at four moments while the children run, end, are cancelled,    *)
(* resumed, sent to the background, or forgotten by a server that restarts.         *)
EXTENDS Naturals, FiniteSets

CONSTANTS
  Children,
  Probes,     \* SUBAGENT_TRANSCRIPT_PROBE_LIMIT
  MaxTurns,   \* bound: turns of a child
  MaxFaults,  \* bound: restarts, and requests that fail
  None

VARIABLES
  turn,       \* turn[c]: what its last turn is doing or came to
  last,       \* last[c]: what the last answer in its own transcript says
  owned,      \* the children whose turn runs on the server we ask
  part,       \* part[c]: the parent's task part, the last of them
  background, \* the children some part of which is background
  notice,     \* notice[c]: what the last message of the parent that names it reads as
  owed,       \* owed[c]: the outcome it is still to hand back
  turns,      \* turns[c]
  done,       \* ghost: done[c], a turn "completed", an answer "answered", a human "vouched"
  pc,         \* where the request for the ledger is
  running, parent, todo, terminal, \* what it has read
  sure,       \* ghost: the children that were looked at and have not changed since it began
  report,     \* report[c]: the state it gave
  faults

child  == <<turn, last, owned, part, background, notice, owed, turns, done>>
ledger == <<pc, running, parent, todo, terminal, report>>
vars   == <<child, ledger, sure, faults>>

Outcomes == {"completed", "failed"}
Evidence == {"completed", "answered", "vouched"}
Words == {"fail", "done"}
Unread == [c \in Children |-> [part |-> None, notice |-> None, bg |-> FALSE]]

Unreported == [c \in Children |->
  [state |-> None, truth |-> None, had |-> {}, sure |-> FALSE, own |-> FALSE,
   hidden |-> FALSE]]

Init ==
  /\ turn = [c \in Children |-> None] /\ last = [c \in Children |-> None] /\ owned = {}
  /\ part = [c \in Children |-> None] /\ background = {}
  /\ notice = [c \in Children |-> None] /\ owed = [c \in Children |-> None]
  /\ turns = [c \in Children |-> 0] /\ done = [c \in Children |-> {}]
  /\ pc = "idle" /\ running = {} /\ parent = Unread /\ todo = {}
  /\ terminal = [c \in Children |-> None] /\ sure = {}
  /\ report = Unreported /\ faults = 0

Moves(c) == sure' = sure \ {c} /\ UNCHANGED <<ledger, faults>>
Fault == faults < MaxFaults /\ faults' = faults + 1

-------------------------------------------------------------------------------
(* The children, at opencode. *)

\* A turn of a child begins here or on another server, delegated by a task part or,
\* a later one, prompted by a human.
Begins(c, here, task, bg) ==
  /\ turn[c] # "going" /\ turns[c] < MaxTurns /\ (task \/ turns[c] > 0)
  /\ turn' = [turn EXCEPT ![c] = "going"] /\ turns' = [turns EXCEPT ![c] = @ + 1]
  /\ owned' = IF here THEN owned \union {c} ELSE owned \ {c}
  /\ part' = IF task THEN [part EXCEPT ![c] = "running"] ELSE part
  /\ background' = IF task /\ bg THEN background \union {c} ELSE background
  /\ Moves(c) /\ UNCHANGED <<last, notice, owed, done>>

LaunchFails(c) ==
  /\ turns[c] = 0 /\ part[c] = None /\ part' = [part EXCEPT ![c] = "error"] /\ Moves(c)
  /\ UNCHANGED <<turn, last, owned, background, notice, owed, turns, done>>

\* The part of a background child is completed as soon as it is launched.
Returns(c) ==
  /\ part[c] = "running" /\ c \in background /\ part' = [part EXCEPT ![c] = "completed"]
  /\ Moves(c) /\ UNCHANGED <<turn, last, owned, background, notice, owed, turns, done>>

\* An answer is opened and, a turn has many, completed before the next.
Answers(c) ==
  /\ turn[c] = "going" /\ last[c] # "open" /\ last' = [last EXCEPT ![c] = "open"] /\ Moves(c)
  /\ UNCHANGED <<turn, owned, part, background, notice, owed, turns, done>>

Steps(c) ==
  /\ turn[c] = "going" /\ last[c] = "open" /\ last' = [last EXCEPT ![c] = "completed"]
  /\ done' = [done EXCEPT ![c] = @ \union {"answered"}]
  /\ Moves(c) /\ UNCHANGED <<turn, owned, part, background, notice, owed, turns>>

\* The turn ends with its answer; a part that waited for it ends with it.
Ends(c, out) ==
  /\ turn[c] = "going" /\ last[c] = "open"
  /\ turn' = [turn EXCEPT ![c] = out] /\ last' = [last EXCEPT ![c] = out]
  /\ done' = IF out = "completed"
               THEN [done EXCEPT ![c] = @ \union {"answered", "completed"}] ELSE done
  /\ owned' = owned \ {c}
  /\ part' = IF part[c] = "running" /\ c \notin background
               THEN [part EXCEPT ![c] = IF out = "completed" THEN "completed" ELSE "error"]
               ELSE part
  /\ owed' = IF c \in background THEN [owed EXCEPT ![c] = out] ELSE owed
  /\ Moves(c) /\ UNCHANGED <<background, notice, turns>>

\* collectSyntheticOutcomes: a message of role "user" that names a child tells of it by
\* its words, those of failure first; one without such words tells nothing.
Reading(says) ==
  IF "fail" \in says THEN "failed" ELSE IF "done" \in says THEN "completed" ELSE None
Tells(c, says) ==
  /\ notice' = IF Reading(says) = None THEN notice ELSE [notice EXCEPT ![c] = Reading(says)]
  /\ Moves(c) /\ UNCHANGED <<turn, last, owned, part, background, turns>>

\* A background child hands its result back in words of its own; the message about one
\* that failed does not speak of success alone.
Notifies(c, says) ==
  /\ owed[c] # None /\ owed' = [owed EXCEPT ![c] = None]
  /\ owed[c] = "failed" /\ "done" \in says => "fail" \in says
  /\ Tells(c, says) /\ UNCHANGED done

\* A human writes of the child, whatever it did.
Mentions(c, says) ==
  /\ Tells(c, says) /\ UNCHANGED owed
  /\ done' = IF Reading(says) = "completed"
               THEN [done EXCEPT ![c] = @ \union {"vouched"}] ELSE done

\* promoteSubagentToBackground
Promotes(c) ==
  /\ turn[c] = "going" /\ c \in owned \ background /\ part[c] = "running"
  /\ background' = background \union {c} /\ part' = [part EXCEPT ![c] = "completed"]
  /\ Moves(c) /\ UNCHANGED <<turn, last, owned, notice, owed, turns, done>>

\* A cancelled child says nothing, and what its server forgot says nothing either.
Cut(S) ==
  /\ S # {} /\ turn' = [c \in Children |-> IF c \in S THEN "cut" ELSE turn[c]]
  /\ owned' = owned \ S /\ sure' = sure \ S
  /\ UNCHANGED <<last, part, background, notice, owed, turns, done, ledger>>
Cancelled(c) == turn[c] = "going" /\ Cut({c}) /\ UNCHANGED faults
Restart == Fault /\ Cut(owned)

-------------------------------------------------------------------------------
(* listSubagents *)

\* Each failure of a request is taken for an empty answer.
ReadStatus ==
  /\ pc = "idle" /\ pc' = "parent" /\ sure' = Children
  /\ \/ running' = owned /\ UNCHANGED faults
     \/ running' = {} /\ Fault
  /\ report' = Unreported /\ UNCHANGED <<child, parent, todo, terminal>>

\* The children and the parent's transcript; then the children still open are chosen,
\* as many as are probed.
ReadParent ==
  /\ pc = "parent" /\ pc' = "probe"
  /\ \/ /\ UNCHANGED faults
        /\ parent' = [c \in Children |-> [part |-> part[c], bg |-> c \in background,
                                          notice |-> notice[c]]]
     \/ parent' = Unread /\ Fault
  /\ LET open == {c \in Children : c \notin running /\ parent'[c].notice = None} IN
       todo' \in {S \in SUBSET open :
         Cardinality(S) = IF Cardinality(open) < Probes THEN Cardinality(open) ELSE Probes}
         /\ sure' = sure \ (open \ todo')
  /\ terminal' = [c \in Children |-> None]
  /\ UNCHANGED <<child, running, report>>

\* The children's list itself must be had.
Refused ==
  /\ pc = "parent" /\ pc' = "idle" /\ Fault /\ running' = {} /\ sure' = {}
  /\ UNCHANGED <<child, parent, todo, terminal, report>>

\* childTerminalState: the last answer in the transcript, if it has been completed.
Probe(c) ==
  /\ pc = "probe" /\ c \in todo /\ todo' = todo \ {c}
  /\ \/ /\ terminal' = [terminal EXCEPT ![c] = IF last[c] = "open" THEN None ELSE last[c]]
        /\ UNCHANGED <<faults, sure>>
     \/ UNCHANGED terminal /\ Fault /\ sure' = sure \ {c}
  /\ UNCHANGED <<child, pc, running, parent, report>>

\* Mutant: the part of a background child says what the child came to.
FromAnyPart(p) ==
  CASE p.part = "error"   -> "failed"
    [] p.part = "running" -> "launched"
    [] p.part = "completed" -> "completed"
    [] OTHER -> "unknown"

FromPart(p) ==
  CASE p.part = "error"   -> "failed"
    [] p.part = "running" -> "launched"
    [] p.part = "completed" /\ ~p.bg -> "completed"
    [] OTHER -> "unknown"

\* Mutant: what the parent says of the child goes before what the child says.
ResolvePartFirst(c) ==
  LET p == parent[c] IN
    IF c \in running THEN "running"
    ELSE IF p.notice # None THEN p.notice
    ELSE IF FromPart(p) # "unknown" THEN FromPart(p)
    ELSE IF terminal[c] # None THEN terminal[c] ELSE "unknown"

\* resolveState: what was seen to run, the child's own word, the message in the
\* parent, the part.
Resolve(c) ==
  LET p == parent[c] IN
    IF c \in running THEN "running"
    ELSE IF terminal[c] # None THEN terminal[c]
    ELSE IF p.notice # None THEN p.notice
    ELSE FromPart(p)

Derive ==
  /\ pc = "probe" /\ todo = {} /\ pc' = "idle"
  /\ report' = [c \in Children |->
       [state |-> Resolve(c), truth |-> turn[c], had |-> done[c], sure |-> c \in sure,
        own |-> c \notin running /\ terminal[c] # None,
        hidden |-> notice[c] \notin {None, turn[c]}]]
  /\ running' = {} /\ parent' = Unread /\ terminal' = [c \in Children |-> None] /\ sure' = {}
  /\ UNCHANGED <<child, todo, faults>>

Next == \/ ReadStatus \/ ReadParent \/ Refused \/ Derive \/ Restart
        \/ \E c \in Children :
             \/ Probe(c) \/ LaunchFails(c) \/ Returns(c) \/ Answers(c) \/ Steps(c)
             \/ Promotes(c) \/ Cancelled(c)
             \/ (\E says \in SUBSET Words : Notifies(c, says) \/ Mentions(c, says))
             \/ (\E out \in Outcomes : Ends(c, out))
             \/ (\E here, task, bg \in BOOLEAN : Begins(c, here, task, bg))

Spec == Init /\ [][Next]_vars
-------------------------------------------------------------------------------
States == {None, "running", "launched", "unknown"} \union Outcomes
TypeOK ==
  /\ turn \in [Children -> {None, "going", "cut"} \union Outcomes]
  /\ last \in [Children -> {None, "open"} \union Outcomes]
  /\ owned \subseteq {c \in Children : turn[c] = "going"} /\ background \subseteq Children
  /\ part \in [Children -> {None, "running", "completed", "error"}]
  /\ turns \in [Children -> 0..MaxTurns] /\ done \in [Children -> SUBSET Evidence]
  /\ {notice, owed} \subseteq [Children -> Outcomes \union {None}]
  /\ report \in [Children -> [state : States, truth : {None, "going", "cut"} \union Outcomes,
                               had : SUBSET Evidence, sure : BOOLEAN, own : BOOLEAN,
                               hidden : BOOLEAN]]
  /\ parent \in [Children -> [part : {None, "running", "completed", "error"},
                               notice : Outcomes \union {None}, bg : BOOLEAN]]
  /\ terminal \in [Children -> Outcomes \union {None}]
  /\ pc \in {"idle", "parent", "probe"} /\ sure \subseteq Children /\ running \subseteq Children
  /\ todo \subseteq Children /\ Cardinality(todo) <= Probes /\ faults \in 0..MaxFaults

\* What stands behind a message that reads as completed.
Grounds(had) == "completed" \in had \/ "vouched" \in had

\* Why a child is called completed: by its own transcript, an answer of its was completed;
\* by the parent's, a turn of it was, or a human wrote so. Never because its launch
\* returned, and never of a child that was cancelled or forgotten before it answered,
\* whatever changed between the requests and whichever of them failed.
CompletedIsTrue == \A c \in Children :
  LET r == report[c] IN r.state = "completed" =>
    IF r.own THEN "answered" \in r.had ELSE Grounds(r.had)

\* A child that had ended before the request began, and was looked at, is told as it
\* ended, if no message that reads otherwise names it.
EndedIsTold == \A c \in Children :
  LET r == report[c] IN r.sure /\ ~r.hidden /\ r.truth \in Outcomes => r.state = r.truth

\* Why that is so: a completed answer, part or message has one of these behind it, and
\* the last answer of a turn that ended is what the turn came to.
WordIsTrue == \A c \in Children :
  /\ turn[c] \in Outcomes => last[c] = turn[c]
  /\ last[c] = "completed" => "answered" \in done[c]
  /\ owed[c] = "completed" => "completed" \in done[c]
  /\ part[c] = "completed" /\ c \notin background => "completed" \in done[c]
  /\ notice[c] = "completed" => Grounds(done[c])

\* So is what was read of them, and of a child that has not changed since it is still so.
ReadIsTrue == pc # "idle" => \A c \in Children :
  c \in sure /\ c \in running => c \in owned
ProbedIsTrue == pc = "probe" => \A c \in Children :
  /\ terminal[c] = "completed" => "answered" \in done[c]
  /\ parent[c].notice = "completed" => Grounds(done[c])
  /\ parent[c].part = "completed" /\ ~parent[c].bg => "completed" \in done[c]
  /\ c \in sure =>
       /\ terminal[c] # None => terminal[c] = last[c]
       /\ parent[c].notice # None => parent[c].notice = notice[c]
       /\ parent[c].notice = None /\ c \notin running \union todo /\ turn[c] \in Outcomes =>
            terminal[c] = turn[c]

LedgerInv == CompletedIsTrue /\ EndedIsTold /\ WordIsTrue /\ ReadIsTrue /\ ProbedIsTrue

\* An interrupted child is not told as completed by its own transcript ("null when its last
\* turn neither completed nor failed — which is what an interrupted or still
\* externally-owned run looks like", subagents.ts:325): violated, as an answer that was
\* completed stands last, of that turn or of the one before.
InterruptedIsNull == \A c \in Children :
  LET r == report[c] IN r.sure /\ r.own /\ r.truth = "cut" => r.state # "completed"
================================================================================
