------------------------------ MODULE SessionStream ------------------------------
(* A conversation page kept up to date: a poll that is the source of truth, an     *)
(* event stream that only says "poll now" and comes through the server's one       *)
(* subscription to opencode, and the user who switches, hides and replies.         *)
(* client/lib/useSessionStream.ts, server/opencode/events.ts, GET /events          *)
EXTENDS Naturals

CONSTANTS
  Sessions,   \* sessions the page is pointed at
  MaxChanges, \* bound: changes of a session at opencode
  MaxSwitches,\* bound: times the page is pointed at another session
  MaxOutside, \* bound: calls that fail, streams that break, tabs that are hidden
  Asks,       \* bound: whether a session the page comes to may have a request pending
  Lost, None

MaxDoublings == 4        \* RETRY_BASE_MS .. RETRY_MAX_MS: the delay stops growing
Generations == 0..MaxSwitches

VARIABLES
  version,  \* version[s]: how often s changed at opencode
  asked,    \* a permission request of the session in scope is pending at opencode
  scope,    \* the session the page is on
  gen,      \* generationRef
  gate,     \* pollGate of this generation: [inFlight, queued]
  flight,   \* flight[g]: the poll of generation g on its way, or None
  shown,    \* what the page shows: [ver, ask], ver is None before the first answer
  revision, \* permissionRevision
  reply,    \* the user's reply: [pc, gen]
  visible, source, retries,  \* the tab, its EventSource and the retries so far
  bus,      \* the server's subscription to opencode: "up", "down", "backoff"
  nudge,    \* an event is on its way to the page
  outside

page   == <<scope, gen, gate, shown, revision>>
stream == <<visible, source, retries>>
vars   == <<version, asked, flight, reply, bus, nudge, outside, page, stream>>

Blank == [ver |-> None, ask |-> FALSE]
FreeGate == [inFlight |-> FALSE, queued |-> FALSE]
\* What a poll asked and has been told so far; Lost is a call that failed.
NewFlight(s, now) == [of |-> s, ver |-> None, ask |-> None, rev |-> now]
Poll1(g, s, now) == flight' = [flight EXCEPT ![g] = NewFlight(s, now)]

Init ==
  /\ version = [s \in Sessions |-> 0] /\ asked \in Asks /\ scope \in Sessions /\ gen = 0
  /\ gate = [inFlight |-> TRUE, queued |-> FALSE] /\ shown = Blank /\ revision = 0
  /\ flight = [g \in Generations |-> IF g = 0 THEN [of |-> scope, ver |-> None, ask |-> None, rev |-> 0] ELSE None]
  /\ reply = [pc |-> "none", gen |-> 0]
  /\ visible = TRUE /\ source = "connecting" /\ retries = 0 /\ bus = "up" /\ nudge = FALSE
  /\ outside = 0

Outside == outside < MaxOutside /\ outside' = outside + 1
Inside == UNCHANGED outside

\* poll(): one at a time; a call meanwhile is remembered and polls once more after it.
PollAt(now) ==
  IF gate.inFlight
    THEN gate' = [gate EXCEPT !.queued = TRUE] /\ UNCHANGED flight
    ELSE gate' = [inFlight |-> TRUE, queued |-> FALSE] /\ Poll1(gen, scope, now)
Poll == PollAt(revision)

Tick ==
  /\ visible /\ Poll /\ Inside
  /\ UNCHANGED <<version, asked, scope, gen, shown, revision, reply, bus, nudge, stream>>

\* opencode answers the two reads of a poll on their own, or one of them fails.
ReadMessages(g) ==
  /\ flight[g] # None /\ flight[g].ver = None
  /\ \/ flight' = [flight EXCEPT ![g].ver = version[flight[g].of]] /\ Inside
     \/ flight' = [flight EXCEPT ![g].ver = Lost] /\ Outside
  /\ UNCHANGED <<version, asked, reply, bus, nudge, page, stream>>

ReadPermissions(g) ==
  /\ flight[g] # None /\ flight[g].ask = None
  /\ \/ flight' = [flight EXCEPT ![g].ask = asked] /\ Inside
     \/ flight' = [flight EXCEPT ![g].ask = Lost] /\ Outside
  /\ UNCHANGED <<version, asked, reply, bus, nudge, page, stream>>

Answered(g) == flight[g] # None /\ flight[g].ver # None /\ flight[g].ask # None

\* Mutant: the requests a poll listed are shown whatever was replied meanwhile.
ShowListed(f) ==
  shown' = [ver |-> IF f.ver = Lost THEN shown.ver ELSE f.ver,
            ask |-> IF f.ask = Lost THEN shown.ask ELSE f.ask]

\* What failed keeps what was shown; a list of requests read before a reply is dropped.
Show(f) ==
  shown' = [ver |-> IF f.ver = Lost THEN shown.ver ELSE f.ver,
            ask |-> IF f.ask = Lost \/ f.rev # revision THEN shown.ask ELSE f.ask]

\* Mutant: the answer is shown although the page has moved on.
DeliverAny(g) ==
  /\ Answered(g) /\ Show(flight[g])
  /\ gate' = IF g = gen THEN FreeGate ELSE gate
  /\ flight' = [flight EXCEPT ![g] = None] /\ Inside
  /\ UNCHANGED <<version, asked, scope, gen, revision, reply, bus, nudge, stream>>

\* Mutant: a poll that failed does not open the gate.
DeliverWedged(g) ==
  /\ Answered(g) /\ Inside /\ flight' = [flight EXCEPT ![g] = None]
  /\ IF g # gen THEN UNCHANGED <<gate, shown>>
     ELSE Show(flight[g]) /\ gate' = IF flight[g].ver = Lost THEN gate ELSE FreeGate
  /\ UNCHANGED <<version, asked, scope, gen, revision, reply, bus, nudge, stream>>

\* The answers of a poll: of a generation that is over they are dropped, else they are
\* shown and, if somebody called meanwhile, the loop polls again.
Deliver(g) ==
  /\ Answered(g) /\ Inside
  /\ IF g # gen
       THEN flight' = [flight EXCEPT ![g] = None] /\ UNCHANGED <<gate, shown>>
       ELSE /\ Show(flight[g])
            /\ IF gate.queued
                 THEN gate' = [gate EXCEPT !.queued = FALSE] /\ Poll1(g, scope, revision)
                 ELSE gate' = FreeGate /\ flight' = [flight EXCEPT ![g] = None]
  /\ UNCHANGED <<version, asked, scope, gen, revision, reply, bus, nudge, stream>>

\* Another session: a new generation with a gate of its own and nothing shown, which
\* polls at once and opens a stream of its own.
SwitchTo(s) ==
  /\ gen < MaxSwitches /\ s # scope /\ gen' = gen + 1 /\ scope' = s
  /\ gate' = [inFlight |-> TRUE, queued |-> FALSE] /\ flight' = [flight EXCEPT ![gen'] = NewFlight(s, revision)]
  /\ shown' = Blank /\ nudge' = FALSE /\ retries' = 0
  /\ source' = IF visible THEN "connecting" ELSE "none"
  /\ asked' \in Asks /\ Inside /\ UNCHANGED <<version, revision, reply, visible, bus>>

-------------------------------------------------------------------------------
\* A session changes. Its event reaches the page if both streams are up.
Change(s) ==
  /\ version[s] < MaxChanges /\ version' = [version EXCEPT ![s] = @ + 1]
  /\ nudge' = (nudge \/ (s = scope /\ bus = "up" /\ source = "open"))
  /\ Inside /\ UNCHANGED <<asked, flight, reply, bus, page, stream>>

Nudged ==
  /\ nudge /\ nudge' = FALSE /\ Poll /\ retries' = 0 /\ Inside
  /\ UNCHANGED <<version, asked, scope, gen, shown, revision, reply, bus, visible, source>>

\* The stream opens and its first frame comes; a frame alone resets the backoff.
SourceOpens ==
  /\ source = "connecting" /\ source' = "open" /\ retries' = 0 /\ Inside
  /\ UNCHANGED <<version, asked, flight, reply, bus, nudge, page, visible>>

\* onerror closes the stream itself and waits longer each time.
SourceFails ==
  /\ source \in {"connecting", "open"} /\ source' = "waiting" /\ nudge' = FALSE /\ Outside
  /\ retries' = IF retries < MaxDoublings THEN retries + 1 ELSE retries
  /\ UNCHANGED <<version, asked, flight, reply, bus, page, visible>>

SourceRetries ==
  /\ source = "waiting" /\ source' = "connecting" /\ Inside
  /\ UNCHANGED <<version, asked, flight, reply, bus, nudge, page, visible, retries>>

\* A hidden tab gives its connection back; a visible one opens it and polls.
Hide ==
  /\ visible /\ visible' = FALSE /\ source' = "none" /\ nudge' = FALSE /\ Outside
  /\ UNCHANGED <<version, asked, flight, reply, bus, page, retries>>

Unhide ==
  /\ ~visible /\ visible' = TRUE /\ source' = "connecting" /\ retries' = 0 /\ Poll /\ Inside
  /\ UNCHANGED <<version, asked, scope, gen, shown, revision, reply, bus, nudge>>

\* EventBus.loop: the subscription ends or fails, waits, and is made again.
BusFails ==
  /\ bus \in {"up", "down"} /\ bus' = "backoff" /\ Outside
  /\ UNCHANGED <<version, asked, flight, reply, nudge, page, stream>>
BusStep ==
  /\ bus # "up" /\ bus' = (IF bus = "backoff" THEN "down" ELSE "up") /\ Inside
  /\ UNCHANGED <<version, asked, flight, reply, nudge, page, stream>>

-------------------------------------------------------------------------------
\* The user answers the request that is shown; opencode takes it, then the page hears.
Reply ==
  /\ shown.ask /\ reply.pc = "none" /\ asked /\ reply' = [pc |-> "posted", gen |-> gen] /\ Inside
  /\ UNCHANGED <<version, asked, flight, bus, nudge, page, stream>>

ReplyTaken ==
  /\ reply.pc = "posted" /\ reply' = [reply EXCEPT !.pc = "taken"]
  /\ asked' = (asked /\ reply.gen # gen) /\ Inside
  /\ UNCHANGED <<version, flight, bus, nudge, page, stream>>

ReplyAnswered ==
  /\ reply.pc = "taken" /\ reply' = [reply EXCEPT !.pc = "done"] /\ Inside
  /\ IF reply.gen # gen THEN UNCHANGED <<revision, shown, gate, flight>>
     ELSE /\ shown' = [shown EXCEPT !.ask = FALSE] /\ revision' = revision + 1 /\ PollAt(revision')
  /\ UNCHANGED <<version, asked, scope, gen, bus, nudge, stream>>

Answers == \E g \in Generations : ReadMessages(g) \/ ReadPermissions(g) \/ Deliver(g)
Streams == Nudged \/ SourceOpens \/ SourceRetries \/ BusStep \/ ReplyTaken \/ ReplyAnswered

Next == \/ Answers \/ Streams \/ Tick \/ SourceFails \/ Hide \/ Unhide \/ BusFails \/ Reply
        \/ \E s \in Sessions : SwitchTo(s) \/ Change(s)

Spec == Init /\ [][Next]_vars

\* Calls are answered or fail, streams open or are retried, and the poll timer fires.
FairSpec == Spec /\ WF_vars(Answers) /\ WF_vars(Streams) /\ WF_vars(Tick)

\* What a poll may have been told.
Polls == [of : Sessions, ver : (0..MaxChanges) \union {None, Lost},
          ask : BOOLEAN \union {None, Lost}, rev : Nat]

TypeOK ==
  /\ version \in [Sessions -> 0..MaxChanges] /\ scope \in Sessions /\ gen \in Generations
  /\ flight \in [Generations -> Polls \union {None}] /\ revision \in Nat
  /\ reply \in [pc : {"none", "posted", "taken", "done"}, gen : 0..gen]
  /\ gate \in [inFlight : BOOLEAN, queued : BOOLEAN] /\ asked \in BOOLEAN
  /\ shown \in [ver : (0..MaxChanges) \union {None}, ask : BOOLEAN]
  /\ visible \in BOOLEAN /\ nudge \in BOOLEAN
  /\ source \in {"none", "connecting", "open", "waiting"} /\ retries \in 0..MaxDoublings
  /\ bus \in {"up", "down", "backoff"} /\ outside \in 0..MaxOutside

\* One poll of the page's own generation is out exactly while the gate says so, and it
\* asks about the session in scope.
GateHolds ==
  /\ gate.inFlight <=> flight[gen] # None
  /\ flight[gen] # None => flight[gen].of = scope

\* The page never shows a version its session does not have, which is what the answer
\* of another session's poll would be.
ShowsOwnSession == shown.ver # None => shown.ver <= version[scope]

\* A request the user answered does not come back on the page it was answered on.
ReplyNotUndone == reply.pc = "done" /\ reply.gen = gen => ~shown.ask

\* A poll knows of its session no version that session does not have, and was begun
\* after no reply that has not been heard yet.
PollsAreOfThePast ==
  \A g \in Generations : flight[g] # None =>
    /\ flight[g].ver \in Nat => flight[g].ver <= version[flight[g].of]
    /\ flight[g].rev <= revision

\* What was replied is not pending any more, and a poll begun after the answer was heard
\* does not list it.
ReplyIsTaken ==
  reply.pc \in {"taken", "done"} /\ reply.gen = gen =>
    /\ ~asked
    /\ reply.pc = "done" /\ flight[gen] # None /\ flight[gen].rev = revision
         => flight[gen].ask # TRUE

StreamInv ==
  /\ GateHolds /\ ShowsOwnSession /\ ReplyNotUndone
  /\ PollsAreOfThePast /\ ReplyIsTaken

\* A page that stays visible comes to show its session as it is, whatever was lost.
CaughtUp == shown.ver = version[scope]
PageCatchesUp == <>[]visible => <>[]CaughtUp
================================================================================
