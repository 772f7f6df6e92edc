----------------------------- MODULE TranscriptPages -----------------------------
(* The transcript a conversation page holds: the newest page, which every poll     *)
(* replaces, and older pages loaded backwards by cursor, which new messages push   *)
(* rows into and events about changed messages throw away.                        *)
(* client/lib/messagePages.ts, and its callers in client/lib/useSessionStream.ts   *)
EXTENDS Naturals, FiniteSets, FiniteSetsExt

CONSTANTS
  Window,       \* messages to a page
  MaxMessages,  \* bound: messages of the session, numbered by their time
  MaxEvents     \* bound: messages that change later, reverts, breaks of the stream

VARIABLES
  sent,      \* messages opencode has: 1..sent
  edited,    \* messages that changed after they were sent
  newest, older, \* the two parts of TranscriptPages: sets of <<message, edited>>
  cursor,    \* earlierCursor: the first message loaded, or 0 when nothing is before it
  newestCursor,
  backfill,  \* backfillStarted
  poll,      \* a poll on its way, and the page it read
  load,      \* a load of earlier rows on its way, from its cursor, and then the page it
             \* read; live: its historyGeneration is current
  up,        \* the event stream is open
  events,    \* changed messages whose event is on its way; 0 is a revert
  outlived,  \* ghost: older rows were given up, and the load under way was not; until
             \* a poll starts the history again
  used

opencode == <<sent, edited>>
shown  == <<newest, older, cursor, newestCursor, backfill>>
vars   == <<opencode, shown, poll, load, up, events, outlived, used>>

Ids(S) == {m[1] : m \in S}
\* listMessages and messagePageCursor: a page, and a cursor if messages are before it.
PageBefore(b) == LET I == {i \in 1..sent : i < b /\ i + Window >= b} IN
  [rows |-> {<<i, i \in edited>> : i \in I}, cursor |-> IF I = {} \/ 1 \in I THEN 0 ELSE Min(I)]
Answered(q, b) ==
  [q EXCEPT !.pc = "read", !.rows = PageBefore(b).rows, !.cursor = PageBefore(b).cursor]

Idle == [pc |-> "none", live |-> FALSE, rows |-> {}, cursor |-> 0]

Init ==
  /\ sent \in 1..MaxMessages /\ edited = {}
  /\ newest = {} /\ older = {} /\ cursor = 0 /\ newestCursor = 0 /\ backfill = FALSE
  /\ poll = Idle /\ load = Idle /\ up = TRUE /\ events = {}
  /\ outlived = FALSE /\ used = 0

Outside == used < MaxEvents /\ used' = used + 1
Inside == UNCHANGED used

\* opencode: messages are sent, fewer than a page between two polls, and changed.
Send ==
  /\ sent < MaxMessages /\ newest # {} /\ sent < Max(Ids(newest)) + Window
  /\ sent' = sent + 1 /\ Inside
  /\ UNCHANGED <<edited, shown, poll, load, up, events, outlived>>

Edit(i) ==
  /\ i \in 1..sent \ edited /\ edited' = edited \union {i} /\ Outside
  /\ events' = IF up THEN events \union {i} ELSE events
  /\ UNCHANGED <<sent, shown, poll, load, up, outlived>>

Revert ==
  /\ up /\ events' = events \union {0} /\ Outside
  /\ UNCHANGED <<opencode, shown, poll, load, up, outlived>>

StreamBreaks ==
  /\ up /\ up' = FALSE /\ events' = {} /\ Outside
  /\ UNCHANGED <<opencode, shown, poll, load, outlived>>

-------------------------------------------------------------------------------
\* mergeMessagePages: by identity, the second argument wins.
Merge(A, B) == {m \in A : m[1] \notin Ids(B)} \union B

PollStart ==
  /\ poll.pc = "none" /\ poll' = [poll EXCEPT !.pc = "asked"] /\ Inside
  /\ UNCHANGED <<opencode, shown, load, up, events, outlived>>

PollRead ==
  /\ poll.pc = "asked" /\ Inside
  /\ poll' = Answered(poll, sent + 1)
  /\ UNCHANGED <<opencode, shown, load, up, events, outlived>>

\* Mutant: rows that leave the newest page are not kept with the older ones.
KeepOlder(rows) == {m \in older : m[1] <= Min(Ids(rows))}

\* refreshNewestPage, when older rows are preserved.
Displaced(rows) ==
  {m \in Merge(older, IF Cardinality(rows) >= Window THEN newest ELSE {}) : m[1] <= Min(Ids(rows))}

PollDeliver ==
  LET whole == poll.rows = {} \/ poll.cursor = 0 \/ ~backfill IN
  /\ poll.pc = "read" /\ poll' = Idle /\ Inside
  /\ newest' = poll.rows /\ newestCursor' = poll.cursor
  /\ older' = IF whole THEN {} ELSE Displaced(poll.rows)
  /\ cursor' = IF whole THEN poll.cursor ELSE cursor
  /\ outlived' = (outlived /\ (whole => load.live))
  /\ UNCHANGED <<opencode, backfill, load, up, events>>

\* loadEarlier: one at a time; a load whose history was given up is forgotten.
LoadStart ==
  /\ cursor # 0 /\ ~load.live /\ backfill' = TRUE
  /\ load' = [Idle EXCEPT !.pc = "asked", !.live = TRUE, !.cursor = cursor] /\ Inside
  /\ UNCHANGED <<opencode, newest, older, cursor, newestCursor, poll, up, events, outlived>>

LoadRead ==
  /\ load.pc = "asked" /\ load.live /\ Inside
  /\ load' = Answered(load, load.cursor)
  /\ UNCHANGED <<opencode, shown, poll, up, events, outlived>>

\* appendOlderPage: what is loaded already wins over the page that comes in.
LoadDeliver ==
  /\ load.pc = "read" /\ load' = Idle /\ Inside
  /\ IF load.live
       THEN /\ older' = {m \in Merge(load.rows, older) : m[1] \notin Ids(newest)}
            /\ cursor' = load.cursor
       ELSE UNCHANGED <<older, cursor>>
  /\ UNCHANGED <<opencode, newest, newestCursor, backfill, poll, up, events, outlived>>

\* The load fails; the rows and the cursor stay as they are.
LoadFails ==
  /\ load.pc # "none" /\ load' = Idle /\ Outside
  /\ UNCHANGED <<opencode, shown, poll, up, events, outlived>>

\* Older rows and the loads under way are given up: the next load starts from the
\* newest page again.
GiveUp == /\ older' = {} /\ backfill' = FALSE /\ cursor' = newestCursor

\* An event about a message: older rows that hold it are given up, and so is a load on
\* its way unless the message is in the newest page, which the poll replaces.
Event(i) ==
  /\ i \in events /\ events' = events \ {i} /\ Inside
  /\ load' = IF i \in Ids(newest) THEN load ELSE [load EXCEPT !.live = FALSE]
  /\ IF older # {} /\ i \in Ids(older) \union {0}
       THEN GiveUp /\ outlived' = load'.live
       ELSE UNCHANGED <<older, backfill, cursor, outlived>>
  /\ UNCHANGED <<opencode, newest, newestCursor, poll, up>>

\* The stream is back: what changed meanwhile is unknown.
Reconnect ==
  /\ ~up /\ up' = TRUE /\ Inside
  /\ IF backfill THEN GiveUp /\ load' = [load EXCEPT !.live = FALSE] /\ outlived' = FALSE
     ELSE UNCHANGED <<older, backfill, cursor, load, outlived>>
  /\ UNCHANGED <<opencode, newest, newestCursor, poll, events>>

Next == \/ Send \/ Revert \/ StreamBreaks \/ PollStart \/ PollRead \/ PollDeliver
        \/ LoadStart \/ LoadRead \/ LoadDeliver \/ LoadFails \/ Reconnect
        \/ (\E i \in 1..MaxMessages : Edit(i)) \/ (\E i \in 0..MaxMessages : Event(i))

Spec == Init /\ [][Next]_vars
-------------------------------------------------------------------------------
Shown == Merge(older, newest)   \* transcriptMessages

TypeOK ==
  /\ sent \in 1..MaxMessages /\ edited \subseteq 1..sent
  /\ newest \union older \subseteq (1..sent) \X BOOLEAN /\ Cardinality(newest) <= Window
  /\ {cursor, newestCursor} \subseteq 0..sent /\ used \in 0..MaxEvents

\* What is shown has no hole, no message is shown twice, and the next load adjoins the
\* first: whatever polls, loads, events and breaks came in whichever order. It fails
\* only where a load outlived its history: an event about the message on the boundary,
\* which is in both parts, gives the older rows up and lets the load come in.
PagesAdjoin ==
  newest # {} /\ ~outlived =>
    LET I == Ids(Shown) IN
      /\ I = Min(I)..Max(I) /\ Cardinality(Shown) = Cardinality(I)
      /\ cursor = IF Min(I) = 1 THEN 0 ELSE Min(I)

\* Once every event has come and a poll was answered since, all that is shown is as
\* opencode has it: the page degrades "instead of showing a divergent view".
ShownIsCurrent ==
  up /\ events = {} /\ poll = Idle /\ load = Idle /\ newest = PageBefore(sent + 1).rows =>
    \A m \in Shown : m[2] = (m[1] \in edited)
================================================================================
