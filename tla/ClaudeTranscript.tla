----------------------------- MODULE ClaudeTranscript -----------------------------
(* The transcript window of a Claude conversation: the server's index of the      *)
(* session's events with its epoch and revisions (server/claude/transcript.ts),   *)
(* and the page that follows it by deltas, loads earlier and later pages and      *)
(* evicts what is too much (client/lib/useClaudeTranscript.ts).                   *)
EXTENDS Naturals, Sequences, FiniteSets

CONSTANTS
  Page,       \* TRANSCRIPT_PAGE_SIZE, and what a page that follows the end keeps
  Resident,   \* CLAUDE_RESIDENT_LIMIT: what a page that was scrolled keeps
  Retained,   \* MAX_EVENTS: what the store keeps of a session
  MaxRows,    \* bound: events of the session, numbered as they come
  MaxOutside, \* bound: events that change later, restarts, failures, hidden tabs
  None

VARIABLES
  first, last,  \* the events the store has: first..last
  edited,       \* those that changed after they came
  rev,          \* rev[i]: the revision at which the index saw event i as it is
  revision, epoch,
  rows,         \* the window: Seq of [id, edited]
  known,        \* the epoch of the window's cursors
  cursor,       \* the revision the window is at, None before the first answer
  before, after,\* cursors to what lies outside the window: an id, or None
  pinned,
  flight,       \* the request on its way and, once read, its answer
  queued,
  visible, used

log    == <<first, last, edited, rev, revision, epoch>>
window == <<rows, known, cursor, before, after, pinned>>
vars   == <<log, window, flight, queued, visible, used>>

Ids == 1..MaxRows
NoPage == [rows |-> <<>>, delta |-> FALSE, reset |-> FALSE, revision |-> 0, epoch |-> 0,
           before |-> None, after |-> None]
Free == [to |-> None, epoch |-> 0, since |-> None, at |-> None, page |-> NoPage, read |-> FALSE]

Init ==
  /\ last \in 1..Retained /\ first = 1 /\ edited = {}
  /\ rev = [i \in Ids |-> i] /\ revision = last /\ epoch = 1
  /\ rows = <<>> /\ known = 0 /\ cursor = None /\ before = None /\ after = None /\ pinned = FALSE
  /\ flight = [Free EXCEPT !.to = "refresh"] /\ queued = FALSE /\ visible = TRUE /\ used = 0

Outside == used < MaxOutside /\ used' = used + 1
Inside == UNCHANGED used

-------------------------------------------------------------------------------
(* The store and its index. *)

\* An event comes; the oldest goes when there are too many, which ends the epoch.
Append1 ==
  /\ last < MaxRows /\ last' = last + 1
  /\ first' = IF last - first + 2 > Retained THEN first + 1 ELSE first
  /\ epoch' = IF first' # first THEN epoch + 1 ELSE epoch
  /\ revision' = revision + 1 /\ rev' = [rev EXCEPT ![last'] = revision']
  /\ Inside /\ UNCHANGED <<edited, window, flight, queued, visible>>

\* A tool call's row changes when its result comes.
Edit(i) ==
  /\ i \in first..last \ edited /\ edited' = edited \union {i}
  /\ revision' = revision + 1 /\ rev' = [rev EXCEPT ![i] = revision']
  /\ Outside /\ UNCHANGED <<first, last, epoch, window, flight, queued, visible>>

\* The server restarts: a new index.
Restart ==
  /\ epoch' = epoch + 1 /\ Outside
  /\ UNCHANGED <<first, last, edited, rev, revision, window, flight, queued, visible>>

\* The numbers of S in order; the events of S in order, each as it is now.
Ranked(S) == [k \in 1..Cardinality(S) |->
                CHOOSE i \in S : Cardinality({j \in S : j < i}) = k - 1]
RowsOf(S) == [k \in DOMAIN Ranked(S) |->
                [id |-> Ranked(S)[k], edited |-> Ranked(S)[k] \in edited]]

Newest(S, n) == {i \in S : Cardinality({k \in S : k > i}) < n}
Oldest(S, n) == {i \in S : Cardinality({k \in S : k < i}) < n}

\* read(): the changes since a revision, or a page next to a cursor, or the newest
\* page. Its bytes leave room for n events; a cursor of another epoch, or more changes
\* than a page holds, resets.
Read ==
  LET f       == flight
      all     == first..last
      valid   == f.epoch = epoch
      changes == {i \in all : f.since # None /\ rev[i] > f.since}
  IN /\ f.to # None /\ ~f.read
     /\ \E n \in 1..Page :
          LET delta == f.since # None /\ valid /\ Cardinality(changes) <= n
              reset == (f.since # None /\ ~delta) \/ (f.at # None /\ ~valid)
              S == CASE delta -> changes
                     [] f.at # None /\ valid /\ f.to = "before" -> Newest({i \in all : i < f.at}, n)
                     [] f.at # None /\ valid /\ f.to = "after"  -> Oldest({i \in all : i > f.at}, n)
                     [] OTHER -> Newest(all, n)
              R == RowsOf(S)
          IN flight' = [f EXCEPT !.read = TRUE, !.page =
               [rows |-> R, delta |-> delta, reset |-> reset, revision |-> revision,
                epoch |-> epoch,
                before |-> IF S # {} /\ first \notin S THEN R[1].id ELSE None,
                after  |-> IF S # {} /\ last \notin S THEN R[Len(R)].id ELSE None]]
     /\ Inside /\ UNCHANGED <<log, window, queued, visible>>

-------------------------------------------------------------------------------
(* The page. *)

Has(R, i) == \E k \in DOMAIN R : R[k].id = i
End(R) == IF R = <<>> THEN 0 ELSE R[Len(R)].id

\* The rows of A, each as B has it if it does; those of B whose events are not in A.
Renewed(A, B) == [k \in DOMAIN A |->
  IF Has(B, A[k].id) THEN B[CHOOSE j \in DOMAIN B : B[j].id = A[k].id] ELSE A[k]]
Others(A, B) ==
  LET K == Ranked({k \in DOMAIN B : ~Has(A, B[k].id)}) IN [m \in DOMAIN K |-> B[K[m]]]

\* The rows that are there, as the delta says they are now, and those after them.
Updated(p) == Renewed(rows, p.rows)
Additions(p) ==
  LET K == Ranked({k \in DOMAIN p.rows : ~Has(rows, p.rows[k].id) /\ p.rows[k].id > End(rows)})
  IN [m \in DOMAIN K |-> p.rows[K[m]]]

\* Concatenation by id: the place of the first, the contents of the last.
Joined(A, B) == Renewed(A, B) \o Others(A, B)

\* The limit of the window, and of its bytes: rows go at the end away from the reader.
Evicted(R, b, a, keepStart, limit, n) ==
  LET kept == IF Len(R) <= n THEN R
              ELSE IF keepStart THEN SubSeq(R, 1, n) ELSE SubSeq(R, Len(R) - n + 1, Len(R))
  IN /\ n \in 1..limit
     /\ rows' = kept
     /\ before' = IF kept = R \/ keepStart THEN b ELSE kept[1].id
     /\ after'  = IF kept = R \/ ~keepStart THEN a ELSE End(kept)

Takes(p) == cursor' = p.revision /\ known' = p.epoch

\* Mutant: the additions join a pinned window too.
DeltaGrows(p) ==
  /\ Takes(p) /\ UNCHANGED pinned
  /\ LET limit == IF pinned THEN Resident ELSE Page IN
       \E n \in 1..limit :
         Evicted(Updated(p) \o Additions(p), before, after, pinned, limit, n)

\* A delta: a window that follows the end grows at its end, a pinned one only notes
\* that there is more after it.
Delta(p) ==
  /\ Takes(p) /\ UNCHANGED pinned
  /\ LET limit == IF pinned THEN Resident ELSE Page IN
       \E n \in 1..limit :
         Evicted(IF pinned THEN Updated(p) ELSE Updated(p) \o Additions(p), before,
                 IF pinned /\ Additions(p) # <<>> /\ rows # <<>> THEN End(rows) ELSE after,
                 pinned, limit, n)

\* Mutant: a page of earlier rows moves the window's revision.
BesideTakes(p) ==
  /\ pinned' = TRUE /\ Takes(p)
  /\ \E n \in 1..Resident :
       IF flight.to = "before"
         THEN Evicted(Joined(p.rows, rows), p.before, after, TRUE, Resident, n)
         ELSE Evicted(Joined(rows, p.rows), before, p.after, FALSE, Resident, n)

\* A page of earlier or later rows joins the window and pins it. Its revision is not
\* the window's: what changed meanwhile elsewhere in the window is still to come.
Beside(p) ==
  /\ pinned' = TRUE /\ UNCHANGED <<cursor, known>>
  /\ \E n \in 1..Resident :
       IF flight.to = "before"
         THEN Evicted(Joined(p.rows, rows), p.before, after, TRUE, Resident, n)
         ELSE Evicted(Joined(rows, p.rows), before, p.after, FALSE, Resident, n)

\* The newest page replaces the window.
Replaced(p) ==
  /\ pinned' = FALSE /\ Takes(p)
  /\ \E n \in 1..Page : Evicted(p.rows, p.before, p.after, FALSE, Page, n)

Refresh == [Free EXCEPT !.to = "refresh", !.since = cursor', !.epoch = known']

\* Mutant: what was loaded remains the request on its way.
KeepsRequest == UNCHANGED <<flight, queued>>

\* finally: a refresh that was asked for meanwhile is made now.
Finally == flight' = (IF queued THEN Refresh ELSE Free) /\ queued' = FALSE

\* reconcileClaude, when the answer comes and was not aborted.
Deliver ==
  LET p == flight.page  beside == flight.to \in {"before", "after"} /\ ~p.reset IN
  /\ flight.read
  /\ \/ p.delta /\ flight.to = "refresh" /\ Delta(p)
     \/ beside /\ Beside(p)
     \/ ~p.delta /\ ~beside /\ Replaced(p)
  /\ Finally /\ Inside /\ UNCHANGED <<log, visible>>

Fails ==
  /\ flight.to # None /\ UNCHANGED window /\ Finally
  /\ Outside /\ UNCHANGED <<log, visible>>

\* load(): an event, the poll, or a button. A refresh waits for the request on its
\* way, another load aborts it.
Ask(to) ==
  /\ visible /\ UNCHANGED <<log, window, visible>>
  /\ IF to = "refresh" THEN Inside ELSE Outside
  /\ to = "before" => before # None /\ flight.to \notin {"before", "after"}
  /\ to = "after"  => after # None /\ flight.to \notin {"before", "after"}
  /\ IF to = "refresh" /\ flight.to # None
       THEN queued' = TRUE /\ UNCHANGED flight
       ELSE /\ UNCHANGED queued
            /\ flight' = [Free EXCEPT !.to = to, !.epoch = known,
                 !.since = IF to = "refresh" THEN cursor ELSE None,
                 !.at = CASE to = "before" -> before [] to = "after" -> after [] OTHER -> None]

Poll == Ask("refresh")

\* The reader scrolls up.
Pin == /\ rows # <<>> /\ ~pinned /\ pinned' = TRUE
       /\ Inside /\ UNCHANGED <<log, rows, known, cursor, before, after, flight, queued, visible>>

\* visibility: a hidden tab aborts its request, a visible one asks again.
Hide ==
  /\ visible /\ visible' = FALSE /\ flight' = Free /\ queued' = FALSE
  /\ Outside /\ UNCHANGED <<log, window>>
Unhide ==
  /\ ~visible /\ visible' = TRUE /\ UNCHANGED <<log, window, queued>> /\ Inside
  /\ flight' = [Free EXCEPT !.to = "refresh", !.since = cursor, !.epoch = known]

Answers == Read \/ Deliver

Next == \/ Answers \/ Append1 \/ Restart \/ Fails \/ Pin \/ Hide \/ Unhide
        \/ (\E i \in Ids : Edit(i)) \/ (\E to \in {"before", "after", "latest"} : Ask(to)) \/ Poll

Spec == Init /\ [][Next]_vars

\* Requests are answered or fail, and the poll timer fires.
FairSpec == Spec /\ WF_vars(Answers) /\ WF_vars(Poll)
-------------------------------------------------------------------------------
TypeOK ==
  /\ first \in Ids /\ last \in first..MaxRows /\ edited \subseteq Ids
  /\ last - first < Retained
  /\ \A k \in DOMAIN rows : rows[k].id \in Ids /\ rows[k].edited \in BOOLEAN
  /\ Len(rows) <= Resident
  /\ flight.to \in {None, "refresh", "before", "after", "latest"}
  /\ {pinned, queued, visible} \subseteq BOOLEAN /\ used \in 0..MaxOutside

\* The window shows consecutive events in their order, its cursors are its own ends,
\* and an end without a cursor is the end of the transcript as far as it is known.
WindowWhole ==
  rows # <<>> =>
    /\ \A k \in 1..(Len(rows) - 1) : rows[k + 1].id = rows[k].id + 1
    /\ before \in {None, rows[1].id} /\ after \in {None, End(rows)}
    /\ known = epoch =>
         /\ before = None => rows[1].id = first
         /\ after = None => \A i \in (End(rows) + 1)..last : rev[i] > cursor

\* What changed since the window's revision is all that it may show otherwise: no
\* change falls between a page that was loaded and the deltas around it.
WindowCurrent ==
  known = epoch => \A k \in DOMAIN rows :
    (rows[k].edited <=> rows[k].id \in edited) \/ rev[rows[k].id] > cursor

TranscriptInv == WindowWhole /\ WindowCurrent

\* A page that stays visible comes to follow the session: its window is at the index's
\* revision from some point on.
CaughtUp == known = epoch /\ cursor = revision
WindowCatchesUp == <>[]visible => <>[]CaughtUp
================================================================================
