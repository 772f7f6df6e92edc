--------------------------------- MODULE DshPages ---------------------------------
(* Reading a DSH trajectory page by page: the page cursor of                      *)
(* server/dsh/trajectory.ts (page, resolve, mergeDurable) and the inspector that  *)
(* polls the newest page and loads earlier ones (dsh-trajectory-inspector.tsx).   *)
(* Captured records are numbered by one counter; the harness's own durable log    *)
(* numbers the native events by another, and answers in their place when there.   *)
EXTENDS Naturals, Sequences, FiniteSets, SequencesExt, FiniteSetsExt

CONSTANTS Limit,          \* events per page
          MaxEvents,      \* bound: events in the world
          None

VARIABLES world,          \* Seq of "native" and "life": what happened, in order
          durable,        \* the durable log answers for this session
          shown,          \* the events the inspector shows
          cursor,         \* page.nextBefore: a number, 0 for null, None before the first page
          loading,        \* an earlier page on its way: None or [before, snapshot]
          unseen          \* events since the page last held all the newest ones

vars == <<world, durable, shown, cursor, loading, unseen>>

Times == DOMAIN world
Natives(t) == Cardinality({u \in 1..t : world[u] = "native"})

(* The number an event is paged by: its place in the capture, or, for a native   *)
(* event of the durable log, its place in that log.                              *)
Number(t) == IF durable /\ world[t] = "native" THEN Natives(t) ELSE t

\* Mutant: the page is the oldest end of what is eligible.
OldestPage(before) ==
  LET eligible == {t \in Times : before = None \/ Number(t) < before}
      chosen == {t \in eligible : Cardinality({u \in eligible : u < t}) < Limit}
  IN [events |-> chosen,
      next |-> IF chosen = eligible THEN 0 ELSE Number(Max(chosen))]

(* page: the events numbered below the cursor, in order of time, the last Limit  *)
(* of them, and the first one's number as the next cursor when more are left.    *)
Page(before) ==
  LET eligible == {t \in Times : before = None \/ Number(t) < before}
      chosen == {t \in eligible : Cardinality({u \in eligible : u > t}) < Limit}
  IN [events |-> chosen,
      next |-> IF chosen = eligible THEN 0 ELSE Number(Min(chosen))]

Earlier == [before: 1..MaxEvents, snapshot: SUBSET (1..MaxEvents)]

TypeOK ==
  /\ world \in Seq({"native", "life"}) /\ durable \in BOOLEAN
  /\ shown \subseteq Times /\ (cursor = None \/ cursor \in 0..MaxEvents)
  /\ loading = None \/ loading \in Earlier
  /\ unseen \in 0..Limit

Init ==
  /\ world = <<>> /\ durable \in BOOLEAN
  /\ shown = {} /\ cursor = None /\ loading = None /\ unseen = 0

(* At most a page's worth happens between two polls that land (Limit is 500 and  *)
(* a running session is polled every second).                                    *)
Happens(kind) ==
  /\ Len(world) < MaxEvents /\ (cursor = None \/ unseen < Limit)
  /\ world' = Append(world, kind)
  /\ unseen' = IF cursor = None THEN 0 ELSE unseen + 1
  /\ UNCHANGED <<durable, shown, cursor, loading>>

(* A poll: the newest page joins what is shown; the cursor stays where it was.   *)
Poll ==
  /\ shown' = shown \cup Page(None).events
  /\ cursor' = IF cursor = None THEN Page(None).next ELSE cursor
  /\ unseen' = IF loading = None THEN 0 ELSE unseen
  /\ UNCHANGED <<world, durable, loading>>

(* loadEarlier: what it will show is what was shown at the click, and the page.  *)
Click ==
  /\ loading = None /\ cursor \notin {None, 0}
  /\ loading' = [before |-> cursor, snapshot |-> shown]
  /\ UNCHANGED <<world, durable, shown, cursor, unseen>>

Loaded ==
  /\ loading # None
  /\ shown' = loading.snapshot \cup Page(loading.before).events
  /\ cursor' = Page(loading.before).next
  /\ loading' = None
  /\ UNCHANGED <<world, durable, unseen>>

Next == Poll \/ Click \/ Loaded \/ \E kind \in {"native", "life"} : Happens(kind)
Spec == Init /\ [][Next]_vars

-------------------------------------------------------------------------------
(* A reader who has loaded every earlier page has every event up to the last     *)
(* poll, whatever was captured and loaded in between.                            *)
AllShown == cursor = 0 /\ loading = None => 1..(Len(world) - unseen) \subseteq shown

(* It holds while the pages come from the capture and its one counter.           *)
CapturedAllShown == ~durable => AllShown
================================================================================
