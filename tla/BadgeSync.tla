-------------------------------- MODULE BadgeSync --------------------------------
(* The app-icon badge of one installed device: the service worker applies the   *)
(* counts of pushes one after another, and grants a page that fetched a newer    *)
(* count a lease to apply it itself (some platforms ignore the worker's call).   *)
(* client/public/sw.js, client/lib/appBadge.ts                                   *)
EXTENDS Naturals, Integers, Sequences

CONSTANTS
  Pages,        \* open tabs, each with at most one syncAppBadge call
  MaxRevision,  \* revisions the server hands out: 1..MaxRevision
  CountOf,      \* CountOf[r]: the badge count at revision r
  MaxMessages   \* bound: pushes and calls

VARIABLES
  stored,    \* badgeState in IndexedDB: [count, revision]
  shown,     \* what the icon shows
  queue,     \* badgeQueue: tasks still to run
  page,      \* page[p]: its call, and the port to its lease
  lease,     \* lease[p]: none, open, released (2 s) or over
  late,      \* the last to write the icon was a page whose lease was abandoned
  messages

vars == <<stored, shown, queue, page, lease, late, messages>>

Revisions == 1..MaxRevision
Push(r)    == [type |-> "push", revision |-> r]
Sync(p, r) == [type |-> "sync", revision |-> r, page |-> p]
Reapply    == [type |-> "reapply"]

\* A page is idle, waits for the worker's verdict, has it in its port, or applies.
PageStates == {"idle", "waiting", "accepted", "refused", "applying", "applied", "closed"}

Init ==
  /\ stored = [count |-> 0, revision |-> -1] /\ shown = 0
  /\ queue = <<>> /\ page = [p \in Pages |-> [state |-> "idle", count |-> 0]]
  /\ lease = [p \in Pages |-> "none"] /\ late = FALSE /\ messages = 0

Message == messages < MaxMessages /\ messages' = messages + 1

\* A push arrives, in any order, late or twice.
PushArrives(r) ==
  /\ Message /\ queue' = Append(queue, Push(r))
  /\ UNCHANGED <<stored, shown, page, lease, late>>

\* syncAppBadge posts SYNC_BADGE and waits two seconds at most.
PageSyncs(p, r) ==
  /\ Message /\ page[p].state = "idle"
  /\ page' = [page EXCEPT ![p] = [state |-> "waiting", count |-> CountOf[r]]]
  /\ queue' = Append(queue, Sync(p, r))
  /\ UNCHANGED <<stored, shown, lease, late>>

\* An older revision is stale; an equal one must repeat the same count.
Accepts(r) ==
  \/ r > stored.revision
  \/ r = stored.revision /\ stored.count = CountOf[r]

Accept(r) == stored' = [count |-> CountOf[r], revision |-> r]

\* The queue is held while a lease is open and not released.
Held == \E p \in Pages : lease[p] = "open"

RunPush ==
  /\ queue # <<>> /\ ~Held /\ Head(queue).type = "push"
  /\ LET r == Head(queue).revision IN
       IF Accepts(r) THEN Accept(r) /\ shown' = CountOf[r] /\ late' = FALSE
                     ELSE UNCHANGED <<stored, shown, late>>
  /\ queue' = Tail(queue) /\ UNCHANGED <<page, lease, messages>>

\* The verdict goes to the page; a page that timed out does not hear it.
RunSync ==
  /\ queue # <<>> /\ ~Held /\ Head(queue).type = "sync"
  /\ LET r == Head(queue).revision
         p == Head(queue).page
         Hears(verdict) == page' = [page EXCEPT ![p].state =
                             IF @ = "waiting" THEN verdict ELSE @]
     IN  \/ /\ Accepts(r) /\ Accept(r) /\ Hears("accepted")
            /\ lease' = [lease EXCEPT ![p] = "open"]
         \/ /\ ~Accepts(r) /\ UNCHANGED <<stored, lease>> /\ Hears("refused")
  /\ queue' = Tail(queue) /\ UNCHANGED <<shown, late, messages>>

RunReapply ==
  /\ queue # <<>> /\ ~Held /\ Head(queue).type = "reapply"
  /\ shown' = stored.count /\ late' = FALSE
  /\ queue' = Tail(queue) /\ UNCHANGED <<stored, page, lease, messages>>

PageGivesUp(p) ==
  /\ page[p].state \in {"waiting", "accepted", "refused"}
  /\ page' = [page EXCEPT ![p].state = "closed"]
  /\ UNCHANGED <<stored, shown, queue, lease, late, messages>>

\* A refused page writes nothing; an accepted one goes on to write the icon.
PageHears(p) ==
  /\ page[p].state \in {"accepted", "refused"}
  /\ page' = [page EXCEPT ![p].state =
                IF @ = "accepted" THEN "applying" ELSE "closed"]
  /\ UNCHANGED <<stored, shown, queue, lease, late, messages>>

\* The page's own setAppBadge lands, whenever that is.
PageApplies(p) ==
  /\ page[p].state = "applying" /\ shown' = page[p].count
  /\ page' = [page EXCEPT ![p].state = "applied"]
  /\ late' = (lease[p] = "over")
  /\ UNCHANGED <<stored, queue, lease, messages>>

\* port.onmessage: in time it frees the queue; after the release others may have
\* written, so the stored count is applied once more; after that nobody listens.
PageAcknowledges(p) ==
  /\ page[p].state = "applied" /\ page' = [page EXCEPT ![p].state = "closed"]
  /\ lease' = [lease EXCEPT ![p] = "over"]
  /\ queue' = IF lease[p] = "released" THEN Append(queue, Reapply) ELSE queue
  /\ UNCHANGED <<stored, shown, late, messages>>

\* A tab is closed or discarded at any point of its call.
PageDies(p) ==
  /\ page[p].state \notin {"idle", "closed"}
  /\ page' = [page EXCEPT ![p].state = "closed"]
  /\ UNCHANGED <<stored, shown, queue, lease, late, messages>>

\* Mutant: only a page that is still there is timed.
ReleaseLive(p) ==
  /\ lease[p] = "open" /\ page[p].state # "closed"
  /\ lease' = [lease EXCEPT ![p] = "released"]
  /\ UNCHANGED <<stored, shown, queue, page, late, messages>>

\* releaseTimer, two seconds.
Release(p) ==
  /\ lease[p] = "open" /\ lease' = [lease EXCEPT ![p] = "released"]
  /\ UNCHANGED <<stored, shown, queue, page, late, messages>>

\* Mutant: the lease is only forgotten.
AbandonOnly(p) ==
  /\ lease[p] = "released" /\ lease' = [lease EXCEPT ![p] = "over"]
  /\ UNCHANGED <<stored, shown, queue, page, late, messages>>

\* abandonTimer, thirty seconds: the page may have written anything.
Abandon(p) ==
  /\ lease[p] = "released" /\ lease' = [lease EXCEPT ![p] = "over"]
  /\ queue' = Append(queue, Reapply)
  /\ UNCHANGED <<stored, shown, page, late, messages>>

Worker == RunPush \/ RunSync \/ RunReapply \/ \E p \in Pages : Release(p) \/ Abandon(p)

PageStep(p) == \/ PageGivesUp(p) \/ PageHears(p) \/ PageApplies(p)
               \/ PageAcknowledges(p) \/ PageDies(p)

Next == \/ Worker
        \/ \E r \in Revisions : PushArrives(r) \/ \E p \in Pages : PageSyncs(p, r)
        \/ \E p \in Pages : PageStep(p)

Spec == Init /\ [][Next]_vars

\* The worker's promises run and its timers fire; nothing is assumed of pages.
FairSpec == Spec /\ WF_vars(Worker)

-------------------------------------------------------------------------------
Tasks == [type : {"push"}, revision : Revisions] \union {Reapply}
           \union [type : {"sync"}, revision : Revisions, page : Pages]

TypeOK ==
  /\ stored \in [count : Nat, revision : Revisions \union {-1}] /\ shown \in Nat
  /\ queue \in Seq(Tasks) /\ page \in [Pages -> [state : PageStates, count : Nat]]
  /\ lease \in [Pages -> {"none", "open", "released", "over"}]
  /\ messages \in 0..MaxMessages /\ late \in BOOLEAN

Settled == queue = <<>> /\ \A p \in Pages : lease[p] \in {"none", "over"}

\* Once the worker has nothing left to do, the icon shows the stored count, however
\* pushes, slow pages, dead pages and timers interleaved; only a page that writes
\* after its lease was abandoned is not repaired.
BadgeShowsStored == Settled /\ ~late => shown = stored.count

\* A page calls once, and its lease is opened with the count it called with.
LeaseIsOwn ==
  /\ \A i \in DOMAIN queue : queue[i].type = "sync" =>
       /\ page[queue[i].page].state \in {"waiting", "closed"}
       /\ page[queue[i].page].count = CountOf[queue[i].revision]
       /\ \A j \in DOMAIN queue : queue[j].type = "sync" /\ queue[j].page = queue[i].page => i = j
  /\ \A p \in Pages : page[p].state \in {"accepted", "applying", "applied"} => lease[p] # "none"
  /\ \A p \in Pages : page[p].state = "idle" => lease[p] = "none"
  /\ \A p, q \in Pages : lease[p] = "open" /\ lease[q] = "open" => p = q
  /\ \A p \in Pages : lease[p] = "open" => stored.count = page[p].count

\* Why BadgeShowsStored holds: an icon that does not show the stored count has somebody
\* left to write it, and a page that has written under its lease leaves no other to.
Repaired == late \/ shown = stored.count \/ \E i \in DOMAIN queue : queue[i] = Reapply
IconIsOwed ==
  /\ Repaired \/ \E p \in Pages : lease[p] \in {"open", "released"}
  /\ (\E p \in Pages : lease[p] = "open" /\ page[p].state = "applied") =>
       Repaired \/ \E p \in Pages : lease[p] = "released"

BadgeInv == BadgeShowsStored /\ LeaseIsOwn /\ IconIsOwed

\* A page that never answers does not wedge the queue of pushes behind it.
BadgeSettles == []<>Settled
================================================================================
