----------------------------- MODULE Notifications -----------------------------
(* The notification service with its history: upstream events are classified,  *)
(* suppressed or delivered by handlers that run concurrently and stop at every *)
(* await; an unanswered permission request is escalated by a timer; the user    *)
(* checks records off; the server may crash and reload the history file.       *)
(* server/notifications/service.ts, history.ts, server/routes/notifications.ts *)
EXTENDS Integers, SequencesExt

CONSTANTS
  Jobs,          \* handler invocations, parked escalations among them
  Asks,          \* permission requests
  Sessions,      \* sessions: every request belongs to one of them
  SessionOf,     \* SessionOf[a]: the session that raised request a
  TurnEvents,    \* what else a turn may raise: idle, question, error
  QuietKinds,    \* the kinds the user's quiet preference switches off everywhere
  LookupSlots,   \* SESSION_LOOKUP_CONCURRENCY
  HistoryLimit,  \* HISTORY_LIMIT, per capped category
  MaxOutside,    \* bound: steps of upstream, the user, the clock and crashes
  None

ASSUME NotificationsAssumption ==
  /\ SessionOf \in [Asks -> Sessions]
  /\ TurnEvents \subseteq {"idle", "question", "error"}
  /\ {LookupSlots, HistoryLimit, MaxOutside} \subseteq Nat
  /\ None \notin {"root", "child", "unknown", "subagent", "auto-permissions",
                  "preference-off"}

VARIABLES
  lineage,   \* lineage[s]: "root" or "child", as upstream knows it
  upstream,  \* upstream[a]: "none", "pending" or "replied" at opencode serve
  wire,      \* events sent and not yet handled
  outside,   \* how many outside steps were taken
  job,       \* job[j]: the handler, what it handles, and what it read so far
  kinds,     \* sessionKinds: the cached lineage, or None
  lookups,   \* sessions whose lineage is being asked of upstream
  slots,     \* activeSessionLookups
  seen,      \* dedupe keys less than 5 seconds old
  aborted,   \* sessions stopped less than 30 seconds ago
  armed,     \* requests with a parked timer
  auto,      \* auto-permissions of the directory
  quiet,     \* the quiet preference, as stored
  records,   \* the history: [job, supp, active, parked] by place, oldest lowest
  revision,  \* badgeRevision
  file,      \* the history file
  restarts

serviceVars == <<job, kinds, lookups, slots, seen, aborted, armed>>
worldVars   == <<lineage, upstream, wire, outside, auto, quiet>>
storeVars   == <<records, revision>>
vars == <<serviceVars, worldVars, storeVars, file, restarts>>

EventTypes == {"permission", "replied", "idle", "question", "error", "abort"}
Phases == {"free", "lineage", "read", "excerpt", "auto", "pending", "append",
           "deliver", "settle", "mark", "done", "failed"}
Suppressions == {"subagent", "auto-permissions", "preference-off"}

Event(type, s, a) == [type |-> type, session |-> s, ask |-> a]
AskEvent(a) == Event("permission", SessionOf[a], a)

FreeJob == [phase |-> "free", type |-> None, session |-> None, ask |-> None,
            child |-> FALSE, quiet |-> FALSE, supp |-> None, late |-> FALSE]

Init ==
  /\ lineage \in [Sessions -> {"root", "child"}]
  /\ upstream = [a \in Asks |-> "none"] /\ wire = <<>> /\ outside = 0
  /\ job = [j \in Jobs |-> FreeJob]
  /\ kinds = [s \in Sessions |-> None] /\ lookups = {} /\ slots = 0
  /\ seen = {} /\ aborted = {} /\ armed = {}
  /\ auto \in BOOLEAN /\ quiet = FALSE
  /\ records = <<>> /\ revision = 0
  /\ file = [records |-> <<>>, revision |-> 0]
  /\ restarts = 0

OutsideStep == outside < MaxOutside /\ outside' = outside + 1

-------------------------------------------------------------------------------
(* The history. *)

\* Drop the oldest of the records at the places S above the limit; the rest stay
\* where they are.
CapOldest(recs, S) ==
  Restrict(recs, {i \in DOMAIN recs : i \in S =>
                                       Cardinality({k \in S : k > i}) < HistoryLimit})

Delivered(r) == r.supp = None

CapResolved(recs) == CapOldest(recs, {i \in DOMAIN recs : ~recs[i].active})

\* Mutant: one cap for all active records.
PruneActive(recs) ==
  LET few == CapResolved(recs) IN CapOldest(few, {i \in DOMAIN few : few[i].active})

Prune(recs) ==
  LET few == CapResolved(recs)
  IN  CapOldest(few, {i \in DOMAIN few : few[i].active /\ ~Delivered(few[i])})

\* How many of the records at these places move the badge.
Counted(recs, S) == Cardinality({i \in S : Delivered(recs[i])})

NewPlace == 1 + Max({0} \union DOMAIN records)

Append1(j, supp) ==
  /\ records' = Prune([i \in DOMAIN records \union {NewPlace} |->
       IF i = NewPlace
         THEN [job |-> j, supp |-> supp, active |-> TRUE, parked |-> FALSE]
         ELSE records[i]])
  /\ revision' = IF supp = None THEN revision + 1 ELSE revision

\* PATCH and POST .../resolve: check off or reopen some of the rows shown.
Resolve(S, resolved) ==
  LET changed == {i \in S : records[i].active = resolved}
      marked  == [i \in DOMAIN records |->
                    IF i \in changed THEN [records[i] EXCEPT !.active = ~resolved]
                                     ELSE records[i]]
  IN  /\ changed # {}
      /\ records' = IF resolved THEN Prune(marked) ELSE marked
      /\ revision' = revision + Counted(records, changed)

BadgeCount == Counted(records, {i \in DOMAIN records : records[i].active})

UserResolves ==
  /\ OutsideStep
  /\ \/ \E S \in SUBSET (DOMAIN records) : Resolve(S, TRUE)
     \/ \E i \in DOMAIN records : Resolve({i}, FALSE)
  /\ UNCHANGED <<serviceVars, lineage, upstream, wire, auto, quiet, file, restarts>>

\* The write chain catches up: a later snapshot replaces every earlier one, and
\* only a reload reads the file, so one step stands for all the writes due; none
\* is taken once no reload is left (bound).
Flush ==
  /\ outside < MaxOutside
  /\ file # [records |-> records, revision |-> revision]
  /\ file' = [records |-> records, revision |-> revision]
  /\ UNCHANGED <<serviceVars, worldVars, storeVars, restarts>>

\* A crash: handlers, timers, caches and unwritten records are gone. The clock
\* has passed the persisted revision, unless many bumps outran it.
Restart ==
  /\ OutsideStep /\ restarts' = restarts + 1
  /\ job' = [j \in Jobs |-> IF job[j].phase = "free" THEN job[j]
                            ELSE [job[j] EXCEPT !.phase = "done"]]
  /\ kinds' = [s \in Sessions |-> None] /\ lookups' = {} /\ slots' = 0
  /\ seen' = {} /\ aborted' = {} /\ armed' = {} /\ wire' = <<>>
  /\ records' = Prune(file.records)
  /\ revision' \in {file.revision, revision + 1}
  /\ UNCHANGED <<lineage, upstream, auto, quiet, file>>

-------------------------------------------------------------------------------
(* opencode serve and the user *)

Send(es) ==
  /\ OutsideStep /\ wire' = wire \o es
  /\ UNCHANGED <<serviceVars, storeVars, lineage, auto, quiet, file, restarts>>

RequestOpens(a) == /\ upstream[a] = "none" /\ Send(<<AskEvent(a)>>)
                   /\ upstream' = [upstream EXCEPT ![a] = "pending"]

Echo(a) == upstream[a] = "pending" /\ Send(<<AskEvent(a)>>) /\ UNCHANGED upstream

RequestReplied(a) == /\ upstream[a] = "pending"
                     /\ Send(<<Event("replied", SessionOf[a], a)>>)
                     /\ upstream' = [upstream EXCEPT ![a] = "replied"]

TurnRaises(s) ==
  \E type \in TurnEvents : Send(<<Event(type, s, None)>>) /\ UNCHANGED upstream

Stopped(s) ==
  Send(<<Event("abort", s, None), Event("idle", s, None)>>) /\ UNCHANGED upstream

UserSwitches ==
  /\ \/ auto' = ~auto /\ UNCHANGED quiet
     \/ quiet' = ~quiet /\ UNCHANGED auto
  /\ OutsideStep
  /\ UNCHANGED <<lineage, upstream, wire, serviceVars, storeVars, file, restarts>>

Outside ==
  \/ \E a \in Asks : RequestOpens(a) \/ Echo(a) \/ RequestReplied(a)
  \/ \E s \in Sessions : TurnRaises(s) \/ Stopped(s)
  \/ UserSwitches

-------------------------------------------------------------------------------
(* Handlers. *)

SomeFree == \E j \in Jobs : job[j].phase = "free"
NextJob  == CHOOSE j \in Jobs : job[j].phase = "free"

Moves(j, phase) == job' = [job EXCEPT ![j].phase = phase]

Ends(j, phase) ==
  job' = [job EXCEPT ![j] = [@ EXCEPT !.phase = phase, !.child = FALSE, !.quiet = FALSE]]

\* Mutant: no cap on the lookups under a burst.
BeginUncapped(j, e) ==
  /\ job' = [job EXCEPT ![j] = [FreeJob EXCEPT !.phase = "lineage", !.type = e.type,
                               !.session = e.session, !.ask = e.ask]]
  /\ lookups' = lookups \union {e.session} /\ slots' = slots + 1
  /\ UNCHANGED kinds

\* sessionKind: the cache, a lookup already in flight, "unknown" when every slot
\* is taken, or a lookup of its own.
Begin(j, e) ==
  LET At(phase, child) ==
        job' = [job EXCEPT ![j] = [FreeJob EXCEPT
                  !.phase = phase, !.type = e.type, !.session = e.session,
                  !.ask = e.ask, !.child = child]]
  IN  \/ /\ kinds[e.session] # None
         /\ At("read", kinds[e.session] = "child")
         /\ UNCHANGED <<kinds, lookups, slots>>
      \/ /\ kinds[e.session] = None /\ e.session \in lookups
         /\ At("lineage", FALSE) /\ UNCHANGED <<kinds, lookups, slots>>
      \/ /\ kinds[e.session] = None /\ e.session \notin lookups
         /\ slots >= LookupSlots
         /\ At("read", FALSE)
         /\ kinds' = [kinds EXCEPT ![e.session] = "unknown"]
         /\ UNCHANGED <<lookups, slots>>
      \/ /\ kinds[e.session] = None /\ e.session \notin lookups
         /\ slots < LookupSlots
         /\ At("lineage", FALSE)
         /\ lookups' = lookups \union {e.session} /\ slots' = slots + 1
         /\ UNCHANGED kinds

\* By the event's type, which abort and error share, and the first id it carries.
DedupeKey(e) == <<IF e.type = "abort" THEN "error" ELSE e.type,
                  IF e.ask = None THEN e.session ELSE e.ask>>

\* permission.replied only disarms; the record stays for the user to check off.
HandleReplied(e) ==
  /\ armed' = armed \ {e.ask}
  /\ UNCHANGED <<job, kinds, lookups, slots, seen, aborted>>

HandleEcho(e) == DedupeKey(e) \in seen /\ UNCHANGED serviceVars

\* A question carries an id of its own: another one of its session is no echo.
HandleNew(e) ==
  /\ DedupeKey(e) \notin seen \/ e.type = "question"
  /\ seen' = seen \union {DedupeKey(e)}
  /\ aborted' = IF e.type = "abort" THEN aborted \union {e.session} ELSE aborted
  /\ IF e.type = "idle" /\ e.session \in aborted
       THEN UNCHANGED <<job, kinds, lookups, slots>>
       ELSE SomeFree /\ Begin(NextJob, e)
  /\ UNCHANGED armed

Handle ==
  /\ wire # <<>> /\ wire' = Tail(wire)
  /\ LET e == Head(wire) IN
       \/ e.type = "replied" /\ HandleReplied(e)
       \/ e.type # "replied" /\ (HandleEcho(e) \/ HandleNew(e))
  /\ UNCHANGED <<lineage, upstream, outside, auto, quiet, storeVars, file, restarts>>

\* Mutant: the slot of a lookup is not given back.
LookupKeepsSlot(s) ==
  /\ s \in lookups /\ lookups' = lookups \ {s} /\ slots' = slots
  /\ kinds' = [kinds EXCEPT ![s] = "unknown"]
  /\ job' = [j \in Jobs |->
       IF job[j].phase = "lineage" /\ job[j].session = s
         THEN [job[j] EXCEPT !.phase = "read"] ELSE job[j]]
  /\ UNCHANGED <<worldVars, storeVars, file, restarts, seen, aborted, armed>>

\* The lookup answers, or fails and counts as unknown; what session.created said
\* meanwhile wins. Every handler that waits for it goes on.
LookupSettles(s) ==
  /\ s \in lookups /\ lookups' = lookups \ {s} /\ slots' = slots - 1
  /\ \E answer \in {lineage[s], "unknown"} :
       LET kind == IF kinds[s] = None THEN answer ELSE kinds[s] IN
         /\ kinds' = [kinds EXCEPT ![s] = kind]
         /\ job' = [j \in Jobs |->
              IF job[j].phase = "lineage" /\ job[j].session = s
                THEN [job[j] EXCEPT !.phase = "read", !.child = (kind = "child")]
                ELSE job[j]]
  /\ UNCHANGED <<worldVars, storeVars, file, restarts, seen, aborted, armed>>

\* session.created and session.updated name the parent.
MetadataObserved(s) ==
  /\ kinds' = [kinds EXCEPT ![s] = lineage[s]]
  /\ OutsideStep
  /\ UNCHANGED <<lineage, upstream, wire, auto, quiet, storeVars, file, restarts,
                 job, lookups, slots, seen, aborted, armed>>

\* Caches and windows run out: five seconds, thirty seconds, five minutes.
TimePasses ==
  /\ \/ \E k \in seen : seen' = seen \ {k} /\ UNCHANGED <<aborted, kinds>>
     \/ \E s \in aborted : aborted' = aborted \ {s} /\ UNCHANGED <<seen, kinds>>
     \/ \E s \in Sessions : /\ kinds[s] # None
                            /\ kinds' = [kinds EXCEPT ![s] = None]
                            /\ UNCHANGED <<seen, aborted>>
  /\ OutsideStep
  /\ UNCHANGED <<lineage, upstream, wire, auto, quiet, storeVars, file, restarts, job, lookups, slots, armed>>

KindOff(j, type) == job[j].quiet /\ type \in QuietKinds

\* Mutant: the verdict comes from preferences read again after the sends.
VerdictReread(j) ==
  IF quiet /\ job[j].type \in QuietKinds THEN "preference-off" ELSE None

\* pendingDelivery and deliver: both from the preferences the handler read.
Verdict(j) == IF KindOff(j, job[j].type) THEN "preference-off" ELSE None

\* store.read(), then what the kind still has to wait for.
ReadPreferences(j) ==
  LET me == job[j]
      Next1(phase, supp) ==
        job' = [job EXCEPT ![j] = [@ EXCEPT !.phase = phase, !.quiet = quiet,
                                            !.supp = supp]]
      hidden  == me.child /\ me.type # "permission"
      excerpt == me.type = "idle" /\ ~hidden /\ slots < LookupSlots
  IN  /\ me.phase = "read"
      /\ \/ me.type = "permission" /\ Next1("auto", None)
         \/ hidden /\ Next1("append", "subagent")
         \/ excerpt /\ Next1("excerpt", None)
         \/ me.type # "permission" /\ ~hidden /\ ~excerpt /\ Next1("append", None)
      /\ slots' = IF excerpt THEN slots + 1 ELSE slots
      /\ UNCHANGED <<worldVars, storeVars, file, restarts,
                     kinds, lookups, seen, aborted, armed>>

\* excerptFor ends, with or without an excerpt.
ExcerptEnds(j) ==
  /\ job[j].phase = "excerpt" /\ slots' = slots - 1 /\ Moves(j, "append")
  /\ UNCHANGED <<worldVars, storeVars, file, restarts,
                 kinds, lookups, seen, aborted, armed>>

\* Mutant: the lineage gate an escalation used to have.
AutoCheckedByLineage(j) ==
  /\ job[j].phase = "auto"
  /\ IF job[j].type = "permission" THEN Moves(j, "append")
     ELSE IF lineage[job[j].session] = "child" THEN Ends(j, "done")
     ELSE Moves(j, "pending")
  /\ UNCHANGED <<worldVars, storeVars, file, restarts,
                 kinds, lookups, slots, seen, aborted, armed>>

\* An ask of an auto-approved directory is recorded, not delivered; its
\* escalation ends here.
AutoChecked(j) ==
  /\ job[j].phase = "auto"
  /\ \/ /\ auto /\ job[j].type = "permission"
        /\ job' = [job EXCEPT ![j] = [@ EXCEPT !.phase = "append",
                                               !.supp = "auto-permissions"]]
     \/ auto /\ job[j].type = "parked" /\ Ends(j, "done")
     \/ ~auto /\ Moves(j, IF job[j].type = "parked" THEN "pending" ELSE "append")
  /\ UNCHANGED <<worldVars, storeVars, file, restarts,
                 kinds, lookups, slots, seen, aborted, armed>>

AppendRecord(j) ==
  /\ job[j].phase = "append"
  /\ LET settled == job[j].supp \in {"subagent", "auto-permissions"} IN
       /\ Append1(j, IF settled THEN job[j].supp ELSE Verdict(j))
       /\ IF settled THEN Ends(j, "done") ELSE Moves(j, "settle")
  /\ UNCHANGED <<worldVars, file, restarts,
                 kinds, lookups, slots, seen, aborted, armed>>

\* deliver() is over: setDelivery, then arm the escalation or stamp the ask.
Settle(j) ==
  /\ job[j].phase = "settle"
  /\ records' = [i \in DOMAIN records |->
                   IF records[i].job = j THEN [records[i] EXCEPT !.supp = Verdict(j)]
                                         ELSE records[i]]
  /\ armed' = IF job[j].type = "permission" /\ ~KindOff(j, "parked")
                THEN armed \union {job[j].ask} ELSE armed
  /\ IF job[j].type = "parked" THEN Moves(j, "mark") ELSE Ends(j, "done")
  /\ UNCHANGED <<worldVars, revision, file, restarts,
                 kinds, lookups, slots, seen, aborted>>

\* The parked timer fires. late: the reply was already sent when it did.
Fire(a) ==
  /\ a \in armed /\ armed' = armed \ {a} /\ SomeFree
  /\ job' = [job EXCEPT ![NextJob] = [FreeJob EXCEPT
               !.phase = "auto", !.type = "parked", !.session = SessionOf[a],
               !.ask = a, !.late = (upstream[a] = "replied")]]
  /\ UNCHANGED <<worldVars, storeVars, file, restarts,
                 kinds, lookups, slots, seen, aborted>>

\* Mutant: the escalation trusts the timer alone.
PendingAssumed(j) ==
  /\ job[j].phase = "pending" /\ Moves(j, "read")
  /\ UNCHANGED <<worldVars, storeVars, file, restarts,
                 kinds, lookups, slots, seen, aborted, armed>>

\* isPermissionPending: no, yes, or the call fails and the escalation is dropped.
PendingChecked(j) ==
  /\ job[j].phase = "pending"
  /\ \/ upstream[job[j].ask] = "pending" /\ Moves(j, "read")
     \/ upstream[job[j].ask] # "pending" /\ Ends(j, "done")
     \/ Ends(j, "failed")
  /\ UNCHANGED <<worldVars, storeVars, file, restarts,
                 kinds, lookups, slots, seen, aborted, armed>>

\* markParked: the oldest record of the request is stamped.
MarkParked(j) ==
  LET asks == {i \in DOMAIN records : /\ job[records[i].job].type = "permission"
                                      /\ job[records[i].job].ask = job[j].ask}
  IN  /\ job[j].phase = "mark" /\ Ends(j, "done")
      /\ records' = IF asks = {} THEN records
                    ELSE [records EXCEPT ![Min(asks)].parked = TRUE]
      /\ UNCHANGED <<worldVars, revision, file, restarts,
                     kinds, lookups, slots, seen, aborted, armed>>

JobStep(j) == \/ ReadPreferences(j) \/ ExcerptEnds(j) \/ AutoChecked(j)
              \/ AppendRecord(j) \/ Settle(j) \/ PendingChecked(j) \/ MarkParked(j)

\* Node runs what is due, lookups time out, timers fire. All of it is finite work,
\* so one fairness condition starves no part of it.
Due == \/ Handle
       \/ \E j \in Jobs : JobStep(j)
       \/ \E s \in Sessions : LookupSettles(s)
       \/ \E a \in Asks : Fire(a)

Next == \/ Due \/ Outside \/ TimePasses \/ UserResolves \/ Flush \/ Restart
        \/ \E s \in Sessions : MetadataObserved(s)

Spec == Init /\ [][Next]_vars

FairSpec == Spec /\ WF_vars(Due)

-------------------------------------------------------------------------------
(* Properties. *)

Kinds == {"permission", "idle", "question", "error", "abort", "parked"}

RecordOK(r) == /\ r.job \in Jobs /\ r.supp \in Suppressions \union {None}
               /\ r.active \in BOOLEAN /\ r.parked \in BOOLEAN

\* Types; of the settled records no more are kept than the limit. The other capped
\* category may exceed it until the next append: a late verdict puts a record there.
TypeOK ==
  /\ lineage \in [Sessions -> {"root", "child"}]
  /\ upstream \in [Asks -> {"none", "pending", "replied"}] /\ outside \in 0..MaxOutside
  /\ \A i \in DOMAIN wire : wire[i].type \in EventTypes
  /\ \A j \in Jobs : /\ job[j].phase \in Phases /\ job[j].type \in Kinds \union {None}
                    /\ job[j].supp \in Suppressions \union {None}
  /\ kinds \in [Sessions -> {"root", "child", "unknown", None}]
  /\ lookups \subseteq Sessions /\ slots \in 0..LookupSlots
  /\ aborted \subseteq Sessions /\ armed \subseteq Asks
  /\ \A i \in DOMAIN records : RecordOK(records[i])
  /\ revision \in Nat /\ file.revision \in Nat
  /\ Cardinality({i \in DOMAIN records : ~records[i].active}) <= HistoryLimit

\* The lookup budget is taken by exactly the reads in flight: nothing that ends,
\* fails or is shed keeps a slot, or the sub-agent gate would fail open for good.
BudgetBalanced ==
  slots = Cardinality(lookups) + Cardinality({j \in Jobs : job[j].phase = "excerpt"})

\* Only a known child's event is hidden as a sub-agent's, and never its request
\* for permission: what cannot be verified is told.
HidesOnlyChildren ==
  \A i \in DOMAIN records :
    LET by == job[records[i].job] IN
      records[i].supp = "subagent" => lineage[by.session] = "child" /\ by.type # "permission"

\* A reply may be handled while its ask is still in a handler, which arms the
\* timer afterwards: no request answered before the timer fired is escalated.
NoStaleEscalation ==
  \A i \in DOMAIN records : ~job[records[i].job].late

ServiceInv == TypeOK /\ BudgetBalanced /\ HidesOnlyChildren /\ NoStaleEscalation

\* While the server lives, the badge count never changes without a newer
\* revision: two snapshots with one revision agree, in whatever order they come.
CountMovesRevision ==
  [][restarts' = restarts =>
       /\ revision' >= revision
       /\ BadgeCount' # BadgeCount => revision' > revision]_vars

Unchecked(recs) == {recs[i].job : i \in {k \in DOMAIN recs :
                                           recs[k].active /\ Delivered(recs[k])}}

\* A delivered record stays on the list until the user checks it off: no cap, no
\* late delivery verdict and no reload of what was written takes it away.
UncheckedStays ==
  [][\/ UserResolves
     \/ Unchecked(IF restarts' = restarts THEN records ELSE file.records)
          \subseteq Unchecked(records')]_vars

Escalating(a) == \E j \in Jobs : /\ job[j].type = "parked" /\ job[j].ask = a
                                 /\ job[j].phase \in {"settle", "failed"}

\* A request whose timer is armed and that nobody answers is escalated, unless
\* the pending check fails, auto-permissions answers it or the server restarts.
StalledAskEscalates ==
  \A a \in Asks : a \in armed ~> \/ Escalating(a) \/ upstream[a] = "replied"
                                \/ auto \/ restarts > 0
================================================================================
