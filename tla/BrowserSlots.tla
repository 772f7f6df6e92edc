------------------------------- MODULE BrowserSlots -------------------------------
(* The live browser's slots (server/browser/manager.ts): one Chromium context,    *)
(* one page per session, opens that run one after another on a chain of promises, *)
(* closes that wait for the chain as they find it, and the reaper of idle pages.  *)
(* Chromium's own close events arrive when they arrive, and name only a session.  *)
EXTENDS Naturals, Sequences, FiniteSets

CONSTANTS Sessions,
          MaxPages,       \* config.maxPages
          MaxMade,        \* bound: pages ever created
          MaxContexts,    \* bound: browsers ever launched
          MaxQueue,       \* bound: opens on the chain
          MaxFaults       \* bound: launches, pages and contexts that fail

VARIABLES slots,          \* `pages`: session -> its page, 0 for none
          live,           \* the pages Chromium has
          owner, home,    \* page -> the session and the context it was made for
          fresh,          \* the pages used within the idle time
          streaming,      \* the pages with a stream
          context,        \* `context`: 0 or the one opens use
          running,        \* the contexts Chromium has
          launched, made, faults,
          opens,          \* `opening`: Seq of [session, at, ctx, page]; its head runs
          closing         \* caller -> its call of close, or the reaper's sweep

vars == <<slots, live, owner, home, fresh, streaming, context, running, launched,
          made, faults, opens, closing>>

PageIds == 1..MaxMade
ContextIds == 1..MaxContexts
Callers == {"delete", "reaper"}

Open(s) == [session |-> s, at |-> "begin", ctx |-> 0, page |-> 0]
Idle(k) == [at |-> "idle", session |-> CHOOSE s \in Sessions : TRUE, ahead |-> 0,
            page |-> 0, ctx |-> 0]

TypeOK ==
  /\ slots \in [Sessions -> 0..MaxMade] /\ live \subseteq PageIds
  /\ owner \in [PageIds -> Sessions] /\ home \in [PageIds -> 0..MaxContexts]
  /\ fresh \subseteq PageIds /\ streaming \subseteq PageIds
  /\ context \in 0..MaxContexts /\ running \subseteq ContextIds
  /\ launched \in 0..MaxContexts /\ made \in 0..MaxMade /\ faults \in 0..MaxFaults
  /\ opens \in Seq([session: Sessions, at: {"begin", "launch", "new", "attach", "goto"},
                    ctx: 0..MaxContexts, page: 0..MaxMade])
  /\ closing \in [Callers -> [at: {"idle", "wait", "page", "scan", "context"},
                              session: Sessions, ahead: 0..MaxQueue,
                              page: 0..MaxMade, ctx: 0..MaxContexts]]

Init ==
  /\ slots = [s \in Sessions |-> 0] /\ live = {} /\ running = {}
  /\ owner = [p \in PageIds |-> CHOOSE s \in Sessions : TRUE]
  /\ home = [p \in PageIds |-> 0]
  /\ fresh = {} /\ streaming = {} /\ context = 0
  /\ launched = 0 /\ made = 0 /\ faults = 0 /\ opens = <<>>
  /\ closing = [k \in Callers |-> Idle(k)]

Held == {s \in Sessions : slots[s] # 0}
Asked == Head(opens)

-------------------------------------------------------------------------------
(* open *)

RequestOpen(s) ==
  /\ Len(opens) < MaxQueue
  /\ opens' = Append(opens, Open(s))
  /\ UNCHANGED <<slots, live, owner, home, fresh, streaming, context, running,
                 launched, made, faults, closing>>

(* The chain's head moves to its next await, or ends and lets the next one in;   *)
(* a close that waits has one open less ahead of it.                             *)
Goes(at, ctx, page) ==
  /\ opens' = [opens EXCEPT ![1] = [@ EXCEPT !.at = at, !.ctx = ctx, !.page = page]]
  /\ UNCHANGED closing
Ends ==
  /\ opens' = Tail(opens)
  /\ closing' = [k \in Callers |->
       [closing[k] EXCEPT !.ahead = IF @ > 0 THEN @ - 1 ELSE 0]]

\* Mutant: the cap is looked at only while nothing holds a slot of its own.
BeginOverCap ==
  /\ opens # <<>> /\ Asked.at = "begin"
  /\ IF slots[Asked.session] # 0
     THEN fresh' = fresh \cup {slots[Asked.session]} /\ Goes("goto", 0, slots[Asked.session])
     ELSE /\ UNCHANGED fresh
          /\ IF Cardinality(Held) > MaxPages THEN Ends
             ELSE IF context # 0 THEN Goes("new", context, 0) ELSE Goes("launch", 0, 0)
  /\ UNCHANGED <<slots, live, owner, home, streaming, context, running, launched,
                 made, faults>>

(* openPage: an open page is used again; at the cap the open is refused and      *)
(* nothing is evicted; else the context is taken, launched when there is none.   *)
Begin ==
  /\ opens # <<>> /\ Asked.at = "begin"
  /\ \/ /\ slots[Asked.session] # 0
        /\ fresh' = fresh \cup {slots[Asked.session]}
        /\ Goes("goto", 0, slots[Asked.session])
     \/ /\ slots[Asked.session] = 0 /\ UNCHANGED fresh
        /\ \/ Cardinality(Held) >= MaxPages /\ Ends
           \/ Cardinality(Held) < MaxPages /\ context # 0 /\ Goes("new", context, 0)
           \/ Cardinality(Held) < MaxPages /\ context = 0 /\ Goes("launch", 0, 0)
  /\ UNCHANGED <<slots, live, owner, home, streaming, context, running, launched,
                 made, faults>>

Launched ==
  /\ opens # <<>> /\ Asked.at = "launch" /\ launched < MaxContexts
  /\ launched' = launched + 1
  /\ running' = running \cup {launched'}
  /\ context' = launched'
  /\ Goes("new", launched', 0)
  /\ UNCHANGED <<slots, live, owner, home, fresh, streaming, made, faults>>

(* The page is made in the context the open holds, whatever this.context is now. *)
NewPage ==
  /\ opens # <<>> /\ Asked.at = "new" /\ Asked.ctx \in running /\ made < MaxMade
  /\ made' = made + 1
  /\ live' = live \cup {made'}
  /\ owner' = [owner EXCEPT ![made'] = Asked.session]
  /\ home' = [home EXCEPT ![made'] = Asked.ctx]
  /\ fresh' = fresh \cup {made'}
  /\ Goes("attach", Asked.ctx, made')
  /\ UNCHANGED <<slots, streaming, context, running, launched, faults>>

(* The debugging session is there: the page takes its slot, and is navigated.    *)
TakeSlot ==
  /\ opens # <<>> /\ Asked.at = "attach" /\ Asked.page \in live
  /\ slots' = [slots EXCEPT ![Asked.session] = Asked.page]
  /\ Goes("goto", Asked.ctx, Asked.page)
  /\ UNCHANGED <<live, owner, home, fresh, streaming, context, running, launched,
                 made, faults>>

(* The launch, the page or its debugging session fails, and so does the open.    *)
OpenFails ==
  /\ opens # <<>>
  /\ \/ Asked.at = "new" /\ Asked.ctx \notin running /\ UNCHANGED faults
     \/ Asked.at = "attach" /\ Asked.page \notin live /\ UNCHANGED faults
     \/ /\ Asked.at \in {"launch", "new", "attach"} /\ faults < MaxFaults
        /\ faults' = faults + 1
  /\ Ends
  /\ UNCHANGED <<slots, live, owner, home, fresh, streaming, context, running,
                 launched, made>>

(* The navigation ends, loaded or not, and the open with it. *)
Loaded ==
  /\ opens # <<>> /\ Asked.at = "goto"
  /\ Ends
  /\ UNCHANGED <<slots, live, owner, home, fresh, streaming, context, running,
                 launched, made, faults>>

-------------------------------------------------------------------------------
(* Use of an open page: a stream that comes and goes, and time that passes. *)

Stream(s) ==
  /\ slots[s] # 0
  /\ \/ /\ slots[s] \notin streaming
        /\ streaming' = streaming \cup {slots[s]}
        /\ fresh' = fresh \cup {slots[s]}
     \/ slots[s] \in streaming /\ streaming' = streaming \ {slots[s]} /\ UNCHANGED fresh
  /\ UNCHANGED <<slots, live, owner, home, context, running, launched, made, faults,
                 opens, closing>>

Unused(p) ==
  /\ p \in fresh \ streaming
  /\ fresh' = fresh \ {p}
  /\ UNCHANGED <<slots, live, owner, home, streaming, context, running, launched,
                 made, faults, opens, closing>>

-------------------------------------------------------------------------------
(* close, for DELETE and session.deleted, and for the reaper *)

Calls(k, s) ==
  closing' = [closing EXCEPT ![k] = [Idle(k) EXCEPT !.at = "wait", !.session = s,
                                                    !.ahead = Len(opens)]]
RequestClose(s) ==
  /\ closing["delete"].at = "idle" /\ Calls("delete", s)
  /\ UNCHANGED <<slots, live, owner, home, fresh, streaming, context, running,
                 launched, made, faults, opens>>

Returns(k) ==
  closing' = [closing EXCEPT ![k] =
                IF k = "reaper" THEN [Idle(k) EXCEPT !.at = "scan"] ELSE Idle(k)]

(* The opens ahead are done: the slot is given up first, then the page closed.   *)
Release(k) ==
  LET s == closing[k].session
      p == slots[s]
  IN /\ closing[k].at = "wait" /\ closing[k].ahead = 0
     /\ \/ p = 0 /\ Returns(k) /\ UNCHANGED <<slots, streaming>>
        \/ /\ p # 0
           /\ slots' = [slots EXCEPT ![s] = 0]
           /\ streaming' = streaming \ {p}
           /\ closing' = [closing EXCEPT ![k].at = "page", ![k].page = p]
     /\ UNCHANGED <<live, owner, home, fresh, context, running, launched, made,
                    faults, opens>>

(* The page is closed: its close event deletes whatever its session's slot holds.*)
PageClosed(k) ==
  LET p == closing[k].page
  IN /\ closing[k].at = "page"
     /\ live' = live \ {p}
     /\ slots' = IF p \in live THEN [slots EXCEPT ![owner[p]] = 0] ELSE slots
     /\ Returns(k)
     /\ UNCHANGED <<owner, home, fresh, streaming, context, running, launched, made,
                    faults, opens>>

(* reapIdle: the next page that is neither used nor streamed is closed; when     *)
(* none is left and no slot is held, the context goes too.                       *)
Reap ==
  LET due == {s \in Held : slots[s] \notin streaming \cup fresh}
  IN /\ closing["reaper"].at \in {"idle", "scan"}
     /\ \/ \E s \in due : Calls("reaper", s) /\ UNCHANGED context
        \/ /\ due = {} /\ Held = {} /\ context # 0
           /\ closing' = [closing EXCEPT !["reaper"] =
                            [Idle("reaper") EXCEPT !.at = "context", !.ctx = context]]
           /\ context' = 0
        \/ /\ due = {} /\ (Held # {} \/ context = 0) /\ closing["reaper"].at = "scan"
           /\ closing' = [closing EXCEPT !["reaper"] = Idle("reaper")]
           /\ UNCHANGED context
     /\ UNCHANGED <<slots, live, owner, home, fresh, streaming, running, launched,
                    made, faults, opens>>

\* Mutant: a context that closes leaves the map of pages as it is.
KeepMap(c) ==
  /\ running' = running \ {c}
  /\ live' = {p \in live : home[p] # c}
  /\ context' = 0
  /\ UNCHANGED slots

(* A context's close event empties the whole map, and forgets the context.       *)
ContextGone(c) ==
  /\ running' = running \ {c}
  /\ live' = {p \in live : home[p] # c}
  /\ context' = 0
  /\ slots' = [s \in Sessions |-> 0]

(* The reaper's context closes; or Chromium dies by itself. *)
ContextClosed(c) ==
  /\ c \in running
  /\ \/ /\ closing["reaper"].at = "context" /\ closing["reaper"].ctx = c
        /\ closing' = [closing EXCEPT !["reaper"] = Idle("reaper")]
        /\ UNCHANGED faults
     \/ /\ ~(closing["reaper"].at = "context" /\ closing["reaper"].ctx = c)
        /\ faults < MaxFaults /\ faults' = faults + 1 /\ UNCHANGED closing
  /\ ContextGone(c)
  /\ streaming' = {p \in streaming : home[p] # c}
  /\ UNCHANGED <<owner, home, fresh, launched, made, opens>>

Next ==
  \/ Begin \/ Launched \/ NewPage \/ TakeSlot \/ OpenFails \/ Loaded \/ Reap
  \/ \E s \in Sessions : RequestOpen(s) \/ RequestClose(s) \/ Stream(s)
  \/ \E p \in PageIds : Unused(p)
  \/ \E k \in Callers : Release(k) \/ PageClosed(k)
  \/ \E c \in ContextIds : ContextClosed(c)

Spec == Init /\ [][Next]_vars

-------------------------------------------------------------------------------
(* The slots never outnumber the cap, although an open looks at the cap before   *)
(* it launches a browser and takes its slot only afterwards (manager.ts:7).      *)
SlotsCapped == Cardinality(Held) <= MaxPages

(* A slot holds a page that Chromium still has and that was made for its session *)
(* whatever closes in between: a session is never left with a page that is gone. *)
SlotIsLive == \A s \in Held : slots[s] \in live /\ owner[slots[s]] = s

(* Why that is so. Only the open at the head of the chain has begun, and while it *)
(* is on its way to a slot there is room for it.                                 *)
OneOpenAtATime ==
  /\ Len(opens) <= MaxQueue
  /\ \A i \in DOMAIN opens : i > 1 => opens[i].at = "begin"
RoomForOpen ==
  /\ IsFiniteSet(Held)
  /\ opens # <<>> /\ Asked.at \in {"launch", "new", "attach"} => Cardinality(Held) < MaxPages

(* No page is numbered yet to be made, and the page that is about to take a slot *)
(* was made for the session that takes it.                                       *)
PagesAreMade ==
  /\ live \subseteq 1..made
  /\ opens # <<>> /\ Asked.at = "attach" =>
       Asked.page \in 1..made /\ owner[Asked.page] = Asked.session

SlotsInv == SlotsCapped /\ SlotIsLive /\ OneOpenAtATime /\ RoomForOpen /\ PagesAreMade

(* A page nobody is opening or closing has its slot: only then do the cap and    *)
(* the reaper see it ("Hard cap on live pages", manager.ts:7).                   *)
LivePageHasSlot ==
  \A p \in live :
    \/ slots[owner[p]] = p
    \/ opens # <<>> /\ Asked.page = p
    \/ \E k \in Callers : closing[k].at = "page" /\ closing[k].page = p
================================================================================
