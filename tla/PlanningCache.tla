------------------------------ MODULE PlanningCache ------------------------------
(* The planning snapshot (server/github-planning.ts): several tabs read the list of *)
(* issues, one load at a time serves them all and is kept for a while, and a write  *)
(* to GitHub throws away what was read before it. A content is its version.         *)
EXTENDS Naturals, FiniteSets

CONSTANTS
  Tabs,      \* who asks for the list, and who writes
  Loads,     \* bound: loads at a time, those a write has cut off included
  MaxVersion,\* bound: changes at GitHub
  None

VARIABLES
  version,   \* of the repository at GitHub
  acked,     \* ghost: the newest version whose writer was told of it
  cached,    \* the version of the snapshot kept, or None
  inFlight,  \* the load that whoever comes now joins, or None
  gen,       \* cacheGeneration
  load,      \* load[l]: its generation, and the version it read first
  asks,      \* asks[t]: the load a tab waits for
  need,      \* ghost: need[t], what was acked when the tab asked
  shown,     \* shown[t]: the version of the answer
  write      \* write[t]: the version its write made, 0 while it is on its way, or None

cache == <<cached, inFlight, gen, load>>
tabs  == <<asks, need, shown>>
vars  == <<version, acked, cache, tabs, write>>

Free == [on |-> FALSE, gen |-> 0, ver |-> None]

Init ==
  /\ version = 1 /\ acked = 1 /\ cached = None /\ inFlight = None /\ gen = 0
  /\ load = [l \in Loads |-> Free] /\ asks = [t \in Tabs |-> None]
  /\ need = [t \in Tabs |-> 1] /\ shown = [t \in Tabs |-> None] /\ write = [t \in Tabs |-> None]

\* Someone else changes an issue.
Changes ==
  /\ version < MaxVersion /\ version' = version + 1
  /\ UNCHANGED <<acked, cache, tabs, write>>

-------------------------------------------------------------------------------
(* getPlanningSnapshot *)

Joins(t, l) == asks' = [asks EXCEPT ![t] = l] /\ shown' = [shown EXCEPT ![t] = None]

Starts(t) ==
  \E l \in Loads :
    /\ ~load[l].on /\ Joins(t, l) /\ inFlight' = l
    /\ load' = [load EXCEPT ![l] = [Free EXCEPT !.on = TRUE, !.gen = gen]]
    /\ UNCHANGED <<cached, gen>>

\* Mutant: a refresh does not wait for the load on its way.
GetAgain(t, refresh) ==
  /\ asks[t] = None /\ need' = [need EXCEPT ![t] = acked]
  /\ IF refresh \/ (cached = None /\ inFlight = None) THEN Starts(t)
     ELSE /\ UNCHANGED cache
          /\ IF cached # None THEN shown' = [shown EXCEPT ![t] = cached] /\ UNCHANGED asks
             ELSE Joins(t, inFlight)
  /\ UNCHANGED <<version, acked, write>>

Get(t, refresh) ==
  /\ asks[t] = None /\ need' = [need EXCEPT ![t] = acked]
  /\ IF ~refresh /\ cached # None
       THEN shown' = [shown EXCEPT ![t] = cached] /\ UNCHANGED <<cache, asks>>
       ELSE IF inFlight # None THEN Joins(t, inFlight) /\ UNCHANGED cache
       ELSE Starts(t)
  /\ UNCHANGED <<version, acked, write>>

\* Its pages come one after the other: none is older than the first.
Reads(l) ==
  /\ load[l].on /\ load[l].ver = None /\ load' = [load EXCEPT ![l].ver = version]
  /\ UNCHANGED <<version, acked, cached, inFlight, gen, tabs, write>>

\* finally: the load is over, for the tabs that joined it too.
Over(l, ver) ==
  /\ load' = [load EXCEPT ![l] = Free] /\ UNCHANGED <<gen, version, acked, need, write>>
  /\ inFlight' = IF inFlight = l THEN None ELSE inFlight
  /\ asks'  = [t \in Tabs |-> IF asks[t] = l THEN None ELSE asks[t]]
  /\ shown' = [t \in Tabs |-> IF asks[t] = l THEN ver ELSE shown[t]]

\* Mutant: a load is kept whatever was written since it began.
EndsKept(l) ==
  /\ load[l].on /\ load[l].ver # None /\ Over(l, load[l].ver) /\ cached' = load[l].ver

Ends(l) ==
  /\ load[l].on /\ load[l].ver # None /\ Over(l, load[l].ver)
  /\ cached' = IF load[l].gen = gen THEN load[l].ver ELSE cached

Fails(l) == load[l].on /\ Over(l, None) /\ UNCHANGED cached

\* cacheMs passes.
Expires == cached # None /\ cached' = None /\ UNCHANGED <<version, acked, inFlight, gen, load, tabs, write>>

-------------------------------------------------------------------------------
(* updatePlanningItemLabels, createPlanningIssue *)

WriteSent(t) ==
  /\ write[t] = None /\ write' = [write EXCEPT ![t] = 0]
  /\ UNCHANGED <<version, acked, cache, tabs>>

WriteMade(t) ==
  /\ write[t] = 0 /\ version < MaxVersion /\ version' = version + 1
  /\ write' = [write EXCEPT ![t] = version']
  /\ UNCHANGED <<acked, cache, tabs>>

\* Mutant: tabs go on joining the load on its way.
InvalidateKept == gen' = gen + 1 /\ cached' = None /\ UNCHANGED <<inFlight, load>>

Invalidate == gen' = gen + 1 /\ cached' = None /\ inFlight' = None /\ UNCHANGED load

WriteAnswered(t) ==
  /\ write[t] \notin {None, 0} /\ write' = [write EXCEPT ![t] = None]
  /\ acked' = IF write[t] > acked THEN write[t] ELSE acked
  /\ Invalidate /\ UNCHANGED <<version, tabs>>

\* The answer is lost or not to be trusted: an error, whether or not it was made.
WriteLost(t) ==
  /\ write[t] # None /\ write' = [write EXCEPT ![t] = None]
  /\ UNCHANGED <<version, acked, cache, tabs>>

Next == \/ Changes \/ Expires
        \/ (\E t \in Tabs, refresh \in BOOLEAN : Get(t, refresh))
        \/ (\E l \in Loads : Reads(l) \/ Ends(l) \/ Fails(l))
        \/ (\E t \in Tabs : WriteSent(t) \/ WriteMade(t) \/ WriteAnswered(t) \/ WriteLost(t))

Spec == Init /\ [][Next]_vars
-------------------------------------------------------------------------------
Versions == 1..MaxVersion \union {None}
TypeOK ==
  /\ version \in 1..MaxVersion /\ acked \in 1..version /\ cached \in Versions
  /\ inFlight \in Loads \union {None} /\ gen \in Nat
  /\ load \in [Loads -> [on : BOOLEAN, gen : Nat, ver : Versions]]
  /\ asks \in [Tabs -> Loads \union {None}] /\ shown \in [Tabs -> Versions]
  /\ need \in [Tabs -> 1..MaxVersion] /\ write \in [Tabs -> 0..MaxVersion \union {None}]

\* Who asks after a write was answered is shown that write, whoever's it was and
\* however many loads it has cut off.
WriteIsShown == \A t \in Tabs : shown[t] # None => shown[t] >= need[t]

\* The tabs of one generation share one load.
LoadsCoalesce ==
  /\ Cardinality({l \in Loads : load[l].on /\ load[l].gen = gen}) <= 1
  /\ \A l \in Loads : load[l].on /\ load[l].gen = gen => inFlight = l

\* Why that is so: what is kept, and what the load of this generation has read, is as new
\* as any write that was answered; a load is as new as its tabs need, whatever its
\* generation; and no answer is ahead of GitHub.
KeptIsNew ==
  /\ cached # None => cached >= acked
  /\ inFlight # None => load[inFlight].on /\ load[inFlight].gen = gen
  /\ \A l \in Loads :
       /\ load[l].gen <= gen
       /\ load[l].on /\ load[l].gen = gen /\ load[l].ver # None => load[l].ver >= acked
JoinedIsNew ==
  \A t \in Tabs :
    /\ need[t] <= acked
    /\ asks[t] # None =>
         load[asks[t]].on /\ (load[asks[t]].ver # None => load[asks[t]].ver >= need[t])
WritesAreMade == \A t \in Tabs : write[t] # None => write[t] <= version

PlanningInv == WriteIsShown /\ LoadsCoalesce /\ KeptIsNew /\ JoinedIsNew /\ WritesAreMade
================================================================================
