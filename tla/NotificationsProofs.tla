-------------------------- MODULE NotificationsProofs --------------------------
(* What TLAPS proves of the notification service, for any sessions, requests,    *)
(* handlers, lookup slots and history limit: what is hidden, escalated, counted   *)
(* and kept.                                                                      *)
EXTENDS Notifications, FiniteSetTheorems, WellFoundedInduction, TLAPS

-------------------------------------------------------------------------------
(* Places of the history, and its caps. *)

\* Some place of a set of places is the lowest.
LEMMA LowestPlace ==
  ASSUME NEW S \in SUBSET Nat, S # {}
  PROVE  \E m \in S : \A k \in S : m <= k
<1>1. PICK m \in S : \A c \in S : <<c, m>> \notin OpToRel(<, Nat)
  BY WFMin, NatLessThanWellFounded
<1>2. \A c, d \in Nat : c < d => <<c, d>> \in OpToRel(<, Nat)
  BY DEF OpToRel
<1>3. S \subseteq Nat
  OBVIOUS
<1>4. \A c \in S : ~(c < m)
  BY <1>1, <1>2, <1>3, Zenon
<1>5. m \in Nat /\ \A c \in S : c \in Nat
  BY <1>1, <1>3
<1>6. \A c \in S : m <= c
  BY <1>4, <1>5
<1> QED
  BY <1>6

\* Some place of a finite set of places is the highest: the one with the fewest above.
LEMMA HighestPlace ==
  ASSUME NEW S \in SUBSET Nat, IsFiniteSet(S), S # {}
  PROVE  \E m \in S : \A k \in S : m >= k
<1> DEFINE Above(i) == {k \in S : k > i}
           counts == {Cardinality(Above(i)) : i \in S}
<1>1. ASSUME NEW i \in S PROVE IsFiniteSet(Above(i)) /\ Cardinality(Above(i)) \in Nat
  BY FS_Subset, FS_CardinalityType
<1>2. counts \in SUBSET Nat /\ counts # {}
  BY <1>1
<1> HIDE DEF Above
<1>3. PICK c \in counts : \A d \in counts : c <= d
  <2> HIDE DEF counts
  <2> QED
    BY <1>2, LowestPlace
<1>4. PICK m \in S : \A i \in S : Cardinality(Above(m)) <= Cardinality(Above(i))
  BY <1>3
<1>5. ASSUME NEW k \in S, k > m PROVE FALSE
  <2>0. m \in Nat /\ k \in Nat /\ \A i \in S : i \in Nat
    BY <1>4, <1>5
  <2>1. Above(k) \subseteq Above(m) /\ k \in Above(m) /\ k \notin Above(k)
    <3>1. \A i, j \in S : j \in Above(i) <=> j > i
      BY DEF Above
    <3>2. \A j \in S : j > k => j > m
      BY <1>5, <2>0
    <3>3. ~(k > k) /\ Above(k) \subseteq S
      BY <2>0 DEF Above
    <3> QED
      BY <1>5, <3>1, <3>2, <3>3
  <2>2. Cardinality(Above(k)) <= Cardinality(Above(m)) /\ Above(k) # Above(m)
    BY <1>1, <2>1, FS_Subset
  <2>3. Cardinality(Above(m)) # Cardinality(Above(k))
    BY <1>1, <2>1, <2>2, FS_Subset
  <2> QED
    BY <1>1, <1>4, <2>2, <2>3
<1> QED
  BY <1>4, <1>5

\* The places with fewer than a limit of places above them are no more than the limit.
LEMMA FewAbove ==
  ASSUME NEW S \in SUBSET Nat, IsFiniteSet(S), NEW limit \in Nat,
         NEW T, T \subseteq S,
         \A i \in T : Cardinality({k \in S : k > i}) < limit
  PROVE  IsFiniteSet(T) /\ Cardinality(T) <= limit
<1>1. IsFiniteSet(T) /\ Cardinality(T) \in Nat
  BY FS_Subset, FS_CardinalityType
<1>2. CASE T = {}
  BY <1>1, <1>2, FS_EmptySet
<1>3. CASE T # {}
  <2>1. PICK m \in T : \A k \in T : m <= k
    BY <1>3, LowestPlace
  <2> DEFINE above == {k \in S : k > m}
  <2>2. IsFiniteSet(above) /\ Cardinality(above) \in Nat /\ Cardinality(above) < limit
    BY <2>1, FS_Subset, FS_CardinalityType
  <2>3. T \subseteq above \union {m}
    BY <2>1
  <2> HIDE DEF above
  <2>4. /\ IsFiniteSet(above \union {m})
        /\ Cardinality(above \union {m}) <= Cardinality(above) + 1
        /\ Cardinality(above \union {m}) \in Nat
    <3>1. /\ IsFiniteSet(above \union {m})
          /\ Cardinality(above \union {m}) =
               IF m \in above THEN Cardinality(above) ELSE Cardinality(above) + 1
      BY <2>2, FS_AddElement
    <3> QED
      BY <2>2, <3>1, FS_CardinalityType
  <2>5. Cardinality(T) <= Cardinality(above \union {m})
    BY <2>3, <2>4, FS_Subset
  <2> QED
    BY <1>1, <2>2, <2>4, <2>5
<1> QED
  BY <1>2, <1>3

\* A history: finitely many records, each at its place.
Record == [job : Jobs, supp : Suppressions \union {None}, active : BOOLEAN, parked : BOOLEAN]

IsHistory(recs) ==
  /\ DOMAIN recs \in SUBSET Nat /\ IsFiniteSet(DOMAIN recs)
  /\ \A i \in DOMAIN recs : recs[i] \in Record

Settled(recs) == {i \in DOMAIN recs : ~recs[i].active}

\* A cap takes records of its category only, and leaves no more than the limit of it.
LEMMA CapOldestTakes ==
  ASSUME NEW recs, IsHistory(recs), NEW S, S \subseteq DOMAIN recs
  PROVE  /\ IsHistory(CapOldest(recs, S))
         /\ DOMAIN CapOldest(recs, S) \subseteq DOMAIN recs
         /\ \A i \in DOMAIN CapOldest(recs, S) : CapOldest(recs, S)[i] = recs[i]
         /\ \A i \in DOMAIN recs : i \notin S => i \in DOMAIN CapOldest(recs, S)
         /\ Cardinality(S \intersect DOMAIN CapOldest(recs, S)) <= HistoryLimit
<1> DEFINE capped == CapOldest(recs, S)
           keep == {i \in DOMAIN recs : i \in S =>
                                        Cardinality({k \in S : k > i}) < HistoryLimit}
<1>1. DOMAIN capped = keep /\ \A i \in keep : capped[i] = recs[i]
  BY DEF CapOldest, Restrict
<1>2. IsHistory(capped)
  <2>1. IsFiniteSet(keep)
    BY FS_Subset DEF IsHistory
  <2> QED
    BY <1>1, <2>1 DEF IsHistory
<1>3. Cardinality(S \intersect keep) <= HistoryLimit
  <2>1. S \in SUBSET Nat /\ IsFiniteSet(S)
    BY FS_Subset DEF IsHistory
  <2> QED
    BY <2>1, FewAbove, NotificationsAssumption
<1> HIDE DEF capped
<1>4. /\ IsHistory(capped) /\ DOMAIN capped \subseteq DOMAIN recs
      /\ \A i \in DOMAIN capped : capped[i] = recs[i]
      /\ \A i \in DOMAIN recs : i \notin S => i \in DOMAIN capped
      /\ Cardinality(S \intersect DOMAIN capped) <= HistoryLimit
  BY <1>1, <1>2, <1>3
<1> QED
  BY <1>4 DEF capped

\* Pruning takes no delivered record that is not checked off, and bounds what is.
LEMMA PruneKeeps ==
  ASSUME NEW recs, IsHistory(recs)
  PROVE  /\ IsHistory(Prune(recs))
         /\ DOMAIN Prune(recs) \subseteq DOMAIN recs
         /\ \A i \in DOMAIN Prune(recs) : Prune(recs)[i] = recs[i]
         /\ \A i \in DOMAIN recs : recs[i].active /\ Delivered(recs[i]) => i \in DOMAIN Prune(recs)
         /\ Cardinality(Settled(Prune(recs))) <= HistoryLimit
<1> DEFINE few == CapResolved(recs)
           noise == {i \in DOMAIN few : few[i].active /\ ~Delivered(few[i])}
<1>1. /\ IsHistory(few) /\ DOMAIN few \subseteq DOMAIN recs
      /\ \A i \in DOMAIN few : few[i] = recs[i]
      /\ \A i \in DOMAIN recs : recs[i].active => i \in DOMAIN few
      /\ Cardinality(Settled(recs) \intersect DOMAIN few) <= HistoryLimit
  <2>1. Settled(recs) \subseteq DOMAIN recs
    BY DEF Settled
  <2> QED
    BY <2>1, CapOldestTakes DEF CapResolved, Settled
<1>2. Prune(recs) = CapOldest(few, noise) /\ noise \subseteq DOMAIN few
  BY DEF Prune
<1> HIDE DEF few
<1>3. /\ IsHistory(CapOldest(few, noise)) /\ DOMAIN CapOldest(few, noise) \subseteq DOMAIN few
      /\ \A i \in DOMAIN CapOldest(few, noise) : CapOldest(few, noise)[i] = few[i]
      /\ \A i \in DOMAIN few : i \notin noise => i \in DOMAIN CapOldest(few, noise)
  <2> HIDE DEF noise
  <2> QED
    BY <1>1, <1>2, CapOldestTakes
<1>4. Settled(Prune(recs)) \subseteq Settled(recs) \intersect DOMAIN few
  BY <1>1, <1>2, <1>3 DEF Settled
<1>5. IsFiniteSet(Settled(recs) \intersect DOMAIN few)
  BY <1>1, FS_Intersection DEF IsHistory
<1>6. Cardinality(Settled(Prune(recs))) <= HistoryLimit
  <2>1. /\ Cardinality(Settled(Prune(recs))) <= Cardinality(Settled(recs) \intersect DOMAIN few)
        /\ IsFiniteSet(Settled(Prune(recs)))
    BY <1>4, <1>5, FS_Subset
  <2>2. /\ Cardinality(Settled(Prune(recs))) \in Nat
        /\ Cardinality(Settled(recs) \intersect DOMAIN few) \in Nat
    BY <1>5, <2>1, FS_CardinalityType
  <2> QED
    BY <1>1, <2>1, <2>2, NotificationsAssumption
<1> QED
  BY <1>1, <1>2, <1>3, <1>6

-------------------------------------------------------------------------------
(* The inductive invariant, in parts. *)

Events == {e \in [type : EventTypes, session : Sessions, ask : Asks \union {None}] :
             e.type \in {"permission", "replied"} => e.ask \in Asks}

WorldKept ==
  /\ lineage \in [Sessions -> {"root", "child"}]
  /\ upstream \in [Asks -> {"none", "pending", "replied"}] /\ outside \in 0..MaxOutside
  /\ wire \in Seq(Events) /\ auto \in BOOLEAN /\ quiet \in BOOLEAN /\ restarts \in Nat

JobRows ==
  [phase : Phases, type : Kinds \union {None}, session : Sessions \union {None},
   ask : Asks \union {None}, child : BOOLEAN, quiet : BOOLEAN,
   supp : Suppressions \union {None}, late : BOOLEAN]

\* What a handler that has begun knows: it takes a session for a child only if it
\* is one; and a late escalation has not come past the pending check.
JobKept(r) ==
  r.phase # "free" =>
    /\ r.type \in Kinds /\ r.session \in Sessions
    /\ r.type \in {"permission", "parked"} => r.ask \in Asks
    /\ r.child => lineage[r.session] = "child"
    /\ r.supp = "subagent" => lineage[r.session] = "child" /\ r.type # "permission"
    /\ r.late => /\ r.type = "parked" /\ upstream[r.ask] = "replied"
                 /\ r.phase \in {"auto", "pending", "done", "failed"}

JobsKept == job \in [Jobs -> JobRows] /\ \A j \in Jobs : JobKept(job[j])

CacheKept ==
  /\ kinds \in [Sessions -> {"root", "child", "unknown", None}]
  /\ \A s \in Sessions : kinds[s] = "child" => lineage[s] = "child"
  /\ lookups \subseteq Sessions /\ aborted \subseteq Sessions /\ armed \subseteq Asks

Excerpts == {j \in Jobs : job[j].phase = "excerpt"}

BudgetKept ==
  /\ IsFiniteSet(lookups) /\ IsFiniteSet(Excerpts)
  /\ slots = Cardinality(lookups) + Cardinality(Excerpts) /\ slots <= LookupSlots

\* Past its append a handler has a record, and what it says of the record is known.
Over == {"settle", "mark", "done", "failed"}

Told(r) ==
  LET by == job[r.job] IN
    /\ by.phase \in Over /\ ~by.late
    /\ r.supp = "subagent" => lineage[by.session] = "child" /\ by.type # "permission"
    /\ by.phase = "settle" => r.supp = Verdict(r.job)

ToldAll(recs) == \A i \in DOMAIN recs : Told(recs[i])

StoreKept ==
  /\ revision \in Nat /\ IsHistory(records) /\ ToldAll(records)
  /\ Cardinality(Settled(records)) <= HistoryLimit

FileKept == file.revision \in Nat /\ IsHistory(file.records) /\ ToldAll(file.records)

ServiceKept ==
  WorldKept /\ JobsKept /\ CacheKept /\ BudgetKept /\ StoreKept /\ FileKept

-------------------------------------------------------------------------------
(* What a step of the handlers keeps. *)

\* What a record says stays so: lineage is for good, and a handler past its append
\* stays what it is and never goes back to settle.
Steady ==
  /\ lineage' = lineage
  /\ \A k \in Jobs : job[k].phase \in Over =>
       /\ job'[k].phase \in Over /\ job'[k].type = job[k].type
       /\ job'[k].session = job[k].session /\ job'[k].late = job[k].late
       /\ job'[k].phase = "settle" => job[k].phase = "settle" /\ job'[k].quiet = job[k].quiet

\* What is told of a record is told of it after a steady step, whatever else is
\* stamped on it.
LEMMA ToldCarries ==
  ASSUME Steady, NEW r \in Record, Told(r), NEW t, t.job = r.job, t.supp = r.supp
  PROVE  Told(t)'
<1>1. r.job \in Jobs
  BY DEF Record
<1>2. job[r.job].phase \in Over
  BY DEF Told
<1> QED
  BY <1>1, <1>2 DEF Told, Steady, Verdict, KindOff

\* The records stay told of, where none is added and none changes its verdict.
LEMMA ToldAllCarries ==
  ASSUME Steady, IsHistory(records), ToldAll(records), DOMAIN records' \subseteq DOMAIN records,
         \A i \in DOMAIN records' : records'[i].job = records[i].job /\ records'[i].supp = records[i].supp
  PROVE  ToldAll(records)'
<1>1. ASSUME NEW i \in DOMAIN records' PROVE Told(records[i])'
  <2>1. PICK r, t : r = records[i] /\ t = records'[i]
    OBVIOUS
  <2>2. r \in Record /\ Told(r) /\ t.job = r.job /\ t.supp = r.supp
    BY <1>1, <2>1 DEF IsHistory, ToldAll
  <2>3. Told(t)'
    BY <2>2, ToldCarries
  <2> QED
    BY <2>1, <2>3 DEF Told, Verdict, KindOff
<1> QED
  BY <1>1 DEF ToldAll

\* Likewise for the records of the file, which a steady step leaves alone.
LEMMA FileCarries ==
  ASSUME Steady, FileKept, file' = file
  PROVE  FileKept'
<1>1. ASSUME NEW i \in DOMAIN file'.records PROVE Told(file.records[i])'
  <2>1. PICK r : r = file.records[i] /\ r = file'.records[i]
    OBVIOUS
  <2>2. r \in Record /\ Told(r)
    BY <1>1, <2>1 DEF FileKept, IsHistory, ToldAll
  <2>3. Told(r)'
    BY <2>2, ToldCarries
  <2> QED
    BY <2>1, <2>3 DEF Told, Verdict, KindOff
<1>2. ToldAll(file.records)'
  BY <1>1 DEF ToldAll
<1> QED
  BY <1>2 DEF FileKept, IsHistory

\* The store is kept where a steady step leaves it alone.
LEMMA StoreCarries ==
  ASSUME Steady, StoreKept, UNCHANGED storeVars
  PROVE  StoreKept'
<1>1. records' = records /\ revision' = revision
  BY DEF storeVars
<1>2. ToldAll(records)'
  BY <1>1, ToldAllCarries DEF StoreKept
<1> QED
  BY <1>1, <1>2 DEF StoreKept, IsHistory, Settled

\* The handlers, where a step leaves them alone and upstream takes no reply back.
LEMMA JobsCarry ==
  ASSUME JobsKept, job' = job, lineage' = lineage,
         \A a \in Asks : upstream[a] = "replied" => upstream'[a] = "replied"
  PROVE  JobsKept' /\ Steady /\ Excerpts' = Excerpts
<1>1. ASSUME NEW j \in Jobs PROVE JobKept(job[j])'
  BY DEF JobsKept, JobKept
<1>2. JobsKept'
  BY <1>1 DEF JobsKept
<1> QED
  BY <1>2 DEF Steady, Excerpts

\* One handler takes a step to a row that is kept.
OneStep(j, row) ==
  /\ JobsKept' /\ (job[j].phase \notin Over => Steady)
  /\ (job[j].phase # "excerpt" /\ row.phase # "excerpt" => Excerpts' = Excerpts)
  /\ (row.phase = "excerpt" => Excerpts' = Excerpts \union {j})
  /\ (job[j].phase = "excerpt" /\ row.phase # "excerpt" => Excerpts' = Excerpts \ {j})

\* So it is where the new row knows no more than it may.
LEMMA OneJob ==
  ASSUME JobsKept, NEW j \in Jobs, NEW row \in JobRows, JobKept(row),
         job' = [job EXCEPT ![j] = row], lineage' = lineage, upstream' = upstream
  PROVE  OneStep(j, row)
<1>1. job' \in [Jobs -> JobRows] /\ job'[j] = row /\ \A k \in Jobs : k # j => job'[k] = job[k]
  BY DEF JobsKept
<1>2. ASSUME NEW k \in Jobs PROVE JobKept(job[k])'
  <2>1. CASE k = j
    BY <1>1, <2>1 DEF JobKept
  <2>2. CASE k # j
    BY <1>1, <2>2 DEF JobsKept, JobKept
  <2> QED
    BY <2>1, <2>2
<1>3. JobsKept'
  BY <1>1, <1>2 DEF JobsKept
<1>4. job[j].phase \notin Over => Steady
  BY <1>1 DEF Steady
<1>5. /\ job[j].phase # "excerpt" /\ row.phase # "excerpt" => Excerpts' = Excerpts
      /\ row.phase = "excerpt" => Excerpts' = Excerpts \union {j}
      /\ job[j].phase = "excerpt" /\ row.phase # "excerpt" => Excerpts' = Excerpts \ {j}
  BY <1>1 DEF Excerpts
<1> QED
  BY <1>3, <1>4, <1>5 DEF OneStep

\* A handler only moves on.
LEMMA MoveKept ==
  ASSUME JobsKept, NEW j \in Jobs, NEW phase \in Phases, Moves(j, phase),
         job[j].phase # "free", lineage' = lineage, upstream' = upstream,
         job[j].late => phase \in {"auto", "pending", "done", "failed"}
  PROVE  \E row \in JobRows : row = [job[j] EXCEPT !.phase = phase] /\ OneStep(j, row)
<1>1. PICK old : old = job[j] /\ old \in JobRows /\ JobKept(old)
  BY DEF JobsKept
<1>2. PICK row : row = [old EXCEPT !.phase = phase]
  OBVIOUS
<1>3. row \in JobRows /\ row.phase = phase
  BY <1>1, <1>2 DEF JobRows
<1>4. /\ row.type = old.type /\ row.session = old.session /\ row.ask = old.ask
      /\ row.child = old.child /\ row.supp = old.supp /\ row.late = old.late
  BY <1>1, <1>2 DEF JobRows
<1>5. JobKept(row)
  BY <1>1, <1>3, <1>4 DEF JobKept
<1>6. job' = [job EXCEPT ![j] = row]
  BY <1>1, <1>2 DEF Moves, JobsKept
<1> QED
  BY <1>1, <1>2, <1>3, <1>5, <1>6, OneJob

\* A handler ends.
LEMMA EndKept ==
  ASSUME JobsKept, NEW j \in Jobs, NEW phase \in {"done", "failed"}, Ends(j, phase),
         job[j].phase # "free", lineage' = lineage, upstream' = upstream
  PROVE  \E row \in JobRows :
           /\ row.phase = phase /\ row.type = job[j].type /\ row.session = job[j].session
           /\ row.late = job[j].late
           /\ OneStep(j, row) /\ job' = [job EXCEPT ![j] = row]
<1>1. PICK old : old = job[j] /\ old \in JobRows /\ JobKept(old)
  BY DEF JobsKept
<1>2. PICK row : row = [old EXCEPT !.phase = phase, !.child = FALSE, !.quiet = FALSE]
  OBVIOUS
<1>3. row \in JobRows /\ row.phase = phase /\ row.child = FALSE
  BY <1>1, <1>2 DEF JobRows, Phases
<1>4. /\ row.type = old.type /\ row.session = old.session /\ row.ask = old.ask
      /\ row.supp = old.supp /\ row.late = old.late
  BY <1>1, <1>2 DEF JobRows
<1>5. JobKept(row)
  BY <1>1, <1>3, <1>4 DEF JobKept
<1>6. job' = [job EXCEPT ![j] = row]
  BY <1>1, <1>2 DEF Ends, JobsKept
<1> QED
  BY <1>1, <1>3, <1>4, <1>5, <1>6, OneJob

\* The budget is balanced where no excerpt begins or ends and no lookup either.
LEMMA BudgetCarries ==
  ASSUME BudgetKept, Excerpts' = Excerpts, UNCHANGED <<lookups, slots>>
  PROVE  BudgetKept'
BY DEF BudgetKept

\* The caches are kept where a step leaves them alone.
LEMMA CacheCarries ==
  ASSUME CacheKept, lineage' = lineage, UNCHANGED <<kinds, lookups, aborted, armed>>
  PROVE  CacheKept'
BY DEF CacheKept

-------------------------------------------------------------------------------
(* The initial state, and each step. *)

\* The invariant holds at the start.
LEMMA StartsKept ==
  ASSUME Init
  PROVE  ServiceKept
<1>1. WorldKept
  <2>1. wire \in Seq(Events)
    BY DEF Init
  <2>2. outside \in 0..MaxOutside
    BY NotificationsAssumption DEF Init
  <2> QED
    BY <2>1, <2>2 DEF Init, WorldKept
<1>2. JobsKept
  BY DEF Init, JobsKept, JobKept, FreeJob, JobRows, Phases
<1>3. CacheKept
  BY NotificationsAssumption DEF Init, CacheKept
<1>4. BudgetKept
  <2>1. Excerpts = {}
    BY DEF Init, Excerpts, FreeJob
  <2> QED
    BY <2>1, FS_EmptySet, NotificationsAssumption DEF Init, BudgetKept
<1>5. IsHistory(<<>>) /\ ToldAll(<<>>) /\ Settled(<<>>) = {}
  <2>1. DOMAIN <<>> = {}
    OBVIOUS
  <2> QED
    BY <2>1, FS_EmptySet DEF IsHistory, ToldAll, Settled
<1>6. StoreKept
  <2>1. records = <<>> /\ revision = 0
    BY DEF Init
  <2>2. IsHistory(records) /\ ToldAll(records) /\ Settled(records) = {}
    BY <1>5, <2>1
  <2>3. Cardinality({}) <= HistoryLimit
    BY FS_EmptySet, NotificationsAssumption
  <2> QED
    BY <2>1, <2>2, <2>3 DEF StoreKept
<1>7. FileKept
  BY <1>5 DEF Init, FileKept
<1> QED
  BY <1>1, <1>2, <1>3, <1>4, <1>6, <1>7 DEF ServiceKept

\* What upstream sends, and what the user switches, moves nothing of the service.
LEMMA OutsideKept ==
  ASSUME ServiceKept, Outside
  PROVE  ServiceKept'
<1>1. ASSUME NEW es \in Seq(Events), Send(es),
             upstream' \in [Asks -> {"none", "pending", "replied"}],
             \A a \in Asks : upstream[a] = "replied" => upstream'[a] = "replied"
      PROVE  ServiceKept'
  <2>1. /\ UNCHANGED <<job, kinds, lookups, slots, seen, aborted, armed>> /\ UNCHANGED storeVars
        /\ UNCHANGED <<lineage, auto, quiet, file, restarts>>
        /\ outside < MaxOutside /\ outside' = outside + 1 /\ wire' = wire \o es
    BY <1>1 DEF Send, serviceVars, OutsideStep
  <2>2. JobsKept' /\ Steady /\ Excerpts' = Excerpts
    BY <1>1, <2>1, JobsCarry DEF ServiceKept
  <2>3. WorldKept'
    <3>1. outside' \in 0..MaxOutside
      BY <2>1, NotificationsAssumption DEF ServiceKept, WorldKept
    <3>2. wire' \in Seq(Events)
      BY <1>1, <2>1 DEF ServiceKept, WorldKept
    <3> QED
      BY <1>1, <2>1, <3>1, <3>2 DEF ServiceKept, WorldKept
  <2> QED
    BY <2>1, <2>2, <2>3, StoreCarries, FileCarries, BudgetCarries, CacheCarries DEF ServiceKept
<1>2. \A type \in EventTypes, s \in Sessions :
        type \notin {"permission", "replied"} => Event(type, s, None) \in Events
  BY DEF Event, Events
<1>3. \A a \in Asks : /\ AskEvent(a) \in Events
                     /\ Event("replied", SessionOf[a], a) \in Events
  BY NotificationsAssumption DEF AskEvent, Event, Events, EventTypes
<1>4. upstream \in [Asks -> {"none", "pending", "replied"}]
  BY DEF ServiceKept, WorldKept
<1>5. ASSUME NEW a \in Asks, RequestOpens(a) PROVE ServiceKept'
  <2>1. <<AskEvent(a)>> \in Seq(Events)
    BY <1>3
  <2> QED
    BY <1>1, <1>4, <1>5, <2>1 DEF RequestOpens
<1>6. ASSUME NEW a \in Asks, Echo(a) PROVE ServiceKept'
  <2>1. <<AskEvent(a)>> \in Seq(Events)
    BY <1>3
  <2> QED
    BY <1>1, <1>4, <1>6, <2>1 DEF Echo
<1>7. ASSUME NEW a \in Asks, RequestReplied(a) PROVE ServiceKept'
  <2>1. <<Event("replied", SessionOf[a], a)>> \in Seq(Events)
    BY <1>3
  <2> QED
    BY <1>1, <1>4, <1>7, <2>1 DEF RequestReplied
<1>8. ASSUME NEW s \in Sessions, TurnRaises(s) PROVE ServiceKept'
  <2>1. PICK type \in TurnEvents : Send(<<Event(type, s, None)>>) /\ UNCHANGED upstream
    BY <1>8 DEF TurnRaises
  <2>2. type \in EventTypes /\ type \notin {"permission", "replied"}
    BY <2>1, NotificationsAssumption DEF EventTypes
  <2>3. <<Event(type, s, None)>> \in Seq(Events)
    BY <1>2, <2>2
  <2> QED
    BY <1>1, <1>4, <2>1, <2>3
<1>9. ASSUME NEW s \in Sessions, Stopped(s) PROVE ServiceKept'
  <2>1. Event("abort", s, None) \in Events /\ Event("idle", s, None) \in Events
    BY <1>2 DEF EventTypes
  <2>2. <<Event("abort", s, None), Event("idle", s, None)>> \in Seq(Events)
    BY <2>1
  <2> QED
    BY <1>1, <1>4, <1>9, <2>2 DEF Stopped
<1>10. CASE UserSwitches
  <2>1. /\ UNCHANGED <<job, kinds, lookups, slots, seen, aborted, armed>> /\ UNCHANGED storeVars
        /\ UNCHANGED <<lineage, upstream, wire, file, restarts>>
        /\ outside < MaxOutside /\ outside' = outside + 1
        /\ auto' \in {auto, ~auto} /\ quiet' \in {quiet, ~quiet}
    BY <1>10 DEF UserSwitches, serviceVars, OutsideStep
  <2>2. JobsKept' /\ Steady /\ Excerpts' = Excerpts
    BY <2>1, JobsCarry DEF ServiceKept
  <2>3. WorldKept'
    <3>1. outside' \in 0..MaxOutside
      BY <2>1, NotificationsAssumption DEF ServiceKept, WorldKept
    <3>2. auto' \in BOOLEAN /\ quiet' \in BOOLEAN
      BY <2>1 DEF ServiceKept, WorldKept
    <3> QED
      BY <2>1, <3>1, <3>2 DEF ServiceKept, WorldKept
  <2> QED
    BY <2>1, <2>2, <2>3, StoreCarries, FileCarries, BudgetCarries, CacheCarries DEF ServiceKept
<1> QED
  BY <1>5, <1>6, <1>7, <1>8, <1>9, <1>10 DEF Outside

\* A newer snapshot of the records is as well told of as the records.
LEMMA FlushKept ==
  ASSUME ServiceKept, Flush
  PROVE  ServiceKept'
<1>1. /\ UNCHANGED <<job, kinds, lookups, slots, seen, aborted, armed>> /\ UNCHANGED storeVars
      /\ UNCHANGED <<lineage, upstream, wire, outside, auto, quiet, restarts>>
      /\ file' = [records |-> records, revision |-> revision]
  BY DEF Flush, serviceVars, worldVars
<1>2. JobsKept' /\ Steady /\ Excerpts' = Excerpts
  BY <1>1, JobsCarry DEF ServiceKept
<1>3. WorldKept'
  BY <1>1 DEF ServiceKept, WorldKept
<1>4. StoreKept'
  BY <1>1, <1>2, StoreCarries DEF ServiceKept
<1>5. FileKept'
  <2>1. file'.records = records' /\ file'.revision = revision'
    BY <1>1 DEF storeVars
  <2> QED
    BY <1>4, <2>1 DEF StoreKept, FileKept, IsHistory, ToldAll, Told, Verdict, KindOff
<1> QED
  BY <1>1, <1>2, <1>3, <1>4, <1>5, BudgetCarries, CacheCarries DEF ServiceKept

\* The rows that a check or a reopening changes, and the records it makes of them.
Changed(S, resolved) == {i \in S : records[i].active = resolved}
Marked(S, resolved) ==
  [i \in DOMAIN records |->
     IF i \in Changed(S, resolved) THEN [records[i] EXCEPT !.active = ~resolved]
                                   ELSE records[i]]

\* Only the rows' check marks change.
LEMMA MarkedRows ==
  ASSUME IsHistory(records), NEW S \in SUBSET (DOMAIN records), NEW resolved \in BOOLEAN
  PROVE  /\ IsHistory(Marked(S, resolved)) /\ DOMAIN Marked(S, resolved) = DOMAIN records
         /\ \A i \in DOMAIN records :
              /\ Marked(S, resolved)[i].job = records[i].job
              /\ Marked(S, resolved)[i].supp = records[i].supp
              /\ ~resolved /\ records[i].active => Marked(S, resolved)[i].active
              /\ i \notin Changed(S, resolved) => Marked(S, resolved)[i] = records[i]
         /\ Counted(records, Changed(S, resolved)) \in Nat
         /\ Counted(records, Changed(S, resolved)) = 0 =>
              \A i \in Changed(S, resolved) : ~Delivered(records[i])
<1> DEFINE changed == Changed(S, resolved)
           marked  == Marked(S, resolved)
<1>1. ASSUME NEW i \in DOMAIN records
      PROVE  /\ marked[i] \in Record
             /\ marked[i].job = records[i].job /\ marked[i].supp = records[i].supp
             /\ ~resolved /\ records[i].active => marked[i].active
             /\ i \notin changed => marked[i] = records[i]
  <2>1. records[i] \in Record
    BY DEF IsHistory
  <2>2. CASE i \in changed
    <3>1. marked[i] = [records[i] EXCEPT !.active = ~resolved]
      BY <2>2 DEF Marked
    <3> HIDE DEF marked
    <3> QED
      BY <2>1, <2>2, <3>1 DEF Record
  <2>3. CASE i \notin changed
    <3>1. marked[i] = records[i]
      BY <2>3 DEF Marked
    <3> HIDE DEF marked
    <3> QED
      BY <2>1, <3>1
  <2> QED
    BY <2>2, <2>3
<1>2. DOMAIN marked = DOMAIN records
  BY DEF Marked
<1>3. /\ Counted(records, changed) \in Nat
      /\ Counted(records, changed) = 0 => \A i \in changed : ~Delivered(records[i])
  <2> DEFINE told == {i \in changed : Delivered(records[i])}
  <2>1. IsFiniteSet(told)
    BY FS_Subset DEF IsHistory, Changed
  <2>2. Cardinality(told) \in Nat /\ (Cardinality(told) = 0 => told = {})
    BY <2>1, FS_CardinalityType, FS_EmptySet
  <2> QED
    BY <2>2 DEF Counted
<1> HIDE DEF marked, changed
<1>4. IsHistory(marked)
  BY <1>1, <1>2 DEF IsHistory
<1> QED
  BY <1>1, <1>2, <1>3, <1>4 DEF marked, changed

\* Pruning takes none it must keep.
LEMMA ResolveKept ==
  ASSUME StoreKept, Steady, NEW S \in SUBSET (DOMAIN records), NEW resolved \in BOOLEAN,
         Resolve(S, resolved)
  PROVE  StoreKept'
<1>1. /\ records' = (IF resolved THEN Prune(Marked(S, resolved)) ELSE Marked(S, resolved))
      /\ revision' = revision + Counted(records, Changed(S, resolved))
  BY DEF Resolve, Marked, Changed
<1>2. IsHistory(records) /\ revision \in Nat /\ ToldAll(records)
      /\ Cardinality(Settled(records)) <= HistoryLimit
  BY DEF StoreKept
<1> DEFINE marked == Marked(S, resolved)
<1>3. /\ IsHistory(marked) /\ DOMAIN marked = DOMAIN records
      /\ \A i \in DOMAIN records :
           /\ marked[i].job = records[i].job /\ marked[i].supp = records[i].supp
           /\ ~resolved /\ records[i].active => marked[i].active
      /\ Counted(records, Changed(S, resolved)) \in Nat
  BY <1>2, MarkedRows
<1>4. records' = (IF resolved THEN Prune(marked) ELSE marked)
  BY <1>1
<1> HIDE DEF marked
<1>5. /\ IsHistory(records') /\ DOMAIN records' \subseteq DOMAIN records
      /\ \A i \in DOMAIN records' : records'[i] = marked[i]
      /\ Cardinality(Settled(records')) <= HistoryLimit
  <2>1. CASE resolved
    BY <1>3, <1>4, <2>1, PruneKeeps
  <2>2. CASE ~resolved
    <3>1. records' = marked
      BY <1>4, <2>2
    <3>2. Settled(marked) \subseteq Settled(records)
      BY <1>3, <2>2 DEF Settled
    <3>3. IsFiniteSet(Settled(records))
      BY <1>2, FS_Subset DEF IsHistory, Settled
    <3>4. /\ Cardinality(Settled(marked)) <= Cardinality(Settled(records))
          /\ Cardinality(Settled(marked)) \in Nat /\ Cardinality(Settled(records)) \in Nat
      BY <3>2, <3>3, FS_Subset, FS_CardinalityType
    <3>5. Cardinality(Settled(marked)) <= HistoryLimit
      BY <1>2, <3>4, NotificationsAssumption
    <3> QED
      BY <1>3, <3>1, <3>5
  <2> QED
    BY <2>1, <2>2
<1>6. ToldAll(records)'
  BY <1>2, <1>3, <1>5, ToldAllCarries
<1>7. IsHistory(records)' /\ (Cardinality(Settled(records)) <= HistoryLimit)'
  BY <1>5 DEF IsHistory, Settled
<1>8. revision' \in Nat
  BY <1>1, <1>2, <1>3
<1> QED
  BY <1>6, <1>7, <1>8 DEF StoreKept

\* The user's checks keep the invariant.
LEMMA UserResolvesKept ==
  ASSUME ServiceKept, UserResolves
  PROVE  ServiceKept'
<1>1. /\ UNCHANGED <<job, kinds, lookups, slots, seen, aborted, armed>>
      /\ UNCHANGED <<lineage, upstream, wire, auto, quiet, file, restarts>>
      /\ outside < MaxOutside /\ outside' = outside + 1
  BY DEF UserResolves, serviceVars, OutsideStep
<1>2. JobsKept' /\ Steady /\ Excerpts' = Excerpts
  BY <1>1, JobsCarry DEF ServiceKept
<1>3. WorldKept'
  <2>1. outside' \in 0..MaxOutside
    BY <1>1, NotificationsAssumption DEF ServiceKept, WorldKept
  <2> QED
    BY <1>1, <2>1 DEF ServiceKept, WorldKept
<1>4. StoreKept'
  <2>1. PICK S \in SUBSET (DOMAIN records), resolved \in BOOLEAN : Resolve(S, resolved)
    <3>1. \A i \in DOMAIN records : {i} \in SUBSET (DOMAIN records)
      OBVIOUS
    <3> QED
      BY <3>1 DEF UserResolves
  <2> QED
    BY <1>2, <2>1, ResolveKept DEF ServiceKept
<1> QED
  BY <1>1, <1>2, <1>3, <1>4, FileCarries, BudgetCarries, CacheCarries DEF ServiceKept

\* After a crash no handler is on its way, and the file's records are pruned again.
LEMMA RestartKept ==
  ASSUME ServiceKept, Restart
  PROVE  ServiceKept'
<1>1. /\ outside < MaxOutside /\ outside' = outside + 1 /\ restarts' = restarts + 1
      /\ job' = [j \in Jobs |-> IF job[j].phase = "free" THEN job[j]
                                ELSE [job[j] EXCEPT !.phase = "done"]]
      /\ kinds' = [s \in Sessions |-> None] /\ lookups' = {} /\ slots' = 0
      /\ aborted' = {} /\ armed' = {} /\ wire' = <<>>
      /\ records' = Prune(file.records) /\ revision' \in {file.revision, revision + 1}
      /\ UNCHANGED <<lineage, upstream, auto, quiet, file>>
  BY DEF Restart, OutsideStep
<1>2. /\ job \in [Jobs -> JobRows] /\ job' \in [Jobs -> JobRows]
      /\ \A j \in Jobs :
           /\ job[j].phase = "free" => job'[j].phase = "free"
           /\ job[j].phase # "free" => job'[j].phase = "done"
           /\ job'[j].type = job[j].type /\ job'[j].session = job[j].session
           /\ job'[j].ask = job[j].ask /\ job'[j].child = job[j].child
           /\ job'[j].supp = job[j].supp /\ job'[j].late = job[j].late
  <2>1. ASSUME NEW j \in Jobs
        PROVE  /\ job'[j] \in JobRows
               /\ job[j].phase = "free" => job'[j].phase = "free"
               /\ job[j].phase # "free" => job'[j].phase = "done"
               /\ job'[j].type = job[j].type /\ job'[j].session = job[j].session
               /\ job'[j].ask = job[j].ask /\ job'[j].child = job[j].child
               /\ job'[j].supp = job[j].supp /\ job'[j].late = job[j].late
    <3>1. job[j] \in JobRows
      BY DEF ServiceKept, JobsKept
    <3>2. job'[j] = IF job[j].phase = "free" THEN job[j] ELSE [job[j] EXCEPT !.phase = "done"]
      BY <1>1
    <3> QED
      BY <3>1, <3>2 DEF JobRows, Phases
  <2> QED
    BY <1>1, <2>1 DEF ServiceKept, JobsKept
<1>3. JobsKept'
  <2>1. ASSUME NEW j \in Jobs PROVE JobKept(job[j])'
    <3>1. JobKept(job[j])
      BY DEF ServiceKept, JobsKept
    <3> QED
      BY <1>1, <1>2, <3>1 DEF JobKept
  <2> QED
    BY <1>2, <2>1 DEF JobsKept
<1>4. Steady
  BY <1>1, <1>2 DEF Steady, Over
<1>5. WorldKept'
  <2>1. outside' \in 0..MaxOutside /\ restarts' \in Nat
    BY <1>1, NotificationsAssumption DEF ServiceKept, WorldKept
  <2>2. wire' \in Seq(Events)
    BY <1>1
  <2> QED
    BY <1>1, <2>1, <2>2 DEF ServiceKept, WorldKept
<1>6. CacheKept'
  BY <1>1, NotificationsAssumption DEF CacheKept
<1>7. BudgetKept'
  <2>1. Excerpts' = {}
    BY <1>2 DEF Excerpts
  <2> QED
    BY <1>1, <2>1, FS_EmptySet, NotificationsAssumption DEF BudgetKept
<1>8. FileKept'
  BY <1>1, <1>4, FileCarries DEF ServiceKept
<1>9. StoreKept'
  <2>1. IsHistory(file.records) /\ ToldAll(file.records) /\ file.revision \in Nat
        /\ revision \in Nat
    BY DEF ServiceKept, FileKept, StoreKept
  <2>2. /\ IsHistory(records') /\ DOMAIN records' \subseteq DOMAIN file.records
        /\ \A i \in DOMAIN records' : records'[i] = file.records[i]
        /\ Cardinality(Settled(records')) <= HistoryLimit
    BY <1>1, <2>1, PruneKeeps
  <2>3. ASSUME NEW i \in DOMAIN records' PROVE Told(records[i])'
    <3>1. PICK r : r = file.records[i] /\ r = records'[i]
      BY <2>2
    <3>2. r \in Record /\ Told(r)
      BY <2>1, <2>2, <3>1 DEF IsHistory, ToldAll
    <3>3. Told(r)'
      BY <1>4, <3>2, ToldCarries
    <3> QED
      BY <3>1, <3>3 DEF Told, Verdict, KindOff
  <2>4. ToldAll(records)'
    BY <2>3 DEF ToldAll
  <2>5. IsHistory(records)' /\ (Cardinality(Settled(records)) <= HistoryLimit)'
    BY <2>2 DEF IsHistory, Settled
  <2> QED
    BY <1>1, <2>1, <2>4, <2>5 DEF StoreKept
<1> QED
  BY <1>3, <1>5, <1>6, <1>7, <1>8, <1>9 DEF ServiceKept

\* The cached lineage changes, to what upstream says or to nothing.
LEMMA CachesKept ==
  ASSUME ServiceKept, TimePasses \/ \E s \in Sessions : MetadataObserved(s)
  PROVE  ServiceKept'
<1>1. /\ UNCHANGED <<job, lookups, slots, armed>> /\ UNCHANGED storeVars
      /\ UNCHANGED <<lineage, upstream, wire, auto, quiet, file, restarts>>
      /\ outside < MaxOutside /\ outside' = outside + 1
  BY DEF TimePasses, MetadataObserved, OutsideStep
<1>2. JobsKept' /\ Steady /\ Excerpts' = Excerpts
  BY <1>1, JobsCarry DEF ServiceKept
<1>3. WorldKept'
  <2>1. outside' \in 0..MaxOutside
    BY <1>1, NotificationsAssumption DEF ServiceKept, WorldKept
  <2> QED
    BY <1>1, <2>1 DEF ServiceKept, WorldKept
<1>4. CacheKept'
  <2>1. CacheKept /\ lineage \in [Sessions -> {"root", "child"}]
    BY DEF ServiceKept, WorldKept
  <2>2. aborted' \subseteq Sessions /\ lookups' \subseteq Sessions /\ armed' \subseteq Asks
    BY <1>1, <2>1 DEF CacheKept, TimePasses, MetadataObserved
  <2>3. \/ kinds' = kinds
        \/ \E s \in Sessions : kinds' = [kinds EXCEPT ![s] = None]
        \/ \E s \in Sessions : kinds' = [kinds EXCEPT ![s] = lineage[s]]
    BY DEF TimePasses, MetadataObserved
  <2>4. /\ kinds' \in [Sessions -> {"root", "child", "unknown", None}]
        /\ \A s \in Sessions : kinds'[s] = "child" => lineage[s] = "child"
    BY <2>1, <2>3, NotificationsAssumption DEF CacheKept
  <2> QED
    BY <1>1, <2>2, <2>4 DEF CacheKept
<1> QED
  BY <1>1, <1>2, <1>3, <1>4, StoreCarries, FileCarries, BudgetCarries DEF ServiceKept

\* A lookup gives its slot back, and tells every handler that waits for it.
LEMMA LookupKept ==
  ASSUME ServiceKept, NEW s \in Sessions, LookupSettles(s)
  PROVE  ServiceKept'
<1>1. /\ UNCHANGED <<lineage, upstream, wire, outside, auto, quiet>>
      /\ UNCHANGED storeVars /\ UNCHANGED <<file, restarts, aborted, armed>>
      /\ s \in lookups /\ lookups' = lookups \ {s} /\ slots' = slots - 1
  BY DEF LookupSettles, worldVars
<1>2. PICK answer \in {lineage[s], "unknown"} :
        LET kind == IF kinds[s] = None THEN answer ELSE kinds[s] IN
          /\ kinds' = [kinds EXCEPT ![s] = kind]
          /\ job' = [j \in Jobs |->
               IF job[j].phase = "lineage" /\ job[j].session = s
                 THEN [job[j] EXCEPT !.phase = "read", !.child = (kind = "child")]
                 ELSE job[j]]
  BY DEF LookupSettles
<1>3. PICK kind : kind = IF kinds[s] = None THEN answer ELSE kinds[s]
  OBVIOUS
<1>4. /\ kinds' = [kinds EXCEPT ![s] = kind]
      /\ job' = [j \in Jobs |->
               IF job[j].phase = "lineage" /\ job[j].session = s
                 THEN [job[j] EXCEPT !.phase = "read", !.child = (kind = "child")]
                 ELSE job[j]]
  BY <1>2, <1>3
<1>5. /\ WorldKept /\ JobsKept /\ CacheKept /\ BudgetKept
      /\ lineage \in [Sessions -> {"root", "child"}]
  BY DEF ServiceKept, WorldKept
<1>6. /\ kind \in {"root", "child", "unknown", None}
      /\ kind = "child" => lineage[s] = "child"
  BY <1>2, <1>3, <1>5 DEF CacheKept
<1>7. CacheKept'
  BY <1>1, <1>4, <1>5, <1>6 DEF CacheKept
<1>8. /\ job \in [Jobs -> JobRows] /\ job' \in [Jobs -> JobRows]
      /\ \A j \in Jobs :
           \/ job'[j] = job[j]
           \/ /\ job[j].phase = "lineage" /\ job'[j].phase = "read"
              /\ job[j].session = s
              /\ job'[j].type = job[j].type /\ job'[j].session = job[j].session
              /\ job'[j].ask = job[j].ask /\ job'[j].child = (kind = "child")
              /\ job'[j].supp = job[j].supp /\ job'[j].late = job[j].late
  <2>1. ASSUME NEW j \in Jobs
        PROVE  /\ job'[j] \in JobRows
               /\ \/ job'[j] = job[j]
                  \/ /\ job[j].phase = "lineage" /\ job'[j].phase = "read"
                     /\ job[j].session = s
                     /\ job'[j].type = job[j].type /\ job'[j].session = job[j].session
                     /\ job'[j].ask = job[j].ask /\ job'[j].child = (kind = "child")
                     /\ job'[j].supp = job[j].supp /\ job'[j].late = job[j].late
    <3>1. job[j] \in JobRows
      BY <1>5 DEF JobsKept
    <3>2. job'[j] = IF job[j].phase = "lineage" /\ job[j].session = s
                      THEN [job[j] EXCEPT !.phase = "read", !.child = (kind = "child")]
                      ELSE job[j]
      BY <1>4
    <3>3. CASE job[j].phase = "lineage" /\ job[j].session = s
      <4>1. PICK asked \in BOOLEAN : asked = (kind = "child")
        OBVIOUS
      <4>2. job'[j] = [job[j] EXCEPT !.phase = "read", !.child = asked]
        BY <3>2, <3>3, <4>1
      <4>3. /\ job'[j] \in JobRows /\ job'[j].phase = "read" /\ job'[j].child = asked
            /\ job'[j].type = job[j].type /\ job'[j].session = job[j].session
            /\ job'[j].ask = job[j].ask
            /\ job'[j].supp = job[j].supp /\ job'[j].late = job[j].late
        BY <3>1, <4>2 DEF JobRows, Phases
      <4> QED
        BY <3>3, <4>1, <4>3
    <3>4. CASE ~(job[j].phase = "lineage" /\ job[j].session = s)
      BY <3>1, <3>2, <3>4
    <3> QED
      BY <3>3, <3>4
  <2> QED
    BY <1>4, <1>5, <2>1 DEF JobsKept
<1>9. JobsKept'
  <2>1. ASSUME NEW j \in Jobs PROVE JobKept(job[j])'
    <3>1. JobKept(job[j])
      BY <1>5 DEF JobsKept
    <3> QED
      BY <1>1, <1>6, <1>8, <3>1 DEF JobKept
  <2> QED
    BY <1>8, <2>1 DEF JobsKept
<1>10. Steady /\ Excerpts' = Excerpts
  BY <1>1, <1>8 DEF Steady, Over, Excerpts
<1>11. BudgetKept'
  <2>1. /\ IsFiniteSet(lookups) /\ Cardinality(lookups \ {s}) = Cardinality(lookups) - 1
        /\ IsFiniteSet(lookups \ {s})
    BY <1>1, <1>5, FS_RemoveElement DEF BudgetKept
  <2>2. Cardinality(lookups) \in Nat /\ Cardinality(Excerpts) \in Nat
    BY <1>5, FS_CardinalityType DEF BudgetKept
  <2>3. slots' = Cardinality(lookups \ {s}) + Cardinality(Excerpts) /\ slots' <= LookupSlots
    BY <1>1, <1>5, <2>1, <2>2, NotificationsAssumption DEF BudgetKept
  <2> QED
    BY <1>1, <1>5, <1>10, <2>1, <2>3 DEF BudgetKept
<1>12. WorldKept'
  BY <1>1, <1>5 DEF WorldKept
<1> QED
  BY <1>1, <1>7, <1>9, <1>10, <1>11, <1>12, StoreCarries, FileCarries DEF ServiceKept

\* The timer fires, and a handler of its own goes on with the escalation.
LEMMA FireKept ==
  ASSUME ServiceKept, NEW a \in Asks, Fire(a)
  PROVE  ServiceKept'
<1>1. /\ UNCHANGED <<lineage, upstream, wire, outside, auto, quiet>>
      /\ UNCHANGED storeVars /\ UNCHANGED <<file, restarts, kinds, lookups, slots, aborted>>
      /\ a \in armed /\ armed' = armed \ {a} /\ SomeFree
  BY DEF Fire, worldVars
<1>2. PICK j \in Jobs : j = NextJob /\ job[j].phase = "free"
  BY <1>1 DEF SomeFree, NextJob
<1>3. PICK late \in BOOLEAN : late = (upstream[a] = "replied")
  OBVIOUS
<1>4. PICK row : row = [FreeJob EXCEPT !.phase = "auto", !.type = "parked",
                          !.session = SessionOf[a], !.ask = a, !.late = late]
  OBVIOUS
<1>5. row = [phase |-> "auto", type |-> "parked", session |-> SessionOf[a], ask |-> a,
             child |-> FALSE, quiet |-> FALSE, supp |-> None, late |-> late]
  BY <1>4 DEF FreeJob
<1>6. row \in JobRows
  BY <1>5, NotificationsAssumption DEF JobRows, Phases, Kinds
<1>7. JobKept(row)
  BY <1>3, <1>5, NotificationsAssumption DEF JobKept, Kinds
<1>8. job' = [job EXCEPT ![j] = row]
  BY <1>2, <1>3, <1>4 DEF Fire
<1>9. OneStep(j, row)
  BY <1>1, <1>6, <1>7, <1>8, OneJob DEF ServiceKept
<1>10. JobsKept' /\ Steady /\ Excerpts' = Excerpts
  BY <1>2, <1>5, <1>9 DEF OneStep, Over
<1>11. CacheKept'
  BY <1>1 DEF ServiceKept, CacheKept
<1>12. WorldKept'
  BY <1>1 DEF ServiceKept, WorldKept
<1> QED
  BY <1>1, <1>10, <1>11, <1>12, StoreCarries, FileCarries, BudgetCarries DEF ServiceKept

\* A handler begins: with the cache, in wait of a lookup, or on the way of one.
LEMMA BeginKept ==
  ASSUME JobsKept, CacheKept, BudgetKept, NEW j \in Jobs, job[j].phase = "free",
         NEW e \in Events, e.type # "replied", Begin(j, e),
         UNCHANGED <<lineage, upstream, armed>>, aborted' \subseteq Sessions
  PROVE  JobsKept' /\ CacheKept' /\ BudgetKept' /\ Steady
<1>1. ASSUME NEW phase \in {"read", "lineage"}, NEW child \in BOOLEAN,
             child => lineage[e.session] = "child",
             job' = [job EXCEPT ![j] = [FreeJob EXCEPT
                       !.phase = phase, !.type = e.type, !.session = e.session,
                       !.ask = e.ask, !.child = child]]
      PROVE  JobsKept' /\ Steady /\ Excerpts' = Excerpts
  <2>1. PICK row : row = [FreeJob EXCEPT !.phase = phase, !.type = e.type,
                            !.session = e.session, !.ask = e.ask, !.child = child]
    OBVIOUS
  <2>2. row = [phase |-> phase, type |-> e.type, session |-> e.session, ask |-> e.ask,
               child |-> child, quiet |-> FALSE, supp |-> None, late |-> FALSE]
    BY <2>1 DEF FreeJob
  <2>3. /\ e.type \in Kinds /\ e.type # "parked" /\ e.session \in Sessions
        /\ e.ask \in Asks \union {None}
        /\ e.type = "permission" => e.ask \in Asks
    BY DEF Events, EventTypes, Kinds
  <2>4. row \in JobRows
    BY <2>2, <2>3 DEF JobRows, Phases
  <2>5. JobKept(row)
    BY <1>1, <2>2, <2>3, NotificationsAssumption DEF JobKept
  <2>6. job' = [job EXCEPT ![j] = row]
    BY <1>1, <2>1
  <2>7. OneStep(j, row)
    BY <2>4, <2>5, <2>6, OneJob
  <2> QED
    BY <2>2, <2>7 DEF OneStep, Over
<1>2. e.session \in Sessions
  BY DEF Events
<1>3. CASE /\ kinds[e.session] # None
           /\ job' = [job EXCEPT ![j] = [FreeJob EXCEPT
                       !.phase = "read", !.type = e.type, !.session = e.session,
                       !.ask = e.ask, !.child = (kinds[e.session] = "child")]]
           /\ UNCHANGED <<kinds, lookups, slots>>
  <2>1. PICK child \in BOOLEAN : child = (kinds[e.session] = "child")
    OBVIOUS
  <2>2. child => lineage[e.session] = "child"
    BY <1>2, <2>1 DEF CacheKept
  <2>3. JobsKept' /\ Steady /\ Excerpts' = Excerpts
    BY <1>1, <1>3, <2>1, <2>2
  <2>4. CacheKept' /\ BudgetKept'
    BY <1>3, <2>3, BudgetCarries DEF CacheKept
  <2> QED
    BY <2>3, <2>4
<1>4. CASE /\ job' = [job EXCEPT ![j] = [FreeJob EXCEPT
                       !.phase = "lineage", !.type = e.type, !.session = e.session,
                       !.ask = e.ask, !.child = FALSE]]
           /\ UNCHANGED <<kinds, lookups, slots>>
  <2>1. JobsKept' /\ Steady /\ Excerpts' = Excerpts
    BY <1>1, <1>4
  <2>2. CacheKept' /\ BudgetKept'
    BY <1>4, <2>1, BudgetCarries DEF CacheKept
  <2> QED
    BY <2>1, <2>2
<1>5. CASE /\ job' = [job EXCEPT ![j] = [FreeJob EXCEPT
                       !.phase = "read", !.type = e.type, !.session = e.session,
                       !.ask = e.ask, !.child = FALSE]]
           /\ kinds' = [kinds EXCEPT ![e.session] = "unknown"]
           /\ UNCHANGED <<lookups, slots>>
  <2>1. JobsKept' /\ Steady /\ Excerpts' = Excerpts
    BY <1>1, <1>5
  <2>2. CacheKept'
    BY <1>2, <1>5 DEF CacheKept
  <2> QED
    BY <1>5, <2>1, <2>2, BudgetCarries
<1>6. CASE /\ e.session \notin lookups /\ slots < LookupSlots
           /\ job' = [job EXCEPT ![j] = [FreeJob EXCEPT
                       !.phase = "lineage", !.type = e.type, !.session = e.session,
                       !.ask = e.ask, !.child = FALSE]]
           /\ lookups' = lookups \union {e.session} /\ slots' = slots + 1
           /\ UNCHANGED kinds
  <2>1. JobsKept' /\ Steady /\ Excerpts' = Excerpts
    BY <1>1, <1>6
  <2>2. CacheKept'
    BY <1>2, <1>6 DEF CacheKept
  <2>3. /\ IsFiniteSet(lookups \union {e.session})
        /\ Cardinality(lookups \union {e.session}) = Cardinality(lookups) + 1
    BY <1>6, FS_AddElement DEF BudgetKept
  <2>4. Cardinality(lookups) \in Nat /\ Cardinality(Excerpts) \in Nat
    BY FS_CardinalityType DEF BudgetKept
  <2>5. /\ slots' = Cardinality(lookups \union {e.session}) + Cardinality(Excerpts)
        /\ slots' <= LookupSlots
    BY <1>6, <2>3, <2>4, NotificationsAssumption DEF BudgetKept
  <2>6. BudgetKept'
    BY <1>6, <2>1, <2>3, <2>5 DEF BudgetKept
  <2> QED
    BY <2>1, <2>2, <2>6
<1> QED
  BY <1>3, <1>4, <1>5, <1>6 DEF Begin

\* An event is taken off the wire: it disarms, is an echo, or begins a handler.
LEMMA HandleKept ==
  ASSUME ServiceKept, Handle
  PROVE  ServiceKept'
<1>1. /\ UNCHANGED <<lineage, upstream, outside, auto, quiet>> /\ UNCHANGED storeVars
      /\ UNCHANGED <<file, restarts>> /\ wire # <<>> /\ wire' = Tail(wire)
  BY DEF Handle
<1>2. /\ WorldKept /\ JobsKept /\ CacheKept /\ BudgetKept /\ wire \in Seq(Events)
  BY DEF ServiceKept, WorldKept
<1>3. WorldKept'
  <2>1. wire' \in Seq(Events)
    BY <1>1, <1>2
  <2> QED
    BY <1>1, <1>2, <2>1 DEF WorldKept
<1>4. PICK e \in Events : e = Head(wire)
  BY <1>1, <1>2
<1>5. JobsKept' /\ CacheKept' /\ BudgetKept' /\ Steady
  <2>1. CASE HandleReplied(e) \/ HandleEcho(e)
    <3>1. UNCHANGED <<job, kinds, lookups, slots, aborted>> /\ armed' \subseteq armed
      BY <2>1 DEF HandleReplied, HandleEcho, serviceVars
    <3>2. JobsKept' /\ Steady /\ Excerpts' = Excerpts
      BY <1>1, <1>2, <3>1, JobsCarry
    <3>3. CacheKept'
      BY <1>1, <1>2, <3>1 DEF CacheKept
    <3> QED
      BY <1>2, <3>1, <3>2, <3>3, BudgetCarries
  <2>2. CASE e.type # "replied" /\ HandleNew(e)
    <3>1. armed' = armed /\ aborted' \subseteq Sessions
      BY <1>2, <2>2 DEF HandleNew, Events, CacheKept
    <3>2. CASE UNCHANGED <<job, kinds, lookups, slots>>
      <4>1. JobsKept' /\ Steady /\ Excerpts' = Excerpts
        BY <1>1, <1>2, <3>2, JobsCarry
      <4>2. CacheKept'
        BY <1>1, <1>2, <3>1, <3>2 DEF CacheKept
      <4> QED
        BY <1>2, <3>2, <4>1, <4>2, BudgetCarries
    <3>3. CASE SomeFree /\ Begin(NextJob, e)
      <4>1. PICK j \in Jobs : j = NextJob /\ job[j].phase = "free"
        BY <3>3 DEF SomeFree, NextJob
      <4>2. Begin(j, e)
        BY <3>3, <4>1
      <4> QED
        BY <1>1, <1>2, <2>2, <3>1, <4>1, <4>2, BeginKept
    <3> QED
      BY <2>2, <3>2, <3>3 DEF HandleNew
  <2> QED
    BY <1>4, <2>1, <2>2 DEF Handle
<1> QED
  BY <1>1, <1>3, <1>5, StoreCarries, FileCarries DEF ServiceKept

-------------------------------------------------------------------------------
(* The steps of a handler. *)

\* What a handler's step leaves alone.
InHandler ==
  /\ UNCHANGED worldVars /\ UNCHANGED <<file, restarts, kinds, lookups, seen, aborted>>
  /\ armed' \subseteq Asks

\* So a handler's step keeps the invariant if it keeps the handlers, slots and store.
LEMMA InHandlerKeeps ==
  ASSUME ServiceKept, InHandler, JobsKept', Steady, BudgetKept', StoreKept'
  PROVE  ServiceKept'
<1>1. /\ UNCHANGED <<lineage, upstream, wire, outside, auto, quiet>>
      /\ UNCHANGED <<file, restarts, kinds, lookups, aborted>> /\ armed' \subseteq Asks
  BY DEF InHandler, worldVars
<1>2. WorldKept'
  BY <1>1 DEF ServiceKept, WorldKept
<1>3. CacheKept'
  BY <1>1 DEF ServiceKept, CacheKept
<1> QED
  BY <1>1, <1>2, <1>3, FileCarries DEF ServiceKept

\* The preferences are read, and a slot is taken for an excerpt if one is free.
LEMMA ReadKept ==
  ASSUME ServiceKept, NEW j \in Jobs, ReadPreferences(j)
  PROVE  ServiceKept'
<1>1. PICK old : old = job[j] /\ old \in JobRows /\ JobKept(old) /\ old.phase = "read"
  BY DEF ServiceKept, JobsKept, ReadPreferences
<1>2. PICK hidden \in BOOLEAN, excerpt \in BOOLEAN :
        /\ hidden = (old.child /\ old.type # "permission")
        /\ excerpt = (old.type = "idle" /\ ~hidden /\ slots < LookupSlots)
  OBVIOUS
<1>3. PICK phase \in {"auto", "append", "excerpt"}, supp \in {None, "subagent"} :
        /\ job' = [job EXCEPT ![j] = [@ EXCEPT !.phase = phase, !.quiet = quiet, !.supp = supp]]
        /\ supp = "subagent" => hidden
        /\ phase = "excerpt" <=> excerpt
  BY <1>1, <1>2, NotificationsAssumption DEF ReadPreferences
<1>4. /\ InHandler /\ UNCHANGED storeVars
      /\ slots' = IF excerpt THEN slots + 1 ELSE slots
  BY <1>1, <1>2 DEF ReadPreferences, InHandler, ServiceKept, CacheKept
<1>5. PICK row : row = [old EXCEPT !.phase = phase, !.quiet = quiet, !.supp = supp]
  OBVIOUS
<1>6. quiet \in BOOLEAN
  BY DEF ServiceKept, WorldKept
<1>7. /\ row \in JobRows /\ row.phase = phase /\ row.supp = supp
      /\ row.type = old.type /\ row.session = old.session /\ row.ask = old.ask
      /\ row.child = old.child /\ row.late = old.late
  BY <1>1, <1>5, <1>6 DEF JobRows, Phases, Suppressions
<1>8. JobKept(row)
  BY <1>1, <1>2, <1>3, <1>7, NotificationsAssumption DEF JobKept
<1>9. job' = [job EXCEPT ![j] = row]
  BY <1>1, <1>3, <1>5
<1>10. OneStep(j, row)
  <2>1. lineage' = lineage /\ upstream' = upstream
    BY <1>4 DEF InHandler, worldVars
  <2> QED
    BY <1>7, <1>8, <1>9, <2>1, OneJob DEF ServiceKept
<1>11. JobsKept' /\ Steady
  BY <1>1, <1>10 DEF OneStep, Over
<1>12. BudgetKept'
  <2>1. BudgetKept /\ lookups' = lookups
    BY <1>4 DEF ServiceKept, InHandler
  <2>2. CASE ~excerpt
    <3>1. Excerpts' = Excerpts
      BY <1>1, <1>3, <1>7, <1>10, <2>2 DEF OneStep
    <3> QED
      BY <1>4, <2>1, <2>2, <3>1, BudgetCarries
  <2>3. CASE excerpt
    <3>1. Excerpts' = Excerpts \union {j} /\ j \notin Excerpts
      BY <1>1, <1>3, <1>7, <1>10, <2>3 DEF OneStep, Excerpts
    <3>2. /\ IsFiniteSet(Excerpts \union {j})
          /\ Cardinality(Excerpts \union {j}) = Cardinality(Excerpts) + 1
      BY <2>1, <3>1, FS_AddElement DEF BudgetKept
    <3>3. Cardinality(lookups) \in Nat /\ Cardinality(Excerpts) \in Nat
      BY <2>1, FS_CardinalityType DEF BudgetKept
    <3>4. /\ slots' = slots + 1 /\ slots < LookupSlots
          /\ slots = Cardinality(lookups) + Cardinality(Excerpts)
      BY <1>2, <1>4, <2>1, <2>3 DEF BudgetKept
    <3>5. /\ slots' = Cardinality(lookups) + Cardinality(Excerpts \union {j})
          /\ slots' <= LookupSlots
      BY <3>2, <3>3, <3>4, NotificationsAssumption
    <3> QED
      BY <2>1, <3>1, <3>2, <3>5 DEF BudgetKept
  <2> QED
    BY <2>2, <2>3
<1>13. StoreKept'
  BY <1>4, <1>11, StoreCarries DEF ServiceKept
<1> QED
  BY <1>4, <1>11, <1>12, <1>13, InHandlerKeeps

\* The excerpt's slot is given back.
LEMMA ExcerptKept ==
  ASSUME ServiceKept, NEW j \in Jobs, ExcerptEnds(j)
  PROVE  ServiceKept'
<1>1. /\ InHandler /\ UNCHANGED storeVars /\ slots' = slots - 1
      /\ job[j].phase = "excerpt" /\ Moves(j, "append") /\ JobsKept
      /\ lineage' = lineage /\ upstream' = upstream
  BY DEF ExcerptEnds, InHandler, ServiceKept, CacheKept, worldVars
<1>2. "append" \in Phases /\ ~job[j].late
  BY <1>1 DEF Phases, JobsKept, JobKept
<1>3. PICK row \in JobRows : row = [job[j] EXCEPT !.phase = "append"] /\ OneStep(j, row)
  BY <1>1, <1>2, MoveKept
<1>4. row.phase = "append"
  BY <1>1, <1>3 DEF JobsKept, JobRows
<1>5. JobsKept' /\ Steady /\ Excerpts' = Excerpts \ {j} /\ j \in Excerpts
  BY <1>1, <1>3, <1>4 DEF OneStep, Over, Excerpts
<1>6. BudgetKept'
  <2>1. BudgetKept /\ lookups' = lookups
    BY <1>1 DEF ServiceKept, InHandler
  <2>2. /\ IsFiniteSet(Excerpts \ {j})
        /\ Cardinality(Excerpts \ {j}) = Cardinality(Excerpts) - 1
    BY <1>5, <2>1, FS_RemoveElement DEF BudgetKept
  <2>3. Cardinality(lookups) \in Nat /\ Cardinality(Excerpts) \in Nat
    BY <2>1, FS_CardinalityType DEF BudgetKept
  <2>4. slots' = Cardinality(lookups) + Cardinality(Excerpts \ {j}) /\ slots' <= LookupSlots
    BY <1>1, <2>1, <2>2, <2>3, NotificationsAssumption DEF BudgetKept
  <2> QED
    BY <1>5, <2>1, <2>2, <2>4 DEF BudgetKept
<1>7. StoreKept'
  BY <1>1, <1>5, StoreCarries DEF ServiceKept
<1> QED
  BY <1>1, <1>5, <1>6, <1>7, InHandlerKeeps

\* A handler that is not over and asks for no excerpt moves on, and touches no slot.
LEMMA PlainMoveKept ==
  ASSUME ServiceKept, NEW j \in Jobs, InHandler, UNCHANGED storeVars, slots' = slots,
         NEW row \in JobRows, OneStep(j, row), job[j].phase \notin Over,
         job[j].phase # "excerpt", row.phase # "excerpt"
  PROVE  ServiceKept'
<1>1. JobsKept' /\ Steady /\ Excerpts' = Excerpts
  BY DEF OneStep
<1>2. BudgetKept'
  BY <1>1, BudgetCarries DEF ServiceKept, InHandler
<1>3. StoreKept'
  BY <1>1, StoreCarries DEF ServiceKept
<1> QED
  BY <1>1, <1>2, <1>3, InHandlerKeeps

\* An ask is told apart from an escalation; a late one may go on to the pending check.
LEMMA AutoKept ==
  ASSUME ServiceKept, NEW j \in Jobs, AutoChecked(j)
  PROVE  ServiceKept'
<1>1. /\ InHandler /\ UNCHANGED storeVars /\ slots' = slots
      /\ job[j].phase = "auto" /\ JobsKept
      /\ lineage' = lineage /\ upstream' = upstream
  BY DEF AutoChecked, InHandler, ServiceKept, CacheKept, worldVars
<1>2. PICK old : old = job[j] /\ old \in JobRows /\ JobKept(old) /\ old.phase = "auto"
  BY <1>1 DEF JobsKept
<1>3. CASE /\ job[j].type = "permission"
           /\ job' = [job EXCEPT ![j] = [@ EXCEPT !.phase = "append",
                                                  !.supp = "auto-permissions"]]
  <2>1. PICK row : row = [old EXCEPT !.phase = "append", !.supp = "auto-permissions"]
    OBVIOUS
  <2>2. /\ row \in JobRows /\ row.phase = "append" /\ row.supp = "auto-permissions"
        /\ row.type = old.type /\ row.session = old.session /\ row.ask = old.ask
        /\ row.child = old.child /\ row.late = old.late
    BY <1>2, <2>1 DEF JobRows, Phases, Suppressions
  <2>3. JobKept(row)
    BY <1>2, <1>3, <2>2 DEF JobKept
  <2>4. job' = [job EXCEPT ![j] = row]
    BY <1>2, <1>3, <2>1
  <2>5. OneStep(j, row)
    BY <1>1, <2>2, <2>3, <2>4, OneJob
  <2> QED
    BY <1>1, <2>2, <2>5, PlainMoveKept DEF Over
<1>4. CASE Ends(j, "done")
  <2>1. PICK row \in JobRows : row.phase = "done" /\ OneStep(j, row)
    BY <1>1, <1>4, EndKept
  <2> QED
    BY <1>1, <2>1, PlainMoveKept DEF Over
<1>5. CASE Moves(j, IF job[j].type = "parked" THEN "pending" ELSE "append")
  <2>1. PICK phase \in {"pending", "append"} :
          phase = IF job[j].type = "parked" THEN "pending" ELSE "append"
    OBVIOUS
  <2>2. Moves(j, phase) /\ phase \in Phases
    BY <1>5, <2>1 DEF Phases
  <2>3. job[j].late => phase \in {"auto", "pending", "done", "failed"}
    BY <1>1, <1>2, <2>1 DEF JobKept
  <2>4. PICK row \in JobRows : row = [job[j] EXCEPT !.phase = phase] /\ OneStep(j, row)
    BY <1>1, <2>2, <2>3, MoveKept
  <2>5. row.phase = phase
    BY <1>2, <2>4 DEF JobRows
  <2> QED
    BY <1>1, <2>4, <2>5, PlainMoveKept DEF Over
<1> QED
  BY <1>3, <1>4, <1>5 DEF AutoChecked

\* No late escalation passes the pending check.
LEMMA PendingKept ==
  ASSUME ServiceKept, NEW j \in Jobs, PendingChecked(j)
  PROVE  ServiceKept'
<1>1. /\ InHandler /\ UNCHANGED storeVars /\ slots' = slots
      /\ job[j].phase = "pending" /\ JobsKept
      /\ lineage' = lineage /\ upstream' = upstream
  BY DEF PendingChecked, InHandler, ServiceKept, CacheKept, worldVars
<1>2. PICK old : old = job[j] /\ old \in JobRows /\ JobKept(old) /\ old.phase = "pending"
  BY <1>1 DEF JobsKept
<1>3. CASE upstream[job[j].ask] = "pending" /\ Moves(j, "read")
  <2>1. ~job[j].late
    BY <1>2, <1>3 DEF JobKept
  <2>2. PICK row \in JobRows : row = [job[j] EXCEPT !.phase = "read"] /\ OneStep(j, row)
    BY <1>1, <1>3, <2>1, MoveKept DEF Phases
  <2>3. row.phase = "read"
    BY <1>2, <2>2 DEF JobRows
  <2> QED
    BY <1>1, <2>2, <2>3, PlainMoveKept DEF Over
<1>4. ASSUME NEW phase \in {"done", "failed"}, Ends(j, phase) PROVE ServiceKept'
  <2>1. PICK row \in JobRows : row.phase = phase /\ OneStep(j, row)
    BY <1>1, <1>4, EndKept
  <2> QED
    BY <1>1, <2>1, PlainMoveKept DEF Over
<1> QED
  BY <1>3, <1>4 DEF PendingChecked

\* The place of a new record is above every other.
LEMMA NewPlaceIsNew ==
  ASSUME IsHistory(records)
  PROVE  NewPlace \in Nat /\ NewPlace \notin DOMAIN records
<1> DEFINE places == {0} \union DOMAIN records
<1>1. places \in SUBSET Nat /\ IsFiniteSet(places) /\ places # {}
  <2>1. IsFiniteSet(DOMAIN records \union {0})
    BY FS_AddElement DEF IsHistory
  <2>2. places = DOMAIN records \union {0}
    OBVIOUS
  <2> QED
    BY <2>1, <2>2 DEF IsHistory
<1>2. \A i \in DOMAIN records : i \in places
  OBVIOUS
<1>3. NewPlace = 1 + Max(places)
  BY DEF NewPlace
<1> HIDE DEF places
<1>4. PICK m \in places : \A k \in places : m >= k
  BY <1>1, HighestPlace
<1>5. Max(places) \in places /\ \A k \in places : Max(places) >= k
  BY <1>4 DEF Max
<1>6. PICK n : n = Max(places)
  OBVIOUS
<1>7. n \in Nat /\ \A k \in DOMAIN records : k \in Nat /\ n >= k
  BY <1>1, <1>2, <1>5, <1>6
<1> QED
  BY <1>3, <1>6, <1>7

\* The records with a new one at the new place.
Added(j, supp) ==
  [i \in DOMAIN records \union {NewPlace} |->
     IF i = NewPlace THEN [job |-> j, supp |-> supp, active |-> TRUE, parked |-> FALSE]
                     ELSE records[i]]

\* They are a history, with the old records where they were.
LEMMA AddedRows ==
  ASSUME IsHistory(records), NEW j \in Jobs, NEW supp \in Suppressions \union {None}
  PROVE  /\ IsHistory(Added(j, supp)) /\ NewPlace \notin DOMAIN records
         /\ DOMAIN Added(j, supp) = DOMAIN records \union {NewPlace}
         /\ Added(j, supp)[NewPlace].job = j /\ Added(j, supp)[NewPlace].supp = supp
         /\ \A i \in DOMAIN records : Added(j, supp)[i] = records[i]
<1> DEFINE new   == [job |-> j, supp |-> supp, active |-> TRUE, parked |-> FALSE]
           added == Added(j, supp)
<1>1. NewPlace \in Nat /\ NewPlace \notin DOMAIN records
  BY NewPlaceIsNew
<1>2. /\ DOMAIN added = DOMAIN records \union {NewPlace} /\ added[NewPlace] = new
      /\ \A i \in DOMAIN records : added[i] = records[i]
  BY <1>1 DEF Added
<1>3. IsFiniteSet(DOMAIN records \union {NewPlace})
  BY FS_AddElement DEF IsHistory
<1>4. new \in Record /\ new.job = j /\ new.supp = supp
  BY DEF Record
<1> HIDE DEF added, new
<1>5. IsHistory(added)
  BY <1>1, <1>2, <1>3, <1>4 DEF IsHistory
<1> QED
  BY <1>1, <1>2, <1>4, <1>5 DEF added

\* An appended record is told of, and pruning takes none it must keep.
LEMMA AppendKeeps ==
  ASSUME StoreKept, Steady, NEW j \in Jobs, NEW supp \in Suppressions \union {None},
         Append1(j, supp),
         \A t : t.job = j /\ t.supp = supp => Told(t)'
  PROVE  StoreKept'
<1> DEFINE added == Added(j, supp)
<1>1. /\ records' = Prune(added)
      /\ revision' = IF supp = None THEN revision + 1 ELSE revision
  BY DEF Append1, Added
<1>2. IsHistory(records) /\ revision \in Nat /\ ToldAll(records)
  BY DEF StoreKept
<1>4. /\ IsHistory(added) /\ DOMAIN added = DOMAIN records \union {NewPlace}
      /\ added[NewPlace].job = j /\ added[NewPlace].supp = supp
      /\ \A i \in DOMAIN records : added[i] = records[i]
  BY <1>2, AddedRows
<1> HIDE DEF added
<1>6. /\ IsHistory(records') /\ DOMAIN records' \subseteq DOMAIN added
      /\ \A i \in DOMAIN records' : records'[i] = added[i]
      /\ Cardinality(Settled(records')) <= HistoryLimit
  BY <1>1, <1>4, PruneKeeps
<1>7. ASSUME NEW i \in DOMAIN records' PROVE Told(records[i])'
  <2>1. CASE i = NewPlace
    <3>1. PICK t : t = records'[i]
      OBVIOUS
    <3>2. t.job = j /\ t.supp = supp
      BY <1>4, <1>6, <2>1, <3>1
    <3>3. Told(t)'
      BY <3>2
    <3> QED
      BY <3>1, <3>3 DEF Told, Verdict, KindOff
  <2>2. CASE i # NewPlace
    <3>1. PICK r : r = records[i] /\ r = records'[i]
      BY <1>4, <1>6, <2>2
    <3>2. r \in Record /\ Told(r)
      BY <1>2, <1>4, <1>6, <2>2, <3>1 DEF IsHistory, ToldAll
    <3>3. Told(r)'
      BY <3>2, ToldCarries
    <3> QED
      BY <3>1, <3>3 DEF Told, Verdict, KindOff
  <2> QED
    BY <2>1, <2>2
<1>8. ToldAll(records)'
  BY <1>7 DEF ToldAll
<1>9. IsHistory(records)' /\ (Cardinality(Settled(records)) <= HistoryLimit)'
  BY <1>6 DEF IsHistory, Settled
<1>10. revision' \in Nat
  BY <1>1, <1>2
<1> QED
  BY <1>8, <1>9, <1>10 DEF StoreKept

\* The handler that appends goes on to settle its record, or ends with it.
LEMMA AppendKept ==
  ASSUME ServiceKept, NEW j \in Jobs, AppendRecord(j)
  PROVE  ServiceKept'
<1>1. /\ InHandler /\ slots' = slots /\ job[j].phase = "append" /\ JobsKept
      /\ lineage' = lineage /\ upstream' = upstream
  BY DEF AppendRecord, InHandler, ServiceKept, CacheKept, worldVars
<1>2. PICK old : old = job[j] /\ old \in JobRows /\ JobKept(old) /\ old.phase = "append"
  BY <1>1 DEF JobsKept
<1>3. ~old.late
  BY <1>2 DEF JobKept
<1>4. CASE /\ job[j].supp \in {"subagent", "auto-permissions"}
           /\ Append1(j, job[j].supp) /\ Ends(j, "done")
  <2>1. PICK supp \in Suppressions \union {None} : supp = old.supp
    BY <1>2 DEF JobRows
  <2>2. PICK row \in JobRows :
          /\ row.phase = "done" /\ row.type = old.type /\ row.session = old.session
          /\ row.late = old.late /\ OneStep(j, row) /\ job' = [job EXCEPT ![j] = row]
    BY <1>1, <1>2, <1>4, EndKept
  <2>3. JobsKept' /\ Steady /\ Excerpts' = Excerpts
    BY <1>1, <2>2 DEF OneStep, Over
  <2>4. job'[j] = row
    BY <1>1, <2>2 DEF JobsKept
  <2>5. ASSUME NEW t, t.job = j, t.supp = supp PROVE Told(t)'
    BY <1>1, <1>2, <1>3, <2>1, <2>2, <2>4, <2>5 DEF Told, Over, JobKept
  <2>6. StoreKept'
    BY <1>2, <1>4, <2>1, <2>3, <2>5, AppendKeeps DEF ServiceKept
  <2>7. BudgetKept'
    BY <1>1, <2>3, BudgetCarries DEF ServiceKept, InHandler
  <2> QED
    BY <1>1, <2>3, <2>6, <2>7, InHandlerKeeps
<1>5. CASE Append1(j, Verdict(j)) /\ Moves(j, "settle")
  <2>1. PICK supp \in {"preference-off", None} : supp = Verdict(j)
    BY DEF Verdict
  <2>2. PICK row \in JobRows : row = [job[j] EXCEPT !.phase = "settle"] /\ OneStep(j, row)
    BY <1>1, <1>2, <1>3, <1>5, MoveKept DEF Phases
  <2>3. /\ row.phase = "settle" /\ row.late = old.late /\ row.type = old.type
        /\ row.quiet = old.quiet
    BY <1>2, <2>2 DEF JobRows
  <2>4. JobsKept' /\ Steady /\ Excerpts' = Excerpts
    BY <1>1, <2>2, <2>3 DEF OneStep, Over
  <2>5. job'[j] = row
    BY <1>1, <1>5, <2>2 DEF JobsKept, Moves
  <2>6. ASSUME NEW t, t.job = j, t.supp = supp PROVE Told(t)'
    <3>1. supp # "subagent"
      BY <2>1, NotificationsAssumption
    <3>2. Verdict(j)' = supp
      BY <1>2, <2>1, <2>3, <2>5 DEF Verdict, KindOff
    <3> QED
      BY <1>3, <2>3, <2>5, <2>6, <3>1, <3>2 DEF Told, Over, Verdict, KindOff
  <2>7. StoreKept'
    BY <1>5, <2>1, <2>4, <2>6, AppendKeeps DEF ServiceKept, Suppressions
  <2>8. BudgetKept'
    BY <1>1, <2>4, BudgetCarries DEF ServiceKept, InHandler
  <2> QED
    BY <1>1, <2>4, <2>7, <2>8, InHandlerKeeps
<1> QED
  BY <1>4, <1>5 DEF AppendRecord

\* What a handler writes on its records at the end is what it wrote at the append.
LEMMA SettleKeepsRecords ==
  ASSUME StoreKept, NEW j \in Jobs, Settle(j)
  PROVE  /\ IsHistory(records') /\ DOMAIN records' = DOMAIN records
         /\ \A i \in DOMAIN records :
              /\ records'[i].job = records[i].job /\ records'[i].supp = records[i].supp
              /\ records'[i].active = records[i].active
<1>1. records' = [i \in DOMAIN records |->
                    IF records[i].job = j THEN [records[i] EXCEPT !.supp = Verdict(j)]
                                          ELSE records[i]]
  BY DEF Settle
<1>2. PICK supp \in Suppressions \union {None} : supp = Verdict(j)
  BY DEF Verdict, Suppressions
<1>3. DOMAIN records' = DOMAIN records
  BY <1>1
<1>4. ASSUME NEW i \in DOMAIN records
      PROVE  /\ records'[i] \in Record
             /\ records'[i].job = records[i].job /\ records'[i].supp = records[i].supp
             /\ records'[i].active = records[i].active
  <2>1. records[i] \in Record /\ Told(records[i])
    BY DEF StoreKept, IsHistory, ToldAll
  <2>2. CASE records[i].job = j
    <3>1. records[i].supp = supp
      BY <1>2, <2>1, <2>2 DEF Told, Settle
    <3>2. records'[i] = [records[i] EXCEPT !.supp = supp]
      BY <1>1, <1>2, <2>2
    <3> QED
      BY <2>1, <3>1, <3>2 DEF Record
  <2>3. CASE records[i].job # j
    BY <1>1, <2>1, <2>3
  <2> QED
    BY <2>2, <2>3
<1>5. IsHistory(records')
  BY <1>3, <1>4 DEF StoreKept, IsHistory
<1> QED
  BY <1>3, <1>4, <1>5

\* The stamp of an escalation is not a verdict and checks nothing off.
LEMMA MarkKeepsRecords ==
  ASSUME StoreKept, NEW j \in Jobs, MarkParked(j)
  PROVE  /\ IsHistory(records') /\ DOMAIN records' = DOMAIN records
         /\ \A i \in DOMAIN records :
              /\ records'[i].job = records[i].job /\ records'[i].supp = records[i].supp
              /\ records'[i].active = records[i].active
<1>1. IsHistory(records)
  BY DEF StoreKept
<1>2. records' = records \/ \E m : records' = [records EXCEPT ![m].parked = TRUE]
  BY DEF MarkParked
<1>3. CASE records' = records
  BY <1>1, <1>3
<1>4. ASSUME NEW m, records' = [records EXCEPT ![m].parked = TRUE]
      PROVE  /\ IsHistory(records') /\ DOMAIN records' = DOMAIN records
             /\ \A i \in DOMAIN records :
                  /\ records'[i].job = records[i].job /\ records'[i].supp = records[i].supp
                  /\ records'[i].active = records[i].active
  <2>1. DOMAIN records' = DOMAIN records
    BY <1>4
  <2>2. ASSUME NEW i \in DOMAIN records
        PROVE  /\ records'[i] \in Record
               /\ records'[i].job = records[i].job /\ records'[i].supp = records[i].supp
               /\ records'[i].active = records[i].active
    <3>1. records[i] \in Record
      BY <1>1 DEF IsHistory
    <3>2. CASE i = m
      <4>1. records'[i] = [records[i] EXCEPT !.parked = TRUE]
        BY <1>4, <3>2
      <4> QED
        BY <3>1, <4>1 DEF Record
    <3>3. CASE i # m
      BY <1>4, <3>1, <3>3
    <3> QED
      BY <3>2, <3>3
  <2>3. IsHistory(records')
    BY <1>1, <2>1, <2>2 DEF IsHistory
  <2> QED
    BY <2>1, <2>2, <2>3
<1> QED
  BY <1>2, <1>3, <1>4

\* So the store is kept where only what a handler stamps on a record changes.
LEMMA StampKeepsStore ==
  ASSUME StoreKept, Steady, revision' = revision,
         IsHistory(records'), DOMAIN records' = DOMAIN records,
         \A i \in DOMAIN records :
              /\ records'[i].job = records[i].job /\ records'[i].supp = records[i].supp
              /\ records'[i].active = records[i].active
  PROVE  StoreKept'
<1>1. ToldAll(records)'
  BY ToldAllCarries DEF StoreKept
<1>2. Settled(records') = Settled(records)
  BY DEF Settled
<1>3. IsHistory(records)' /\ (Cardinality(Settled(records)) <= HistoryLimit)'
  BY <1>2 DEF StoreKept, IsHistory, Settled
<1> QED
  BY <1>1, <1>3 DEF StoreKept

\* deliver() is over, and the parent record is stamped.
LEMMA EndsKept ==
  ASSUME ServiceKept, NEW j \in Jobs, Settle(j) \/ MarkParked(j)
  PROVE  ServiceKept'
<1>1. /\ InHandler /\ slots' = slots /\ revision' = revision
      /\ job[j].phase \in {"settle", "mark"} /\ JobsKept /\ StoreKept
      /\ lineage' = lineage /\ upstream' = upstream
  <2>1. armed' \subseteq Asks
    <3>1. armed \subseteq Asks /\ JobKept(job[j])
      BY DEF ServiceKept, CacheKept, JobsKept
    <3> QED
      BY <3>1 DEF Settle, MarkParked, JobKept
  <2> QED
    BY <2>1 DEF Settle, MarkParked, InHandler, ServiceKept, worldVars
<1>2. PICK old : old = job[j] /\ old \in JobRows /\ JobKept(old)
  BY <1>1 DEF JobsKept
<1>3. ~old.late
  BY <1>1, <1>2 DEF JobKept
<1>4. /\ IsHistory(records') /\ DOMAIN records' = DOMAIN records
      /\ \A i \in DOMAIN records :
           /\ records'[i].job = records[i].job /\ records'[i].supp = records[i].supp
           /\ records'[i].active = records[i].active
  BY <1>1, SettleKeepsRecords, MarkKeepsRecords
<1>5. PICK row \in JobRows :
        /\ row.phase \in {"mark", "done"} /\ row.type = old.type
        /\ row.session = old.session /\ row.late = old.late
        /\ OneStep(j, row) /\ job' = [job EXCEPT ![j] = row]
  <2>1. CASE Ends(j, "done")
    BY <1>1, <1>2, <2>1, EndKept
  <2>2. CASE Moves(j, "mark")
    <3>1. PICK row \in JobRows : row = [job[j] EXCEPT !.phase = "mark"] /\ OneStep(j, row)
      BY <1>1, <1>2, <1>3, <2>2, MoveKept DEF Phases
    <3>2. /\ row.phase = "mark" /\ row.type = old.type
          /\ row.session = old.session /\ row.late = old.late
      BY <1>2, <3>1 DEF JobRows
    <3>3. job' = [job EXCEPT ![j] = row]
      BY <1>1, <2>2, <3>1 DEF Moves, JobsKept
    <3> QED
      BY <3>1, <3>2, <3>3
  <2> QED
    BY <2>1, <2>2 DEF Settle, MarkParked
<1>6. JobsKept' /\ Excerpts' = Excerpts
  BY <1>1, <1>5 DEF OneStep
<1>7. Steady
  <2>1. job'[j] = row /\ \A k \in Jobs : k # j => job'[k] = job[k]
    BY <1>1, <1>5 DEF JobsKept
  <2>2. row.phase \in Over /\ row.phase # "settle"
    BY <1>5 DEF Over
  <2> QED
    BY <1>1, <1>2, <1>5, <2>1, <2>2 DEF Steady
<1>8. StoreKept'
  BY <1>1, <1>4, <1>7, StampKeepsStore
<1>9. BudgetKept'
  BY <1>1, <1>6, BudgetCarries DEF ServiceKept, InHandler
<1> QED
  BY <1>1, <1>6, <1>7, <1>8, <1>9, InHandlerKeeps

-------------------------------------------------------------------------------
(* The theorems. *)

\* Every step of the service, of upstream, of the user and of the clock keeps the
\* invariant.
LEMMA StepsKept ==
  ASSUME ServiceKept, [Next]_vars
  PROVE  ServiceKept'
<1>1. CASE Due
  <2>1. ASSUME NEW j \in Jobs, JobStep(j) PROVE ServiceKept'
    BY <2>1, ReadKept, ExcerptKept, AutoKept, AppendKept, EndsKept, PendingKept DEF JobStep
  <2>2. ASSUME NEW s \in Sessions, LookupSettles(s) PROVE ServiceKept'
    BY <2>2, LookupKept
  <2>3. ASSUME NEW a \in Asks, Fire(a) PROVE ServiceKept'
    BY <2>3, FireKept
  <2> QED
    BY <1>1, <2>1, <2>2, <2>3, HandleKept DEF Due
<1>2. CASE UNCHANGED vars
  <2>1. /\ UNCHANGED <<job, kinds, lookups, slots, seen, aborted, armed>> /\ UNCHANGED storeVars
        /\ UNCHANGED <<lineage, upstream, wire, outside, auto, quiet, file, restarts>>
    BY <1>2 DEF vars, serviceVars, worldVars
  <2>2. JobsKept' /\ Steady /\ Excerpts' = Excerpts
    BY <2>1, JobsCarry DEF ServiceKept
  <2>3. WorldKept'
    BY <2>1 DEF ServiceKept, WorldKept
  <2> QED
    BY <2>1, <2>2, <2>3, StoreCarries, FileCarries, BudgetCarries, CacheCarries DEF ServiceKept
<1> QED
  BY <1>1, <1>2, OutsideKept, CachesKept, UserResolvesKept, FlushKept, RestartKept DEF Next

\* The invariant says what is hidden, escalated and counted.
LEMMA KeptMeans ==
  ASSUME ServiceKept
  PROVE  ServiceInv
<1> USE DEF ServiceKept
<1>1. TypeOK
  <2>1. slots \in 0..LookupSlots
    <3>1. Cardinality(lookups) \in Nat /\ Cardinality(Excerpts) \in Nat
      BY FS_CardinalityType DEF BudgetKept
    <3> QED
      BY <3>1, NotificationsAssumption DEF BudgetKept
  <2>2. \A i \in DOMAIN wire : wire[i].type \in EventTypes
    <3>1. \A i \in DOMAIN wire : wire[i] \in Events
      BY DEF WorldKept
    <3> QED
      BY <3>1 DEF Events
  <2>3. \A j \in Jobs : /\ job[j].phase \in Phases /\ job[j].type \in Kinds \union {None}
                       /\ job[j].supp \in Suppressions \union {None}
    <3>1. \A j \in Jobs : job[j] \in JobRows
      BY DEF JobsKept
    <3> QED
      BY <3>1 DEF JobRows
  <2>4. \A i \in DOMAIN records : RecordOK(records[i])
    BY DEF StoreKept, IsHistory, Record, RecordOK
  <2>5. Cardinality({i \in DOMAIN records : ~records[i].active}) <= HistoryLimit
    BY DEF StoreKept, Settled
  <2> QED
    BY <2>1, <2>2, <2>3, <2>4, <2>5
    DEF TypeOK, WorldKept, CacheKept, StoreKept, FileKept
<1>2. BudgetBalanced
  BY DEF BudgetBalanced, BudgetKept, Excerpts
<1>3. HidesOnlyChildren
  BY DEF HidesOnlyChildren, StoreKept, ToldAll, Told
<1>4. NoStaleEscalation
  BY DEF NoStaleEscalation, StoreKept, ToldAll, Told
<1> QED
  BY <1>1, <1>2, <1>3, <1>4 DEF ServiceInv

\* The invariant holds throughout.
THEOREM ServiceIsKept == Spec => []ServiceKept
<1>1. Init => ServiceKept
  BY StartsKept
<1>2. ServiceKept /\ [Next]_vars => ServiceKept'
  BY StepsKept
<1> QED
  BY <1>1, <1>2, PTL DEF Spec

\* The service keeps its slots, hides only what a known child raised, escalates no
\* request answered before its timer fired, and caps what is checked off.
THEOREM ServiceIsSound == Spec => []ServiceInv
<1>1. ServiceKept => ServiceInv
  BY KeptMeans
<1> QED
  BY <1>1, ServiceIsKept, PTL

\* The delivered records that are not checked off.
Live(recs) == {i \in DOMAIN recs : recs[i].active /\ Delivered(recs[i])}

\* They are what the badge counts and what the list must keep.
LEMMA LiveCounts ==
  /\ BadgeCount = Cardinality(Live(records))
  /\ \A recs : Unchecked(recs) = {recs[i].job : i \in Live(recs)}
<1>1. {i \in {k \in DOMAIN records : records[k].active} : Delivered(records[i])} = Live(records)
  BY DEF Live
<1>2. BadgeCount = Cardinality(Live(records))
  BY <1>1 DEF BadgeCount, Counted
<1>3. \A recs : Unchecked(recs) = {recs[i].job : i \in Live(recs)}
  BY DEF Unchecked, Live
<1> QED
  BY <1>2, <1>3

\* What a step may do to the store: nothing, a check, a reload, an append or a stamp.
LEMMA StoreMoves ==
  ASSUME [Next]_vars
  PROVE  \/ UNCHANGED storeVars /\ restarts' = restarts
         \/ UserResolves
         \/ Restart
         \/ restarts' = restarts /\ \E j \in Jobs : AppendRecord(j)
         \/ restarts' = restarts /\ \E j \in Jobs : Settle(j) \/ MarkParked(j)
<1>1. ASSUME NEW j \in Jobs, JobStep(j)
      PROVE  \/ UNCHANGED storeVars /\ restarts' = restarts
             \/ restarts' = restarts /\ (AppendRecord(j) \/ Settle(j) \/ MarkParked(j))
  <2>1. CASE ReadPreferences(j) \/ ExcerptEnds(j) \/ AutoChecked(j) \/ PendingChecked(j)
    BY <2>1 DEF ReadPreferences, ExcerptEnds, AutoChecked, PendingChecked
  <2>2. CASE AppendRecord(j) \/ Settle(j) \/ MarkParked(j)
    BY <2>2 DEF AppendRecord, Settle, MarkParked
  <2> QED
    BY <1>1, <2>1, <2>2 DEF JobStep
<1>2. ASSUME Handle \/ (\E s \in Sessions : LookupSettles(s)) \/ (\E a \in Asks : Fire(a))
      PROVE  UNCHANGED storeVars /\ restarts' = restarts
  BY <1>2 DEF Handle, LookupSettles, Fire
<1>3. ASSUME Outside \/ TimePasses \/ Flush \/ (\E s \in Sessions : MetadataObserved(s))
      PROVE  UNCHANGED storeVars /\ restarts' = restarts
  BY <1>3 DEF Outside, RequestOpens, Echo, RequestReplied, TurnRaises, Stopped, Send,
              UserSwitches, TimePasses, Flush, MetadataObserved
<1>4. CASE UNCHANGED vars
  BY <1>4 DEF vars
<1>5. ASSUME Due
      PROVE  \/ UNCHANGED storeVars /\ restarts' = restarts
             \/ restarts' = restarts /\ \E j \in Jobs : AppendRecord(j)
             \/ restarts' = restarts /\ \E j \in Jobs : Settle(j) \/ MarkParked(j)
  <2>1. CASE \E j \in Jobs : JobStep(j)
    BY <1>1, <2>1
  <2>2. CASE Handle \/ (\E s \in Sessions : LookupSettles(s)) \/ (\E a \in Asks : Fire(a))
    BY <1>2, <2>2
  <2> QED
    BY <1>5, <2>1, <2>2 DEF Due
<1> QED
  BY <1>3, <1>4, <1>5 DEF Next

\* An append keeps every live record, and adds one only if it moves the revision.
LEMMA AppendMoves ==
  ASSUME ServiceKept, NEW j \in Jobs, AppendRecord(j)
  PROVE  /\ revision' >= revision
         /\ Live(records) \subseteq Live(records')
         /\ \A i \in Live(records) : records'[i].job = records[i].job
         /\ revision' = revision => Live(records') = Live(records)
<1>1. PICK supp \in Suppressions \union {None} : Append1(j, supp)
  <2>1. job[j].supp \in Suppressions \union {None}
    BY DEF ServiceKept, JobsKept, JobRows
  <2>2. Verdict(j) \in Suppressions \union {None}
    BY DEF Verdict, Suppressions
  <2> QED
    BY <2>1, <2>2 DEF AppendRecord
<1> DEFINE added == Added(j, supp)
<1>2. /\ records' = Prune(added)
      /\ revision' = IF supp = None THEN revision + 1 ELSE revision
  BY <1>1 DEF Append1, Added
<1>3. IsHistory(records) /\ revision \in Nat
  BY DEF ServiceKept, StoreKept
<1>4. /\ IsHistory(added) /\ DOMAIN added = DOMAIN records \union {NewPlace}
      /\ added[NewPlace].supp = supp /\ NewPlace \notin DOMAIN records
      /\ \A i \in DOMAIN records : added[i] = records[i]
  BY <1>3, AddedRows
<1> HIDE DEF added
<1>5. /\ DOMAIN records' \subseteq DOMAIN added
      /\ \A i \in DOMAIN records' : records'[i] = added[i]
      /\ \A i \in DOMAIN added : added[i].active /\ Delivered(added[i]) => i \in DOMAIN records'
  BY <1>2, <1>4, PruneKeeps
<1>6. \A i \in Live(records) :
        i \in DOMAIN records' /\ records'[i] = records[i]
  BY <1>4, <1>5 DEF Live
<1>7. Live(records) \subseteq Live(records')
  BY <1>6 DEF Live
<1>8. revision' >= revision /\ (revision' = revision => supp # None)
  BY <1>2, <1>3
<1>9. ASSUME revision' = revision PROVE Live(records') \subseteq Live(records)
  <2>1. ~Delivered(added[NewPlace])
    BY <1>4, <1>8, <1>9 DEF Delivered
  <2> QED
    BY <1>4, <1>5, <2>1 DEF Live
<1> QED
  BY <1>6, <1>7, <1>8, <1>9

\* A check or a reopening of a live record moves the revision.
LEMMA ResolveMoves ==
  ASSUME ServiceKept, UserResolves
  PROVE  /\ revision' >= revision
         /\ revision' = revision => Live(records') = Live(records)
<1>1. PICK S \in SUBSET (DOMAIN records), resolved \in BOOLEAN : Resolve(S, resolved)
  <2>1. \A i \in DOMAIN records : {i} \in SUBSET (DOMAIN records)
    OBVIOUS
  <2> QED
    BY <2>1 DEF UserResolves
<1>2. /\ records' = (IF resolved THEN Prune(Marked(S, resolved)) ELSE Marked(S, resolved))
      /\ revision' = revision + Counted(records, Changed(S, resolved))
  BY <1>1 DEF Resolve, Marked, Changed
<1>3. IsHistory(records) /\ revision \in Nat
  BY DEF ServiceKept, StoreKept
<1> DEFINE changed == Changed(S, resolved)
           marked  == Marked(S, resolved)
<1>4. /\ IsHistory(marked) /\ DOMAIN marked = DOMAIN records
      /\ \A i \in DOMAIN records :
           /\ marked[i].supp = records[i].supp
           /\ i \notin changed => marked[i] = records[i]
      /\ Counted(records, changed) \in Nat
      /\ Counted(records, changed) = 0 => \A i \in changed : ~Delivered(records[i])
  BY <1>3, MarkedRows
<1> HIDE DEF changed, marked
<1>5. /\ DOMAIN records' \subseteq DOMAIN marked
      /\ \A i \in DOMAIN records' : records'[i] = marked[i]
      /\ \A i \in DOMAIN marked : marked[i].active /\ Delivered(marked[i]) => i \in DOMAIN records'
  <2>1. CASE resolved
    BY <1>2, <1>4, <2>1, PruneKeeps DEF marked
  <2>2. CASE ~resolved
    BY <1>2, <2>2 DEF marked
  <2> QED
    BY <2>1, <2>2
<1>6. ASSUME revision' = revision PROVE Live(records') = Live(records)
  <2>1. Counted(records, changed) = 0
    BY <1>2, <1>3, <1>4, <1>6 DEF changed
  <2>2. \A i \in DOMAIN records : Delivered(records[i]) => marked[i] = records[i]
    BY <1>4, <2>1
  <2>3. \A i \in DOMAIN records : Delivered(marked[i]) <=> Delivered(records[i])
    BY <1>4 DEF Delivered
  <2>4. Live(marked) = Live(records)
    BY <1>4, <2>2, <2>3 DEF Live
  <2>5. Live(records') = Live(marked)
    BY <1>5 DEF Live
  <2> QED
    BY <2>4, <2>5
<1> QED
  BY <1>2, <1>3, <1>4, <1>6 DEF changed

\* What a handler stamps at the end moves no live record.
LEMMA StampMoves ==
  ASSUME ServiceKept, NEW j \in Jobs, Settle(j) \/ MarkParked(j)
  PROVE  /\ revision' = revision /\ Live(records') = Live(records)
         /\ \A i \in Live(records) : records'[i].job = records[i].job
<1>1. revision' = revision
  BY DEF Settle, MarkParked
<1>2. /\ DOMAIN records' = DOMAIN records
      /\ \A i \in DOMAIN records :
           /\ records'[i].job = records[i].job /\ records'[i].supp = records[i].supp
           /\ records'[i].active = records[i].active
  BY SettleKeepsRecords, MarkKeepsRecords DEF ServiceKept
<1>3. Live(records') = Live(records)
  BY <1>2 DEF Live, Delivered
<1> QED
  BY <1>1, <1>2, <1>3 DEF Live

\* While the server lives, the badge count moves only with the revision, and the
\* revision never goes back.
THEOREM BadgeIsNumbered == Spec => CountMovesRevision
<1> DEFINE Moved == restarts' = restarts =>
                      /\ revision' >= revision
                      /\ BadgeCount' # BadgeCount => revision' > revision
<1>1. ServiceKept /\ [Next]_vars => Moved
  <2> SUFFICES ASSUME ServiceKept, [Next]_vars, restarts' = restarts
               PROVE  /\ revision' >= revision
                      /\ BadgeCount' # BadgeCount => revision' > revision
    OBVIOUS
  <2>1. revision \in Nat /\ revision' \in Nat /\ restarts \in Nat
    <3>1. ServiceKept'
      BY StepsKept
    <3> QED
      BY <3>1 DEF ServiceKept, StoreKept, WorldKept
  <2>2. ~Restart
    BY <2>1 DEF Restart
  <2>3. /\ revision' >= revision
        /\ revision' = revision => Live(records') = Live(records)
    <3>1. CASE UNCHANGED storeVars
      BY <2>1, <3>1 DEF storeVars
    <3>2. CASE UserResolves
      BY <3>2, ResolveMoves
    <3>3. ASSUME NEW j \in Jobs, AppendRecord(j)
          PROVE  /\ revision' >= revision
                 /\ revision' = revision => Live(records') = Live(records)
      BY <3>3, AppendMoves
    <3>4. ASSUME NEW j \in Jobs, Settle(j) \/ MarkParked(j)
          PROVE  /\ revision' >= revision
                 /\ revision' = revision => Live(records') = Live(records)
      BY <2>1, <3>4, StampMoves
    <3> QED
      BY <2>2, <3>1, <3>2, <3>3, <3>4, StoreMoves
  <2>4. BadgeCount = Cardinality(Live(records)) /\ BadgeCount' = Cardinality(Live(records'))
    BY LiveCounts DEF BadgeCount, Counted, Live
  <2> QED
    BY <2>1, <2>3, <2>4
<1> QED
  BY <1>1, ServiceIsKept, PTL DEF Spec, CountMovesRevision

\* A delivered record that the user has not checked off is never taken from the
\* list: not by a cap, a late verdict or a reload of what was written.
THEOREM ChecklistStays == Spec => UncheckedStays
<1> DEFINE Stays == \/ UserResolves
                    \/ Unchecked(IF restarts' = restarts THEN records ELSE file.records)
                         \subseteq Unchecked(records')
<1>1. ServiceKept /\ [Next]_vars => Stays
  <2> SUFFICES ASSUME ServiceKept, [Next]_vars, ~UserResolves
               PROVE  Unchecked(IF restarts' = restarts THEN records ELSE file.records)
                        \subseteq Unchecked(records')
    OBVIOUS
  <2>1. \A recs : Unchecked(recs) = {recs[i].job : i \in Live(recs)}
    BY LiveCounts
  <2>2. CASE Restart
    <3>1. restarts' # restarts /\ records' = Prune(file.records) /\ IsHistory(file.records)
      BY <2>2 DEF Restart, ServiceKept, WorldKept, FileKept
    <3>2. /\ DOMAIN records' \subseteq DOMAIN file.records
          /\ \A i \in DOMAIN records' : records'[i] = file.records[i]
          /\ \A i \in DOMAIN file.records :
               file.records[i].active /\ Delivered(file.records[i]) => i \in DOMAIN records'
      BY <3>1, PruneKeeps
    <3>3. \A i \in Live(file.records) :
            i \in Live(records') /\ records'[i].job = file.records[i].job
      BY <3>2 DEF Live
    <3> QED
      BY <2>1, <3>1, <3>3
  <2>3. ASSUME restarts' = restarts, Live(records) \subseteq Live(records'),
               \A i \in Live(records) : records'[i].job = records[i].job
        PROVE  Unchecked(IF restarts' = restarts THEN records ELSE file.records)
                 \subseteq Unchecked(records')
    BY <2>1, <2>3
  <2>4. CASE UNCHANGED storeVars /\ restarts' = restarts
    BY <2>3, <2>4 DEF storeVars
  <2>5. ASSUME NEW j \in Jobs, AppendRecord(j) \/ Settle(j) \/ MarkParked(j),
               restarts' = restarts
        PROVE  Unchecked(IF restarts' = restarts THEN records ELSE file.records)
                 \subseteq Unchecked(records')
    BY <2>3, <2>5, AppendMoves, StampMoves
  <2> QED
    BY <2>2, <2>4, <2>5, StoreMoves
<1> QED
  BY <1>1, ServiceIsKept, PTL DEF Spec, UncheckedStays

================================================================================
