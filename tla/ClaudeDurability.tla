--------------------------- MODULE ClaudeDurability ---------------------------
(***************************************************************************)
(* What ClaudeSessionStore (server/claude/store.ts) keeps on disk: the     *)
(* ledger of runs and the index of sessions, two files written by one      *)
(* promise chain (writeChain), each write a snapshot taken when it was     *)
(* queued, each file replaced by a rename.  The process may stop at any    *)
(* time and load() starts from what the two files say.                     *)
(*                                                                         *)
(* A session is reduced to its active run (`running` is activeRunId being  *)
(* set: RunRecordAgrees of ClaudeRuntime) and its `interrupted` flag.      *)
(***************************************************************************)
EXTENDS Naturals, Sequences, FiniteSets

CONSTANTS
  Sessions,    \* sessions; created and on disk before the model starts
  Runs,        \* ledger record ids (randomUUID)
  None,
  LedgerCap,   \* how many records the ledger keeps, 1000 in the code
  MaxQueue,    \* bound: no turn starts or ends with more writes queued
  MaxCrashes,  \* bound: how often the process stops
  MaxFailures  \* bound: how many writes fail

ASSUME DurabilityAssumption ==
  /\ None \notin Runs
  /\ LedgerCap \in Nat \ {0}
  /\ MaxQueue \in Nat /\ MaxCrashes \in Nat /\ MaxFailures \in Nat

VARIABLES
  up,           \* the process runs and has loaded its files
  ledger,       \* ledger.records, oldest first
  active,       \* session -> activeRunId
  interrupted,  \* session -> its interrupted flag
  chain,        \* writes queued on writeChain
  diskLedger,   \* the ledger file
  diskActive,   \* the sessions file: activeRunId of each session
  diskInterrupted,
  stale,        \* files whose last write in this life failed
  used,         \* ids startRun has drawn
  crashes, failures

memory == <<ledger, active, interrupted>>
disk == <<diskLedger, diskActive, diskInterrupted>>
vars == <<up, memory, chain, disk, stale, used, crashes, failures>>

Final == {"completed", "cancelled", "failed", "interrupted"}
Records == [id : Runs, session : Sessions, outcome : Final \cup {"running"}]

EmptyActive == [s \in Sessions |-> None]
NotInterrupted == [s \in Sessions |-> FALSE]

Init ==
  /\ up = TRUE
  /\ ledger = <<>> /\ diskLedger = <<>>
  /\ active = EmptyActive /\ diskActive = EmptyActive
  /\ interrupted = NotInterrupted /\ diskInterrupted = NotInterrupted
  /\ chain = <<>>
  /\ stale = {}
  /\ used = {}
  /\ crashes = 0 /\ failures = 0

-----------------------------------------------------------------------------
(* persist() and persistSessions(): the payload is built now, written      *)
(* later.  In an action they stand after the assignments to the memory.    *)
LedgerWrite == [file |-> "ledger", ledger |-> ledger']
SessionsWrite == [file |-> "sessions", active |-> active', interrupted |-> interrupted']

(* [...records].reverse().find(...): of the matching indexes the newest,   *)
(* in a set of at most one.                                                *)
Newest(I) == {i \in I : \A j \in I : j <= i}

SetOutcome(records, I, o) ==
  [i \in DOMAIN records |-> IF i \in I THEN [records[i] EXCEPT !.outcome = o] ELSE records[i]]

(* Mutant of Capped: off by one.                                           *)
CappedLate(records) ==
  IF Len(records) <= LedgerCap + 1 THEN records ELSE SubSeq(records, Len(records) - LedgerCap, Len(records))

(* records.slice(-LedgerCap)                                               *)
Capped(records) ==
  IF Len(records) <= LedgerCap THEN records ELSE SubSeq(records, Len(records) - LedgerCap + 1, Len(records))

(* Mutant of StartRun: the sessions file is left for the next write.       *)
StartRunLedgerOnly(s, r) ==
  /\ up /\ r \notin used /\ Len(chain) <= MaxQueue
  /\ used' = used \cup {r}
  /\ ledger' = Capped(Append(ledger, [id |-> r, session |-> s, outcome |-> "running"]))
  /\ active' = [active EXCEPT ![s] = r]
  /\ interrupted' = [interrupted EXCEPT ![s] = FALSE]
  /\ chain' = Append(chain, LedgerWrite)
  /\ UNCHANGED <<up, disk, stale, crashes, failures>>

(* Mutant of StartRun: the sessions file is queued first.                  *)
StartRunSessionsFirst(s, r) ==
  /\ up /\ r \notin used /\ Len(chain) <= MaxQueue
  /\ used' = used \cup {r}
  /\ ledger' = Capped(Append(ledger, [id |-> r, session |-> s, outcome |-> "running"]))
  /\ active' = [active EXCEPT ![s] = r]
  /\ interrupted' = [interrupted EXCEPT ![s] = FALSE]
  /\ chain' = chain \o <<SessionsWrite, LedgerWrite>>
  /\ UNCHANGED <<up, disk, stale, crashes, failures>>

(* startRun(): the store does not ask whether the session runs already.    *)
StartRun(s, r) ==
  /\ up /\ r \notin used /\ Len(chain) <= MaxQueue
  /\ used' = used \cup {r}
  /\ ledger' = Capped(Append(ledger, [id |-> r, session |-> s, outcome |-> "running"]))
  /\ active' = [active EXCEPT ![s] = r]
  /\ interrupted' = [interrupted EXCEPT ![s] = FALSE]
  /\ chain' = chain \o <<LedgerWrite, SessionsWrite>>
  /\ UNCHANGED <<up, disk, stale, crashes, failures>>

(* applyFrame() with a frame that does not end the turn: the transcript    *)
(* grows, which is abstracted, and the sessions are written.               *)
Frame(s) ==
  /\ up /\ active[s] # None /\ Len(chain) < MaxQueue
  /\ UNCHANGED <<up, memory, disk, stale, used, crashes, failures>>
  /\ chain' = Append(chain, SessionsWrite)

(* finish() by a frame, a cancel or an exit.  The record may have been     *)
(* dropped from the ledger; a frame and a cancel persist the sessions once *)
(* more for the event they push afterwards.                                *)
Finish(s, o, again) ==
  /\ up /\ active[s] # None /\ Len(chain) <= MaxQueue
  /\ ledger' = SetOutcome(ledger, Newest({i \in DOMAIN ledger : ledger[i].id = active[s]}), o)
  /\ active' = [active EXCEPT ![s] = None]
  /\ interrupted' = [interrupted EXCEPT ![s] = @ \/ o = "interrupted"]
  /\ chain' = chain \o <<LedgerWrite, SessionsWrite>> \o again
  /\ UNCHANGED <<up, disk, stale, used, crashes, failures>>

TurnEnds(s) ==
  \/ \E o \in {"completed", "failed", "cancelled"} : Finish(s, o, <<SessionsWrite>>)
  \/ \E o \in {"failed", "interrupted"} : Finish(s, o, <<>>)

-----------------------------------------------------------------------------
(* atomicWrite(): the head of the chain                                    *)

Apply(w) ==
  IF w.file = "ledger"
  THEN /\ diskLedger' = w.ledger
       /\ UNCHANGED <<diskActive, diskInterrupted>>
  ELSE /\ diskActive' = w.active
       /\ diskInterrupted' = w.interrupted
       /\ UNCHANGED diskLedger

(* Mutant of WriteOk: without the chain, writes finish in any order.       *)
WriteAnyOk ==
  \E i \in DOMAIN chain :
    /\ Apply(chain[i])
    /\ chain' = SubSeq(chain, 1, i - 1) \o SubSeq(chain, i + 1, Len(chain))
    /\ stale' = stale \ {chain[i].file}
    /\ UNCHANGED <<up, memory, used, crashes, failures>>

(* The temporary file is written and renamed over the target.              *)
WriteOk ==
  /\ chain # <<>>
  /\ Apply(Head(chain))
  /\ chain' = Tail(chain)
  /\ stale' = stale \ {Head(chain).file}
  /\ UNCHANGED <<up, memory, used, crashes, failures>>

(* The write or the rename fails: the error is emitted, the chain goes on. *)
WriteFails ==
  /\ chain # <<>> /\ failures < MaxFailures
  /\ failures' = failures + 1
  /\ chain' = Tail(chain)
  /\ stale' = stale \cup {Head(chain).file}
  /\ UNCHANGED <<up, memory, disk, used, crashes>>

-----------------------------------------------------------------------------
(* The process stops, and starts again                                     *)

(* The memory and the queued writes are lost.                              *)
Crash ==
  /\ up /\ crashes < MaxCrashes
  /\ up' = FALSE
  /\ crashes' = crashes + 1
  /\ ledger' = <<>> /\ active' = EmptyActive /\ interrupted' = NotInterrupted
  /\ chain' = <<>>
  /\ stale' = {}
  /\ UNCHANGED <<disk, used, failures>>

(* Mutant of Recovered: the session of the record is not compared.         *)
RecoveredAny(s) ==
  LET records == Capped(diskLedger) IN
  Newest({i \in DOMAIN records : records[i].id = diskActive[s] \/ records[i].outcome = "running"})

(* The record load() settles for a session that was running.               *)
Recovered(s) ==
  LET records == Capped(diskLedger) IN
  Newest({i \in DOMAIN records :
            \/ records[i].id = diskActive[s]
            \/ records[i].session = s /\ records[i].outcome = "running"})

(* Mutant of Load: what was settled is not written back.                   *)
LoadWritesNothing ==
  LET cut == {s \in Sessions : diskActive[s] # None} IN
  /\ ~up /\ up' = TRUE
  /\ ledger' = SetOutcome(Capped(diskLedger), UNION {Recovered(s) : s \in cut}, "interrupted")
  /\ active' = EmptyActive
  /\ interrupted' = [s \in Sessions |-> diskInterrupted[s] \/ s \in cut]
  /\ UNCHANGED <<disk, chain, stale, used, crashes, failures>>

(* load(): a session that was running has no process any more.             *)
Load ==
  LET cut == {s \in Sessions : diskActive[s] # None} IN
  /\ ~up /\ up' = TRUE
  /\ ledger' = SetOutcome(Capped(diskLedger), UNION {Recovered(s) : s \in cut}, "interrupted")
  /\ active' = EmptyActive
  /\ interrupted' = [s \in Sessions |-> diskInterrupted[s] \/ s \in cut]
  /\ chain' = IF cut # {} THEN <<LedgerWrite, SessionsWrite>> ELSE <<>>
  /\ UNCHANGED <<disk, stale, used, crashes, failures>>

-----------------------------------------------------------------------------
Next ==
  \/ \E s \in Sessions, r \in Runs : StartRun(s, r)
  \/ \E s \in Sessions : Frame(s) \/ TurnEnds(s)
  \/ WriteOk
  \/ WriteFails
  \/ Crash
  \/ Load

Spec == Init /\ [][Next]_vars

(* Writes are carried out, turns end (SessionSettles of ClaudeRuntime) and *)
(* the service is started again.                                           *)
FairSpec ==
  Spec /\ WF_vars(WriteOk) /\ WF_vars(Load) /\ \A s \in Sessions : WF_vars(TurnEnds(s))

-----------------------------------------------------------------------------
(* Every variable holds a value of the code's type, and the ledger never   *)
(* outgrows its cap, in memory or on disk.                                 *)
TypeOK ==
  /\ up \in BOOLEAN
  /\ Len(ledger) <= LedgerCap /\ Len(diskLedger) <= LedgerCap
  /\ ledger \in Seq(Records) /\ diskLedger \in Seq(Records)
  /\ active \in [Sessions -> Runs \cup {None}] /\ diskActive \in [Sessions -> Runs \cup {None}]
  /\ interrupted \in [Sessions -> BOOLEAN] /\ diskInterrupted \in [Sessions -> BOOLEAN]
  /\ chain \in Seq([file : {"ledger"}, ledger : Seq(Records)]
                   \cup [file : {"sessions"}, active : [Sessions -> Runs \cup {None}],
                         interrupted : [Sessions -> BOOLEAN]])
  /\ stale \subseteq {"ledger", "sessions"}
  /\ used \subseteq Runs
  /\ crashes \in 0..MaxCrashes /\ failures \in 0..MaxFailures

Queued(f) == \E i \in DOMAIN chain : chain[i].file = f

(* A flushed chain means durable: unless a file's last write failed, once  *)
(* no write of it is queued the file says what the memory says.            *)
FlushedIsDurable ==
  up =>
    /\ Queued("ledger") \/ "ledger" \in stale \/ diskLedger = ledger
    /\ Queued("sessions") \/ "sessions" \in stale
         \/ <<diskActive, diskInterrupted>> = <<active, interrupted>>

(* The ledger is written before the sessions that point into it: as long   *)
(* as no write failed and nothing was dropped from a full ledger, a run    *)
(* that the sessions file says is active has its record on disk, so load() *)
(* finds what to settle.                                                   *)
NothingDropped == failures = 0 /\ Cardinality(used) <= LedgerCap
ActiveIsInLedger ==
  \A s \in Sessions :
    diskActive[s] # None /\ NothingDropped =>
      \E i \in DOMAIN diskLedger : diskLedger[i].id = diskActive[s]

(* Why that is so.  The last queued write of a file is the memory as it is. *)
LastIsMemory ==
  up => \A i \in DOMAIN chain :
    LET last == \A j \in DOMAIN chain : j > i => chain[j].file # chain[i].file
    IN  /\ chain[i].file = "ledger" /\ last => chain[i].ledger = ledger
        /\ chain[i].file = "sessions" /\ last =>
             chain[i].active = active /\ chain[i].interrupted = interrupted

(* What the ledgers and the sessions anywhere, in memory, queued or on     *)
(* disk, say of whose a run is: they agree, and no run is older than its id.*)
LedgerPairs(records) == {<<records[i].id, records[i].session>> : i \in DOMAIN records}
ActivePairs(act) == {<<act[s], s>> : s \in {t \in Sessions : act[t] # None}}
QueuedLedgers == {i \in DOMAIN chain : chain[i].file = "ledger"}
QueuedSessions == DOMAIN chain \ QueuedLedgers
Pairs ==
  LedgerPairs(ledger) \cup ActivePairs(active)
    \cup LedgerPairs(diskLedger) \cup ActivePairs(diskActive)
    \cup (UNION {LedgerPairs(chain[i].ledger) : i \in QueuedLedgers})
    \cup (UNION {ActivePairs(chain[i].active) : i \in QueuedSessions})
OwnersAgree ==
  /\ \A p \in Pairs : p[1] \in used
  /\ \A p, q \in Pairs : p[1] = q[1] => p[2] = q[2]

(* No ledger lists a run twice, and one written later does not take back   *)
(* an outcome: not the queue against the disk, nor the memory against both.*)
Unique(records) == \A i, j \in DOMAIN records : records[i].id = records[j].id => i = j
Has(records, r) == \E i \in DOMAIN records : records[i].id = r
Follows(before, after) ==
  \A i \in DOMAIN before, j \in DOMAIN after :
    before[i].id = after[j].id /\ before[i].outcome \in Final => after[j].outcome \in Final
OutcomesFollow ==
  /\ Unique(diskLedger) /\ Unique(ledger) /\ (up => Follows(diskLedger, ledger))
  /\ \A i \in QueuedLedgers :
       /\ Unique(chain[i].ledger) /\ Follows(diskLedger, chain[i].ledger)
       /\ Follows(chain[i].ledger, ledger)
       /\ \A j \in QueuedLedgers : i < j => Follows(chain[i].ledger, chain[j].ledger)

(* While the ledger is not full, a queued ledger lists every run that the  *)
(* disk and the queue before it list, so an active run's record is on disk *)
(* or queued ahead of the sessions that point to it.                       *)
Grows(before, after) == \A i \in DOMAIN before : Has(after, before[i].id)
WrittenBefore(r, k) ==
  Has(diskLedger, r) \/ \E i \in QueuedLedgers : i < k /\ Has(chain[i].ledger, r)
RecordGoesFirst ==
  NothingDropped =>
    /\ up => Grows(diskLedger, ledger)
    /\ \A i \in QueuedLedgers :
         /\ Grows(diskLedger, chain[i].ledger) /\ Grows(chain[i].ledger, ledger)
         /\ \A j \in QueuedLedgers : i < j => Grows(chain[i].ledger, chain[j].ledger)
    /\ \A s \in Sessions :
         /\ active[s] # None => WrittenBefore(active[s], Len(chain) + 1)
         /\ \A k \in QueuedSessions :
              chain[k].active[s] # None => WrittenBefore(chain[k].active[s], k)

(* Nothing is queued, in memory or stale while the process is down; and    *)
(* no ledger lists more runs than were started.                            *)
DownIsEmpty == ~up => chain = <<>> /\ stale = {} /\ ledger = <<>> /\ active = EmptyActive
LedgerFits ==
  /\ IsFiniteSet(used)
  /\ Len(ledger) <= Cardinality(used) /\ Len(diskLedger) <= Cardinality(used)
  /\ \A i \in QueuedLedgers :
       Len(chain[i].ledger) <= LedgerCap /\ Len(chain[i].ledger) <= Cardinality(used)

(* Type, durability and order of the two files, as one invariant.          *)
DurabilityInv ==
  /\ TypeOK /\ FlushedIsDurable /\ ActiveIsInLedger
  /\ LastIsMemory /\ OwnersAgree /\ OutcomesFollow /\ RecordGoesFirst
  /\ DownIsEmpty /\ LedgerFits

(* A run whose end reached the disk never reads "running" there again,     *)
(* through any crashes, failed writes and recoveries.                      *)
NeverRunningAgain ==
  [][\A r \in Runs :
       (\E i \in DOMAIN diskLedger : diskLedger[i].id = r /\ diskLedger[i].outcome \in Final)
       => ~\E i \in DOMAIN diskLedger' : diskLedger'[i].id = r /\ diskLedger'[i].outcome = "running"]_vars

(* load() settles no run but the ones it must: a record it marks           *)
(* interrupted belongs to a session the file says was running.             *)
RecoveryIsLocal ==
  [][~up /\ up' => \A i \in DOMAIN ledger' :
       ledger'[i] # Capped(diskLedger)[i] =>
         diskActive[ledger'[i].session] # None]_vars

(* No spinner for ever: unless a write fails, what the sessions file says  *)
(* is running stops being so, whenever the process stops and restarts,     *)
(* recovery included.                                                      *)
NoSpinnerForever ==
  \A s \in Sessions :
    (diskActive[s] # None) ~> (diskActive[s] = None \/ failures > 0)

-----------------------------------------------------------------------------
(* docs/claude-runtime.md:107 "A session that was mid-turn when the BFF    *)
(* stopped is marked Interrupted by a server restart": load() marks the    *)
(* sessions that the file says were running, so those that were must be    *)
(* among them.                                                             *)
MidTurnIsMarked ==
  [][up /\ ~up' => \A s \in Sessions : active[s] # None => diskActive'[s] # None]_vars

=============================================================================
