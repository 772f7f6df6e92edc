------------------------ MODULE ClaudeDurabilityProofs ------------------------
(***************************************************************************)
(* What TLAPS proves of ClaudeDurability, for any number of sessions and   *)
(* runs and any cap of the ledger: the order and the durability of the two *)
(* files, that an outcome on disk is never taken back, and that a recovery *)
(* settles no run but the ones that were cut off.                          *)
(***************************************************************************)
EXTENDS ClaudeDurability, FiniteSetTheorems, TLAPS

-----------------------------------------------------------------------------
(* Sequences of records and of writes                                      *)

Actives == [Sessions -> Runs \cup {None}]
Marks == [Sessions -> BOOLEAN]
Writes == [file : {"ledger"}, ledger : Seq(Records)]
            \cup [file : {"sessions"}, active : Actives, interrupted : Marks]

(* What becomes of a queue that is extended by a ledger and by sessions.   *)
Extended(q, l, w, c) ==
  /\ c \in Seq(Writes) /\ Len(c) \in Nat /\ Len(q) \in Nat
  /\ DOMAIN c = 1..Len(c) /\ DOMAIN q = 1..Len(q)
  /\ \A i \in DOMAIN q : i \in DOMAIN c /\ c[i] = q[i]
  /\ Len(q) + 1 \in DOMAIN c /\ c[Len(q) + 1] = l
  /\ Len(q) + 2 \in DOMAIN c /\ c[Len(q) + 2] = w
  /\ \A i \in DOMAIN c : i \in DOMAIN q \/ i = Len(q) + 1 \/ (i > Len(q) + 1 /\ c[i] = w)

(* A queue with a ledger and one or two writes of the sessions behind it   *)
(* is such an extension.                                                   *)
LEMMA QueueFacts ==
  ASSUME NEW q \in Seq(Writes), NEW l \in Writes, NEW w \in Writes, NEW c,
         c = q \o <<l, w>> \/ c = q \o <<l, w>> \o <<w>>
  PROVE  Extended(q, l, w, c)
<1>1. CASE c = q \o <<l, w>>
  BY <1>1 DEF Extended
<1>2. CASE c = q \o <<l, w>> \o <<w>>
  <2> DEFINE b == q \o <<l, w>>
  <2>1. /\ b \in Seq(Writes) /\ Len(b) = Len(q) + 2 /\ Len(q) \in Nat
        /\ \A i \in 1..Len(q) : b[i] = q[i]
        /\ b[Len(q) + 1] = l /\ b[Len(q) + 2] = w
    OBVIOUS
  <2>2. /\ b \o <<w>> \in Seq(Writes) /\ Len(b \o <<w>>) = Len(b) + 1
        /\ \A i \in 1..Len(b) : (b \o <<w>>)[i] = b[i]
        /\ (b \o <<w>>)[Len(b) + 1] = w
    BY <2>1
  <2>3. c = b \o <<w>>
    BY <1>2
  <2> HIDE DEF b
  <2>4. /\ c \in Seq(Writes) /\ Len(c) = Len(q) + 3 /\ Len(q) \in Nat
        /\ DOMAIN c = 1..Len(c) /\ DOMAIN q = 1..Len(q)
    BY <2>1, <2>2, <2>3
  <2>5. \A i \in DOMAIN q : i \in DOMAIN c /\ c[i] = q[i]
    BY <2>1, <2>2, <2>3, <2>4
  <2>6. c[Len(q) + 1] = l /\ c[Len(q) + 2] = w /\ c[Len(q) + 3] = w
    BY <2>1, <2>2, <2>3, <2>4
  <2>7. \A i \in DOMAIN c : i \in DOMAIN q \/ i = Len(q) + 1 \/ i = Len(q) + 2 \/ i = Len(q) + 3
    BY <2>4
  <2> QED
    BY <2>4, <2>5, <2>6, <2>7 DEF Extended
<1> QED
  BY <1>1, <1>2

(* What becomes of a queue whose head is taken.                            *)
LEMMA TailFacts ==
  ASSUME NEW T, NEW q \in Seq(T), q # <<>>
  PROVE  /\ Tail(q) \in Seq(T) /\ Head(q) \in T /\ Head(q) = q[1] /\ 1 \in DOMAIN q
         /\ DOMAIN q = 1..Len(q) /\ Len(q) \in Nat /\ Len(Tail(q)) = Len(q) - 1
         /\ \A i \in DOMAIN Tail(q) :
              i \in Nat /\ i + 1 \in DOMAIN q /\ i + 1 > 1 /\ Tail(q)[i] = q[i + 1]
         /\ \A i \in DOMAIN q :
              i \in Nat /\ (i = 1 \/ (i - 1 \in DOMAIN Tail(q) /\ Tail(q)[i - 1] = q[i]))
  OBVIOUS

(* SetOutcome changes nothing but outcomes, and those to `o`.              *)
LEMMA SetOutcomeFacts ==
  ASSUME NEW records \in Seq(Records), NEW I, NEW o \in Final
  PROVE  LET after == SetOutcome(records, I, o) IN
         /\ after \in Seq(Records) /\ Len(after) = Len(records)
         /\ DOMAIN after = DOMAIN records
         /\ \A i \in DOMAIN records :
              /\ after[i].id = records[i].id /\ after[i].session = records[i].session
              /\ i \in I => after[i].outcome = o
              /\ i \notin I => after[i] = records[i]
<1> DEFINE after == SetOutcome(records, I, o)
<1>1. /\ DOMAIN after = DOMAIN records /\ DOMAIN records = 1..Len(records)
      /\ Len(records) \in Nat
  BY DEF SetOutcome
<1>2. \A i \in DOMAIN records :
        /\ after[i] \in Records
        /\ after[i].id = records[i].id /\ after[i].session = records[i].session
        /\ i \in I => after[i].outcome = o
        /\ i \notin I => after[i] = records[i]
  <2> TAKE i \in DOMAIN records
  <2>1. records[i] \in Records
    OBVIOUS
  <2>2. after[i] = IF i \in I THEN [records[i] EXCEPT !.outcome = o] ELSE records[i]
    BY DEF SetOutcome
  <2> HIDE DEF after
  <2> QED
    BY <2>1, <2>2 DEF Records
<1>3. after \in [1..Len(records) -> Records]
  BY <1>1, <1>2 DEF SetOutcome
<1>4. after \in Seq(Records) /\ Len(after) = Len(records)
  BY <1>1, <1>3
<1> QED
  BY <1>1, <1>2, <1>4

(* The capped ledger is an end of the ledger.                              *)
LEMMA CappedFacts ==
  ASSUME NEW records \in Seq(Records)
  PROVE  /\ Capped(records) \in Seq(Records) /\ Len(Capped(records)) <= LedgerCap
         /\ Len(Capped(records)) \in Nat /\ Len(Capped(records)) <= Len(records)
         /\ Len(records) <= LedgerCap => Capped(records) = records
         /\ \E d \in Nat : \A i \in DOMAIN Capped(records) :
              i \in Nat /\ i + d \in DOMAIN records /\ Capped(records)[i] = records[i + d]
<1> USE DurabilityAssumption
<1>1. CASE Len(records) <= LedgerCap
  <2>1. 0 \in Nat /\ \A i \in DOMAIN records : i \in Nat /\ i + 0 = i
    OBVIOUS
  <2> QED
    BY <1>1, <2>1 DEF Capped
<1>2. CASE ~(Len(records) <= LedgerCap)
  <2> DEFINE d == Len(records) - LedgerCap
  <2>1. d \in Nat /\ Len(records) \in Nat
    BY <1>2
  <2>2. Capped(records) = SubSeq(records, d + 1, Len(records))
    BY <1>2 DEF Capped
  <2>3. /\ Capped(records) \in Seq(Records) /\ Len(Capped(records)) = LedgerCap
        /\ \A i \in DOMAIN Capped(records) :
             i \in Nat /\ i + d \in DOMAIN records /\ Capped(records)[i] = records[i + d]
    BY <2>1, <2>2, <1>2
  <2> QED
    BY <2>1, <2>3, <1>2
<1> QED
  BY <1>1, <1>2

-----------------------------------------------------------------------------
(* The steps that change the memory and queue both files                   *)

(* What the queue becomes when the ledger and then the sessions are queued.*)
Queues ==
  LET n == Len(chain) IN
  /\ n \in Nat /\ DOMAIN chain = 1..n
  /\ chain' \in Seq(Writes) /\ Len(chain') \in Nat /\ DOMAIN chain' = 1..Len(chain')
  /\ n + 1 \in DOMAIN chain' /\ n + 2 \in DOMAIN chain'
  /\ \A i \in DOMAIN chain : i \in DOMAIN chain' /\ chain'[i] = chain[i]
  /\ chain'[n + 1].file = "ledger" /\ chain'[n + 1].ledger = ledger'
  /\ \A i \in DOMAIN chain' :
       \/ i \in DOMAIN chain
       \/ i = n + 1
       \/ /\ i > n + 1 /\ chain'[i].file = "sessions"
          /\ chain'[i].active = active' /\ chain'[i].interrupted = interrupted'

(* The memory's types.                                                     *)
MemoryOK ==
  /\ ledger \in Seq(Records) /\ Len(ledger) <= LedgerCap
  /\ active \in Actives /\ interrupted \in Marks

(* The types of the memory, the files and the queue, with the shorter      *)
(* names of this module.                                                   *)
LEMMA TypeFacts ==
  ASSUME TypeOK
  PROVE  /\ MemoryOK /\ diskLedger \in Seq(Records) /\ Len(diskLedger) <= LedgerCap
         /\ diskActive \in Actives /\ diskInterrupted \in Marks /\ chain \in Seq(Writes)
BY DEF TypeOK, MemoryOK, Writes, Actives, Marks

(* A queued write is of one of the two files.                              *)
LEMMA WriteFacts ==
  ASSUME NEW q \in Seq(Writes), NEW i \in DOMAIN q
  PROVE  /\ i \in Nat /\ q[i] \in Writes
         /\ q[i].file = "ledger" => q[i].ledger \in Seq(Records)
         /\ q[i].file # "ledger" =>
              q[i].file = "sessions" /\ q[i].active \in Actives /\ q[i].interrupted \in Marks
<1>1. i \in Nat /\ q[i] \in Writes
  OBVIOUS
<1> QED
  BY <1>1 DEF Writes

(* The two ways the code queues both files (finish() may persist the       *)
(* sessions once more) are both Queues.                                    *)
LEMMA QueuesBoth ==
  ASSUME chain \in Seq(Writes), MemoryOK',
         \/ chain' = chain \o <<LedgerWrite, SessionsWrite>>
         \/ chain' = chain \o <<LedgerWrite, SessionsWrite>> \o <<SessionsWrite>>
  PROVE  Queues
<1>1. LedgerWrite \in Writes /\ LedgerWrite.file = "ledger" /\ LedgerWrite.ledger = ledger'
  BY DEF MemoryOK, LedgerWrite, Writes
<1>2. /\ SessionsWrite \in Writes /\ SessionsWrite.file = "sessions"
      /\ SessionsWrite.active = active' /\ SessionsWrite.interrupted = interrupted'
  BY DEF MemoryOK, SessionsWrite, Writes
<1>3. Extended(chain, LedgerWrite, SessionsWrite, chain')
  <2> DEFINE l == LedgerWrite  w == SessionsWrite  c == chain'
  <2>1. l \in Writes /\ w \in Writes /\ (c = chain \o <<l, w>> \/ c = chain \o <<l, w>> \o <<w>>)
    BY <1>1, <1>2
  <2> HIDE DEF l, w, c
  <2>2. Extended(chain, l, w, c)
    BY <2>1, QueueFacts
  <2> QED
    BY <2>2 DEF l, w, c
<1> QED
  BY <1>1, <1>2, <1>3 DEF Queues, Extended

(* StartRun: a record of a new run comes last, the oldest may go.          *)
LEMMA StartFacts ==
  ASSUME DurabilityInv, NEW s \in Sessions, NEW r \in Runs, StartRun(s, r)
  PROVE  /\ Queues /\ MemoryOK'
         /\ Unique(ledger') /\ Len(ledger') <= Len(ledger) + 1
         /\ \A i \in DOMAIN ledger' :
              \/ ledger'[i].id = r /\ ledger'[i].session = s
              \/ \E j \in DOMAIN ledger : ledger'[i] = ledger[j]
         /\ Len(ledger) + 1 <= LedgerCap =>
              Has(ledger', r) /\ \A j \in DOMAIN ledger : j \in DOMAIN ledger' /\ ledger'[j] = ledger[j]
<1> USE DurabilityAssumption
<1> DEFINE rec == [id |-> r, session |-> s, outcome |-> "running"]
           longer == Append(ledger, rec)
<1>1. /\ ledger \in Seq(Records) /\ rec \in Records /\ active \in Actives /\ interrupted \in Marks
      /\ chain \in Seq(Writes)
  BY TypeFacts DEF DurabilityInv, MemoryOK, Records
<1>2. \A i \in DOMAIN ledger : ledger[i].id # r
  <2> SUFFICES ASSUME NEW i \in DOMAIN ledger PROVE ledger[i].id \in used
    BY DEF StartRun
  <2>1. <<ledger[i].id, ledger[i].session>> \in Pairs
    BY DEF Pairs, LedgerPairs
  <2> QED
    BY <2>1 DEF DurabilityInv, OwnersAgree
<1>3. /\ longer \in Seq(Records) /\ Len(longer) = Len(ledger) + 1 /\ Len(ledger) \in Nat
      /\ DOMAIN ledger = 1..Len(ledger) /\ DOMAIN longer = 1..Len(ledger) + 1
      /\ \A i \in DOMAIN ledger : longer[i] = ledger[i]
      /\ longer[Len(ledger) + 1] = rec
  BY <1>1
<1>4. ledger' = Capped(longer)
  BY DEF StartRun
<1> HIDE DEF longer
<1>5. /\ ledger' \in Seq(Records) /\ Len(ledger') <= LedgerCap
      /\ Len(ledger') <= Len(ledger) + 1
      /\ Len(longer) <= LedgerCap => ledger' = longer
  BY <1>3, <1>4, CappedFacts
<1>6. PICK d \in Nat : \A i \in DOMAIN ledger' :
        i \in Nat /\ i + d \in DOMAIN longer /\ ledger'[i] = longer[i + d]
  <2>1. \E d \in Nat : \A i \in DOMAIN Capped(longer) :
          i \in Nat /\ i + d \in DOMAIN longer /\ Capped(longer)[i] = longer[i + d]
    BY <1>3, CappedFacts, Zenon
  <2> QED
    BY <2>1, <1>4, Zenon
<1>7. Unique(longer)
  BY <1>2, <1>3 DEF Unique, DurabilityInv, OutcomesFollow
<1>8. Unique(ledger')
  BY <1>6, <1>7 DEF Unique
<1>9. \A i \in DOMAIN ledger' :
        \/ ledger'[i].id = r /\ ledger'[i].session = s
        \/ \E j \in DOMAIN ledger : ledger'[i] = ledger[j]
  BY <1>3, <1>6
<1>10. Len(ledger) + 1 <= LedgerCap =>
         Has(ledger', r) /\ \A j \in DOMAIN ledger : j \in DOMAIN ledger' /\ ledger'[j] = ledger[j]
  BY <1>3, <1>5 DEF Has
<1>11. MemoryOK'
  BY <1>1, <1>5 DEF StartRun, MemoryOK, Actives, Marks
<1>12. Queues
  BY <1>1, <1>11, QueuesBoth DEF StartRun
<1> QED
  BY <1>5, <1>8, <1>9, <1>10, <1>11, <1>12

(* Nothing but outcomes differ, and those are final.                       *)
Settled(before, after) ==
  /\ Len(after) = Len(before) /\ DOMAIN after = DOMAIN before
  /\ \A i \in DOMAIN before :
       /\ after[i].id = before[i].id /\ after[i].session = before[i].session
       /\ after[i].outcome = before[i].outcome \/ after[i].outcome \in Final

(* Finish: nothing but an outcome changes, and that to a final one.        *)
LEMMA FinishFacts ==
  ASSUME DurabilityInv, NEW s \in Sessions, NEW o \in Final,
         Finish(s, o, <<SessionsWrite>>) \/ Finish(s, o, <<>>)
  PROVE  /\ Queues /\ MemoryOK' /\ Settled(ledger, ledger')
         /\ active' = [active EXCEPT ![s] = None] /\ up /\ UNCHANGED <<up, disk, stale, used, failures>>
<1>1. /\ ledger \in Seq(Records) /\ active \in Actives /\ interrupted \in Marks
      /\ chain \in Seq(Writes) /\ Len(ledger) <= LedgerCap
  BY TypeFacts DEF DurabilityInv, MemoryOK
<1>2. PICK I : ledger' = SetOutcome(ledger, I, o)
  BY DEF Finish
<1>3. ledger' \in Seq(Records) /\ Settled(ledger, ledger')
  BY <1>1, <1>2, SetOutcomeFacts DEF Settled
<1>4. active' = [active EXCEPT ![s] = None] /\ up /\ UNCHANGED <<up, disk, stale, used, failures>>
  BY DEF Finish
<1>5. interrupted' \in Marks
  BY <1>1 DEF Finish, Marks
<1>6. MemoryOK'
  BY <1>1, <1>3, <1>4, <1>5 DEF MemoryOK, Actives, Settled
<1>7. Queues
  <2>1. chain' = chain \o <<LedgerWrite, SessionsWrite>> \o <<SessionsWrite>>
          \/ chain' = chain \o <<LedgerWrite, SessionsWrite>> \o <<>>
    BY DEF Finish
  <2>2. chain \o <<LedgerWrite, SessionsWrite>> \o <<>> = chain \o <<LedgerWrite, SessionsWrite>>
    <3>1. LedgerWrite \in Writes /\ SessionsWrite \in Writes
      BY <1>6 DEF MemoryOK, LedgerWrite, SessionsWrite, Writes
    <3>2. chain \o <<LedgerWrite, SessionsWrite>> \in Seq(Writes)
      BY <1>1, <3>1
    <3> QED
      BY <3>2
  <2> QED
    BY <1>1, <1>6, <2>1, <2>2, QueuesBoth
<1> QED
  BY <1>3, <1>4, <1>6, <1>7

(* load(): the ledger file with the runs that were cut off settled.        *)
LEMMA LoadFacts ==
  ASSUME DurabilityInv, Load
  PROVE  /\ MemoryOK' /\ Settled(diskLedger, ledger') /\ active' = EmptyActive
         /\ \/ Queues
            \/ /\ chain' = <<>> /\ ledger' = diskLedger
               /\ active' = diskActive /\ interrupted' = diskInterrupted
         /\ ~up /\ up' /\ UNCHANGED <<disk, stale, used, crashes, failures>>
<1> DEFINE cut == {s \in Sessions : diskActive[s] # None}
           I == UNION {Recovered(s) : s \in cut}
<1>1. /\ diskLedger \in Seq(Records) /\ Len(diskLedger) <= LedgerCap
      /\ diskActive \in Actives /\ diskInterrupted \in Marks /\ chain \in Seq(Writes)
  BY TypeFacts DEF DurabilityInv
<1>2. Capped(diskLedger) = diskLedger
  BY <1>1, CappedFacts
<1>3. /\ ~up /\ up' /\ UNCHANGED <<disk, stale, used, crashes, failures>>
      /\ ledger' = SetOutcome(diskLedger, I, "interrupted")
      /\ active' = EmptyActive
      /\ interrupted' = [s \in Sessions |-> diskInterrupted[s] \/ s \in cut]
      /\ chain' = IF cut # {} THEN <<LedgerWrite, SessionsWrite>> ELSE <<>>
      /\ chain = <<>>
  BY <1>2 DEF Load, DurabilityInv, DownIsEmpty
<1>4. /\ ledger' \in Seq(Records) /\ Settled(diskLedger, ledger')
      /\ \A i \in DOMAIN diskLedger : i \notin I => ledger'[i] = diskLedger[i]
  <2>1. "interrupted" \in Final
    BY DEF Final
  <2> HIDE DEF I
  <2> QED
    BY <1>1, <1>3, <2>1, SetOutcomeFacts DEF Settled
<1>5. MemoryOK'
  <2>1. active' \in Actives /\ interrupted' \in Marks
    BY <1>1, <1>3 DEF EmptyActive, Actives, Marks
  <2> QED
    BY <1>1, <1>4, <2>1 DEF MemoryOK, Settled
<1>6. CASE cut # {}
  <2>1. chain \o <<LedgerWrite, SessionsWrite>> = <<LedgerWrite, SessionsWrite>>
    <3>1. LedgerWrite \in Writes /\ SessionsWrite \in Writes
      BY <1>5 DEF MemoryOK, LedgerWrite, SessionsWrite, Writes
    <3> QED
      BY <1>3, <3>1
  <2>2. Queues
    BY <1>1, <1>3, <1>5, <1>6, <2>1, QueuesBoth
  <2> QED
    BY <1>3, <1>4, <1>5, <2>2
<1>7. CASE cut = {}
  <2>1. I = {}
    BY <1>7
  <2>2. ledger' = diskLedger
    BY <1>1, <1>4, <2>1 DEF Settled
  <2>3. active' = diskActive /\ interrupted' = diskInterrupted
    BY <1>1, <1>3, <1>7 DEF EmptyActive, Actives, Marks
  <2> QED
    BY <1>3, <1>4, <1>5, <1>7, <2>2, <2>3
<1> QED
  BY <1>6, <1>7

-----------------------------------------------------------------------------
(* What queueing both files keeps                                          *)

(* Once both files are queued, the queue ends with the memory as it is, so *)
(* a flushed chain means durable again.                                    *)
LEMMA QueuesFlush ==
  ASSUME chain \in Seq(Writes), Queues
  PROVE  FlushedIsDurable' /\ LastIsMemory'
<1>1. FlushedIsDurable'
  <2>1. /\ Len(chain) + 1 \in DOMAIN chain' /\ chain'[Len(chain) + 1].file = "ledger"
        /\ Len(chain) + 2 \in DOMAIN chain' /\ chain'[Len(chain) + 2].file = "sessions"
    BY DEF Queues
  <2> QED
    BY <2>1 DEF FlushedIsDurable, Queued
<1>2. ASSUME NEW i \in DOMAIN chain',
             \A j \in DOMAIN chain' : j > i => chain'[j].file # chain'[i].file
      PROVE  /\ chain'[i].file = "ledger" => chain'[i].ledger = ledger'
             /\ chain'[i].file = "sessions" =>
                  chain'[i].active = active' /\ chain'[i].interrupted = interrupted'
  <2>1. CASE i \in DOMAIN chain
    <3>1. chain'[i].file \notin {"ledger", "sessions"}
      BY <1>2, <2>1 DEF Queues
    <3> QED
      BY <3>1
  <2>2. CASE i \notin DOMAIN chain
    BY <1>2, <2>2 DEF Queues
  <2> QED
    BY <2>1, <2>2
<1> QED
  BY <1>1, <1>2 DEF LastIsMemory

(* Queueing the memory names no owner that the memory does not name.       *)
LEMMA QueuesOwners ==
  ASSUME Queues, NEW F, UNCHANGED disk,
         LedgerPairs(ledger') \subseteq Pairs \cup F, ActivePairs(active') \subseteq Pairs \cup F
  PROVE  Pairs' \subseteq Pairs \cup F
<1>1. ASSUME NEW i \in QueuedLedgers' PROVE LedgerPairs(chain'[i].ledger) \subseteq Pairs \cup F
  <2>1. CASE i \in DOMAIN chain
    BY <1>1, <2>1 DEF Queues, QueuedLedgers, Pairs
  <2>2. CASE i \notin DOMAIN chain
    <3>1. chain'[i].ledger = ledger'
      BY <1>1, <2>2 DEF Queues, QueuedLedgers
    <3> QED
      BY <3>1
  <2> QED
    BY <2>1, <2>2
<1>2. ASSUME NEW i \in QueuedSessions' PROVE ActivePairs(chain'[i].active) \subseteq Pairs \cup F
  <2>1. CASE i \in DOMAIN chain
    BY <1>2, <2>1 DEF Queues, QueuedSessions, QueuedLedgers, Pairs
  <2>2. CASE i \notin DOMAIN chain
    <3>1. chain'[i].active = active'
      BY <1>2, <2>2 DEF Queues, QueuedSessions, QueuedLedgers
    <3> QED
      BY <3>1
  <2> QED
    BY <2>1, <2>2
<1>3. /\ LedgerPairs(diskLedger') \subseteq Pairs \cup F
      /\ ActivePairs(diskActive') \subseteq Pairs \cup F
  BY DEF disk, Pairs
<1>4. Pairs' = LedgerPairs(ledger') \cup ActivePairs(active')
                 \cup LedgerPairs(diskLedger') \cup ActivePairs(diskActive')
                 \cup (UNION {LedgerPairs(chain'[i].ledger) : i \in QueuedLedgers'})
                 \cup (UNION {ActivePairs(chain'[i].active) : i \in QueuedSessions'})
  BY DEF Pairs, LedgerPairs, ActivePairs
<1> QED
  BY <1>1, <1>2, <1>3, <1>4

(* No pair is new but of a run that was not used before.                   *)
LEMMA OwnersKept ==
  ASSUME OwnersAgree, NEW r, NEW s, used \subseteq used',
         Pairs' \subseteq Pairs \/ (Pairs' \subseteq Pairs \cup {<<r, s>>} /\ r \notin used /\ r \in used')
  PROVE  OwnersAgree'
BY DEF OwnersAgree

(* The queued ledger comes behind all others: no outcome is taken back if  *)
(* the memory's ledger took none back.                                     *)
LEMMA QueuesOutcomes ==
  ASSUME OutcomesFollow, Queues, UNCHANGED disk, Unique(ledger'),
         Follows(diskLedger, ledger'),
         \A i \in QueuedLedgers : Follows(chain[i].ledger, ledger')
  PROVE  OutcomesFollow'
<1>1. Follows(ledger', ledger')
  BY DEF Unique, Follows
<1>2. \A i \in QueuedLedgers' :
        \/ i \in QueuedLedgers /\ chain'[i] = chain[i]
        \/ i = Len(chain) + 1 /\ chain'[i].ledger = ledger'
  BY DEF Queues, QueuedLedgers
<1>3. \A i, j \in QueuedLedgers' : i < j => ~(i = Len(chain) + 1 /\ j \in QueuedLedgers)
  BY DEF Queues, QueuedLedgers
<1>4. /\ Unique(diskLedger)
      /\ \A i \in QueuedLedgers :
           /\ Unique(chain[i].ledger) /\ Follows(diskLedger, chain[i].ledger)
           /\ \A j \in QueuedLedgers : i < j => Follows(chain[i].ledger, chain[j].ledger)
  BY DEF OutcomesFollow
<1>5. \A i \in QueuedLedgers' :
        /\ Unique(chain'[i].ledger) /\ Follows(diskLedger, chain'[i].ledger)
        /\ Follows(chain'[i].ledger, ledger')
        /\ \A j \in QueuedLedgers' : i < j => Follows(chain'[i].ledger, chain'[j].ledger)
  BY <1>1, <1>2, <1>3, <1>4
<1>6. diskLedger' = diskLedger
  BY DEF disk
<1> QED
  BY <1>4, <1>5, <1>6 DEF OutcomesFollow, Unique, Follows

(* The ledger goes ahead of the sessions that point into it, so an active  *)
(* run it lists is written before them.                                    *)
LEMMA QueuesGrow ==
  ASSUME RecordGoesFirst, Queues, UNCHANGED disk, NothingDropped' => NothingDropped,
         NothingDropped' =>
           /\ Grows(diskLedger, ledger')
           /\ \A i \in QueuedLedgers : Grows(chain[i].ledger, ledger')
           /\ \A s \in Sessions :
                active'[s] # None => Has(ledger', active'[s]) \/ active'[s] = active[s]
  PROVE  RecordGoesFirst'
<1> SUFFICES ASSUME NothingDropped' PROVE RecordGoesFirst'
  BY DEF RecordGoesFirst
<1>1. NothingDropped
  OBVIOUS
<1>2. diskLedger' = diskLedger
  BY DEF disk
<1>3. \A i \in QueuedLedgers : i \in QueuedLedgers' /\ chain'[i] = chain[i] /\ i < Len(chain) + 1
  BY DEF Queues, QueuedLedgers
<1>4. Len(chain) + 1 \in QueuedLedgers' /\ chain'[Len(chain) + 1].ledger = ledger'
  BY DEF Queues, QueuedLedgers
<1>5. \A i \in QueuedLedgers' :
        \/ i \in QueuedLedgers /\ chain'[i] = chain[i]
        \/ i = Len(chain) + 1 /\ chain'[i].ledger = ledger'
  BY DEF Queues, QueuedLedgers
<1>6. \A i, j \in QueuedLedgers' : i < j => ~(i = Len(chain) + 1 /\ j \in QueuedLedgers)
  BY DEF Queues, QueuedLedgers
<1>7. Grows(ledger', ledger')
  BY DEF Grows, Has
<1>8. /\ \A i \in QueuedLedgers :
           /\ Grows(diskLedger, chain[i].ledger)
           /\ \A j \in QueuedLedgers : i < j => Grows(chain[i].ledger, chain[j].ledger)
      /\ \A s \in Sessions :
           /\ active[s] # None => WrittenBefore(active[s], Len(chain) + 1)
           /\ \A k \in QueuedSessions :
                chain[k].active[s] # None => WrittenBefore(chain[k].active[s], k)
  BY <1>1 DEF RecordGoesFirst
<1>9. /\ Grows(diskLedger, ledger')
      /\ \A i \in QueuedLedgers' :
           /\ Grows(diskLedger, chain'[i].ledger) /\ Grows(chain'[i].ledger, ledger')
           /\ \A j \in QueuedLedgers' : i < j => Grows(chain'[i].ledger, chain'[j].ledger)
  BY <1>1, <1>5, <1>6, <1>7, <1>8
<1> DEFINE Before(r, k) ==
      Has(diskLedger, r) \/ \E i \in QueuedLedgers' : i < k /\ Has(chain'[i].ledger, r)
<1>10. ASSUME NEW s \in Sessions, active'[s] # None
       PROVE  \A k \in Nat : k > Len(chain) + 1 => Before(active'[s], k)
  <2>1. CASE Has(ledger', active'[s])
    BY <1>4, <2>1 DEF Queues
  <2>2. CASE active'[s] = active[s]
    <3>1. WrittenBefore(active[s], Len(chain) + 1)
      BY <1>8, <1>10, <2>2
    <3>2. \A i \in QueuedLedgers : \A k \in Nat : k > Len(chain) + 1 => i < k
      BY DEF Queues, QueuedLedgers
    <3> QED
      BY <1>3, <2>2, <3>1, <3>2 DEF WrittenBefore
  <2> QED
    BY <1>1, <1>10, <2>1, <2>2
<1>11. ASSUME NEW s \in Sessions, NEW k \in QueuedSessions', chain'[k].active[s] # None
       PROVE  Before(chain'[k].active[s], k)
  <2>1. CASE k \in DOMAIN chain
    <3>1. k \in QueuedSessions /\ chain'[k] = chain[k]
      BY <1>11, <2>1 DEF Queues, QueuedSessions, QueuedLedgers
    <3>2. WrittenBefore(chain[k].active[s], k)
      BY <1>8, <1>11, <3>1
    <3> QED
      BY <1>3, <3>1, <3>2 DEF WrittenBefore
  <2>2. CASE k \notin DOMAIN chain
    <3>1. chain'[k].active = active' /\ k \in Nat /\ k > Len(chain) + 1
      BY <1>11, <2>2 DEF Queues, QueuedSessions, QueuedLedgers
    <3> QED
      BY <1>10, <1>11, <3>1
  <2> QED
    BY <2>1, <2>2
<1>12. Len(chain') + 1 \in Nat /\ Len(chain') + 1 > Len(chain) + 1
  BY DEF Queues
<1> QED
  BY <1>2, <1>9, <1>10, <1>11, <1>12
  DEF RecordGoesFirst, WrittenBefore, Grows, Has, QueuedLedgers, QueuedSessions

(* The queued ledger is the memory's, so no queued ledger lists more runs  *)
(* than were started.                                                      *)
LEMMA QueuesFit ==
  ASSUME DurabilityInv, Queues, MemoryOK', UNCHANGED disk,
         IsFiniteSet(used'), Cardinality(used) <= Cardinality(used'), Cardinality(used') \in Nat,
         Len(ledger') <= Cardinality(used')
  PROVE  LedgerFits'
<1>1. \A i \in QueuedLedgers' :
        \/ i \in QueuedLedgers /\ chain'[i] = chain[i]
        \/ chain'[i].ledger = ledger'
  BY DEF Queues, QueuedLedgers
<1>2. /\ Cardinality(used) \in Nat /\ LedgerCap \in Nat
      /\ Len(ledger') \in Nat /\ Len(ledger') <= LedgerCap
      /\ diskLedger' = diskLedger /\ Len(diskLedger) \in Nat /\ Len(diskLedger) <= Cardinality(used)
  BY TypeFacts, FS_CardinalityType, DurabilityAssumption DEF DurabilityInv, LedgerFits, MemoryOK, disk
<1>3. \A i \in QueuedLedgers :
        /\ Len(chain[i].ledger) \in Nat /\ Len(chain[i].ledger) <= LedgerCap
        /\ Len(chain[i].ledger) <= Cardinality(used)
  BY TypeFacts, WriteFacts DEF DurabilityInv, LedgerFits, QueuedLedgers
<1>4. \A i \in QueuedLedgers' :
        Len(chain'[i].ledger) <= LedgerCap /\ Len(chain'[i].ledger) <= Cardinality(used')
  BY <1>1, <1>2, <1>3
<1>5. Len(diskLedger') <= Cardinality(used')
  BY <1>2
<1> QED
  BY <1>4, <1>5 DEF LedgerFits

(* Queueing both files keeps the types.                                    *)
LEMMA QueuesType ==
  ASSUME TypeOK, Queues, MemoryOK', UNCHANGED <<disk, stale, failures>>,
         up' \in BOOLEAN, used' \subseteq Runs, UNCHANGED crashes
  PROVE  TypeOK'
BY DEF TypeOK, Queues, MemoryOK, Writes, Actives, Marks, disk

(* The sessions file is not written by such a step, and what the ledger    *)
(* must list for it does not change.                                       *)
LEMMA DiskKept ==
  ASSUME ActiveIsInLedger, UNCHANGED disk, NothingDropped' => NothingDropped
  PROVE  ActiveIsInLedger'
BY DEF ActiveIsInLedger, disk

-----------------------------------------------------------------------------
(* Every step keeps the invariant                                          *)

(* startRun() keeps the invariant: its run is new, so it has no other      *)
(* owner and no outcome to take back.                                      *)
LEMMA StartStep ==
  ASSUME DurabilityInv, NEW s \in Sessions, NEW r \in Runs, StartRun(s, r)
  PROVE  DurabilityInv'
<1>1. /\ Queues /\ MemoryOK' /\ Unique(ledger') /\ Len(ledger') <= Len(ledger) + 1
      /\ \A i \in DOMAIN ledger' :
           \/ ledger'[i].id = r /\ ledger'[i].session = s
           \/ \E j \in DOMAIN ledger : ledger'[i] = ledger[j]
      /\ Len(ledger) + 1 <= LedgerCap =>
           Has(ledger', r) /\ \A j \in DOMAIN ledger : j \in DOMAIN ledger' /\ ledger'[j] = ledger[j]
  BY StartFacts
<1>2. /\ up /\ up' = up /\ r \notin used /\ used' = used \cup {r}
      /\ active' = [active EXCEPT ![s] = r]
      /\ UNCHANGED disk /\ UNCHANGED <<stale, crashes, failures>>
  BY DEF StartRun
<1>3. /\ chain \in Seq(Writes) /\ Len(ledger) \in Nat /\ active \in Actives
      /\ ledger' \in Seq(Records) /\ Len(ledger') \in Nat /\ up \in BOOLEAN /\ used \subseteq Runs
  BY <1>1, TypeFacts DEF DurabilityInv, MemoryOK, TypeOK
<1>4. /\ IsFiniteSet(used') /\ Cardinality(used) \in Nat
      /\ Cardinality(used') = Cardinality(used) + 1 /\ Len(ledger) <= Cardinality(used)
  BY <1>2, FS_AddElement, FS_CardinalityType DEF DurabilityInv, LedgerFits
<1>5. NothingDropped' => NothingDropped /\ Len(ledger) + 1 <= LedgerCap
  BY <1>2, <1>3, <1>4, DurabilityAssumption DEF NothingDropped
<1>6. TypeOK'
  BY <1>1, <1>2, <1>3, QueuesType DEF DurabilityInv
<1>7. FlushedIsDurable' /\ LastIsMemory'
  BY <1>1, <1>3, QueuesFlush
<1>8. ActiveIsInLedger'
  BY <1>2, <1>5, DiskKept DEF DurabilityInv
<1>9. OwnersAgree'
  <2>1. LedgerPairs(ledger') \subseteq Pairs \cup {<<r, s>>}
    BY <1>1 DEF LedgerPairs, Pairs
  <2>2. ActivePairs(active') \subseteq Pairs \cup {<<r, s>>}
    BY <1>2, <1>3 DEF ActivePairs, Pairs, Actives
  <2>3. Pairs' \subseteq Pairs \cup {<<r, s>>}
    BY <1>1, <1>2, <2>1, <2>2, QueuesOwners
  <2> QED
    BY <1>2, <2>3, OwnersKept DEF DurabilityInv
<1>10. OutcomesFollow'
  <2>1. \A i \in DOMAIN ledger' : ledger'[i].id # r => \E j \in DOMAIN ledger : ledger'[i] = ledger[j]
    BY <1>1
  <2>2. ASSUME NEW before, LedgerPairs(before) \subseteq Pairs, Follows(before, ledger)
        PROVE  Follows(before, ledger')
    <3>1. \A i \in DOMAIN before : before[i].id # r
      <4> SUFFICES ASSUME NEW i \in DOMAIN before PROVE before[i].id \in used
        BY <1>2
      <4>1. <<before[i].id, before[i].session>> \in Pairs
        BY <2>2 DEF LedgerPairs
      <4> QED
        BY <4>1 DEF DurabilityInv, OwnersAgree
    <3> QED
      BY <2>1, <2>2, <3>1 DEF Follows
  <2>3. Follows(diskLedger, ledger')
    BY <1>2, <2>2 DEF DurabilityInv, OutcomesFollow, Pairs
  <2>4. \A i \in QueuedLedgers : Follows(chain[i].ledger, ledger')
    BY <2>2 DEF DurabilityInv, OutcomesFollow, Pairs
  <2> QED
    BY <1>1, <1>2, <2>3, <2>4, QueuesOutcomes DEF DurabilityInv
<1>11. RecordGoesFirst'
  <2> SUFFICES ASSUME NothingDropped'
               PROVE  /\ Grows(diskLedger, ledger')
                      /\ \A i \in QueuedLedgers : Grows(chain[i].ledger, ledger')
                      /\ \A t \in Sessions :
                           active'[t] # None => Has(ledger', active'[t]) \/ active'[t] = active[t]
    BY <1>1, <1>2, <1>5, QueuesGrow DEF DurabilityInv
  <2>1. Has(ledger', r) /\ \A id : Has(ledger, id) => Has(ledger', id)
    BY <1>1, <1>5 DEF Has
  <2>2. Grows(diskLedger, ledger) /\ \A i \in QueuedLedgers : Grows(chain[i].ledger, ledger)
    BY <1>2, <1>5 DEF DurabilityInv, RecordGoesFirst
  <2>3. \A t \in Sessions : active'[t] # None => Has(ledger', active'[t]) \/ active'[t] = active[t]
    BY <1>2, <1>3, <2>1 DEF Actives
  <2> QED
    BY <2>1, <2>2, <2>3 DEF Grows
<1>12. DownIsEmpty'
  BY <1>2 DEF DownIsEmpty
<1>13. LedgerFits'
  BY <1>1, <1>2, <1>3, <1>4, QueuesFit
<1> QED
  BY <1>6, <1>7, <1>8, <1>9, <1>10, <1>11, <1>12, <1>13 DEF DurabilityInv

(* A settled ledger lists the same runs of the same sessions, and what it  *)
(* followed before it follows still.                                       *)
LEMMA SettledFacts ==
  ASSUME NEW before, NEW after, Settled(before, after)
  PROVE  /\ LedgerPairs(after) = LedgerPairs(before)
         /\ \A r : Has(before, r) => Has(after, r)
         /\ \A x : Grows(x, before) => Grows(x, after)
         /\ \A x : Follows(x, before) => Follows(x, after)
         /\ Unique(before) => Unique(after) /\ Follows(before, after)
<1>1. LedgerPairs(after) = LedgerPairs(before)
  BY DEF Settled, LedgerPairs
<1>2. /\ \A r : Has(before, r) => Has(after, r)
      /\ \A x : Grows(x, before) => Grows(x, after)
  BY DEF Settled, Has, Grows
<1>3. \A x : Follows(x, before) => Follows(x, after)
  BY DEF Settled, Follows
<1>4. Unique(before) => Unique(after) /\ Follows(before, after)
  BY DEF Settled, Unique, Follows
<1> QED
  BY <1>1, <1>2, <1>3, <1>4

(* finish() keeps the invariant: it settles at most one record of the      *)
(* ledger and clears the session that pointed to it.                       *)
LEMMA FinishStep ==
  ASSUME DurabilityInv, NEW s \in Sessions, TurnEnds(s)
  PROVE  DurabilityInv'
<1>1. PICK o \in Final : Finish(s, o, <<SessionsWrite>>) \/ Finish(s, o, <<>>)
  BY DEF TurnEnds, Final
<1>2. /\ Queues /\ MemoryOK' /\ Settled(ledger, ledger')
      /\ active' = [active EXCEPT ![s] = None] /\ up
      /\ UNCHANGED disk /\ UNCHANGED <<up, stale, used, failures>>
  BY <1>1, FinishFacts
<1>3. UNCHANGED crashes
  BY <1>1 DEF Finish
<1>4. /\ chain \in Seq(Writes) /\ active \in Actives /\ up \in BOOLEAN /\ used \subseteq Runs
  BY <1>1, TypeFacts DEF DurabilityInv, MemoryOK, TypeOK
<1>5. NothingDropped' => NothingDropped
  BY <1>2 DEF NothingDropped
<1>6. /\ LedgerPairs(ledger') = LedgerPairs(ledger)
      /\ \A r : Has(ledger, r) => Has(ledger', r)
      /\ \A x : Grows(x, ledger) => Grows(x, ledger')
      /\ \A x : Follows(x, ledger) => Follows(x, ledger')
      /\ Unique(ledger) => Unique(ledger')
  BY <1>2, SettledFacts
<1>7. TypeOK'
  BY <1>2, <1>3, <1>4, QueuesType DEF DurabilityInv
<1>8. FlushedIsDurable' /\ LastIsMemory'
  BY <1>2, <1>4, QueuesFlush
<1>9. ActiveIsInLedger'
  BY <1>2, <1>5, DiskKept DEF DurabilityInv
<1>10. OwnersAgree'
  <2>1. LedgerPairs(ledger') \subseteq Pairs \cup {}
    BY <1>6 DEF Pairs
  <2>2. ActivePairs(active') \subseteq Pairs \cup {}
    BY <1>2, <1>4 DEF ActivePairs, Pairs, Actives
  <2>3. Pairs' \subseteq Pairs
    BY <1>2, <2>1, <2>2, QueuesOwners
  <2> QED
    BY <1>2, <2>3, OwnersKept DEF DurabilityInv
<1>11. OutcomesFollow'
  BY <1>2, <1>6, QueuesOutcomes DEF DurabilityInv, OutcomesFollow
<1>12. RecordGoesFirst'
  <2>1. NothingDropped' =>
           /\ Grows(diskLedger, ledger')
           /\ \A i \in QueuedLedgers : Grows(chain[i].ledger, ledger')
    BY <1>2, <1>5, <1>6 DEF DurabilityInv, RecordGoesFirst
  <2>2. \A t \in Sessions :
          active'[t] # None => Has(ledger', active'[t]) \/ active'[t] = active[t]
    BY <1>2, <1>4 DEF Actives
  <2> QED
    BY <1>2, <1>5, <2>1, <2>2, QueuesGrow DEF DurabilityInv
<1>13. DownIsEmpty'
  BY <1>2 DEF DownIsEmpty
<1>14. LedgerFits'
  <2>1. /\ IsFiniteSet(used') /\ Cardinality(used) = Cardinality(used') /\ Cardinality(used') \in Nat
        /\ Len(ledger') <= Cardinality(used')
    BY <1>2, FS_CardinalityType DEF DurabilityInv, LedgerFits, Settled
  <2> QED
    BY <1>2, <2>1, QueuesFit
<1> QED
  BY <1>7, <1>8, <1>9, <1>10, <1>11, <1>12, <1>13, <1>14 DEF DurabilityInv

(* load() keeps the invariant: the memory becomes what the files say, with *)
(* the runs that were cut off settled.                                     *)
LEMMA LoadStep ==
  ASSUME DurabilityInv, Load
  PROVE  DurabilityInv'
<1>1. /\ MemoryOK' /\ Settled(diskLedger, ledger') /\ active' = EmptyActive
      /\ ~up /\ up' /\ UNCHANGED disk /\ UNCHANGED <<stale, used, crashes, failures>>
  BY LoadFacts
<1>2. \/ Queues
      \/ /\ chain' = <<>> /\ ledger' = diskLedger
         /\ active' = diskActive /\ interrupted' = diskInterrupted
  BY LoadFacts
<1>3. up' \in BOOLEAN /\ chain = <<>> /\ QueuedLedgers = {} /\ chain \in Seq(Writes)
  <2>1. up' = TRUE /\ chain = <<>>
    BY DEF Load, DurabilityInv, DownIsEmpty
  <2>2. DOMAIN chain = {}
    BY <2>1
  <2> QED
    BY <2>1, <2>2 DEF QueuedLedgers
<1>4. /\ LedgerPairs(ledger') = LedgerPairs(diskLedger)
      /\ Unique(ledger') /\ Follows(diskLedger, ledger') /\ Grows(diskLedger, ledger')
  <2>1. Unique(diskLedger) /\ Grows(diskLedger, diskLedger)
    BY DEF DurabilityInv, OutcomesFollow, Grows, Has
  <2> QED
    BY <1>1, <2>1, SettledFacts
<1>5. NothingDropped' => NothingDropped
  BY <1>1 DEF NothingDropped
<1>6. \A t \in Sessions : active'[t] = None
  BY <1>1 DEF EmptyActive
<1>7. ActiveIsInLedger' /\ DownIsEmpty'
  BY <1>1, <1>5, DiskKept DEF DurabilityInv, DownIsEmpty
<1>8. /\ IsFiniteSet(used') /\ Cardinality(used) = Cardinality(used') /\ Cardinality(used') \in Nat
      /\ Len(ledger') <= Cardinality(used') /\ Len(diskLedger) <= Cardinality(used')
  BY <1>1, FS_CardinalityType DEF DurabilityInv, LedgerFits, Settled
<1>9. CASE Queues
  <2>1. TypeOK'
    BY <1>1, <1>3, <1>9, QueuesType DEF DurabilityInv, TypeOK
  <2>2. FlushedIsDurable' /\ LastIsMemory'
    BY <1>3, <1>9, QueuesFlush
  <2>3. OwnersAgree'
    <3>1. LedgerPairs(ledger') \subseteq Pairs \cup {} /\ ActivePairs(active') \subseteq Pairs \cup {}
      BY <1>4, <1>6 DEF Pairs, ActivePairs
    <3>2. Pairs' \subseteq Pairs
      BY <1>1, <1>9, <3>1, QueuesOwners
    <3> QED
      BY <1>1, <3>2, OwnersKept DEF DurabilityInv
  <2>4. OutcomesFollow'
    BY <1>1, <1>3, <1>4, <1>9, QueuesOutcomes DEF DurabilityInv
  <2>5. RecordGoesFirst'
    BY <1>1, <1>3, <1>4, <1>5, <1>6, <1>9, QueuesGrow DEF DurabilityInv
  <2>6. LedgerFits'
    BY <1>1, <1>8, <1>9, QueuesFit
  <2> QED
    BY <1>7, <2>1, <2>2, <2>3, <2>4, <2>5, <2>6 DEF DurabilityInv
<1>10. CASE /\ chain' = <<>> /\ ledger' = diskLedger
            /\ active' = diskActive /\ interrupted' = diskInterrupted
  <2>1. DOMAIN chain' = {} /\ QueuedLedgers' = {} /\ QueuedSessions' = {}
    <3>1. DOMAIN chain' = {}
      BY <1>10
    <3> QED
      BY <3>1 DEF QueuedLedgers, QueuedSessions
  <2>2. /\ diskLedger' = diskLedger /\ diskActive' = diskActive
        /\ diskInterrupted' = diskInterrupted
    BY <1>1 DEF disk
  <2>3. TypeOK'
    BY <1>1, <1>3, <1>10, <2>2 DEF DurabilityInv, TypeOK, MemoryOK, Actives, Marks
  <2>4. FlushedIsDurable' /\ LastIsMemory'
    BY <1>10, <2>1, <2>2 DEF FlushedIsDurable, LastIsMemory
  <2>5. OwnersAgree'
    <3>1. Pairs' \subseteq Pairs
      BY <1>10, <2>1, <2>2 DEF Pairs, LedgerPairs, ActivePairs
    <3> QED
      BY <1>1, <3>1, OwnersKept DEF DurabilityInv
  <2>6. OutcomesFollow'
    BY <1>4, <1>10, <2>1, <2>2 DEF DurabilityInv, OutcomesFollow
  <2>7. RecordGoesFirst'
    BY <1>4, <1>6, <1>10, <2>1, <2>2 DEF DurabilityInv, RecordGoesFirst
  <2>8. LedgerFits'
    BY <1>8, <1>10, <2>1, <2>2 DEF LedgerFits
  <2> QED
    BY <1>7, <2>3, <2>4, <2>5, <2>6, <2>7, <2>8 DEF DurabilityInv
<1> QED
  BY <1>2, <1>9, <1>10

(* A frame queues the sessions, which the memory agrees with.              *)
LEMMA FrameStep ==
  ASSUME DurabilityInv, NEW t \in Sessions, Frame(t)
  PROVE  DurabilityInv'
<1> DEFINE n == Len(chain)
<1>1. /\ up /\ UNCHANGED <<up, memory, disk, stale, used, crashes, failures>>
      /\ chain' = Append(chain, SessionsWrite)
  BY DEF Frame
<1>2. /\ ledger' = ledger /\ active' = active /\ interrupted' = interrupted
      /\ diskLedger' = diskLedger /\ diskActive' = diskActive /\ diskInterrupted' = diskInterrupted
      /\ up' = up /\ stale' = stale /\ used' = used /\ crashes' = crashes /\ failures' = failures
  BY <1>1 DEF memory, disk
<1>3. /\ chain \in Seq(Writes) /\ MemoryOK
  BY TypeFacts DEF DurabilityInv
<1>4. /\ SessionsWrite \in Writes /\ SessionsWrite.file = "sessions"
      /\ SessionsWrite.active = active /\ SessionsWrite.interrupted = interrupted
  BY <1>2, <1>3 DEF SessionsWrite, Writes, MemoryOK
<1>5. /\ n \in Nat /\ DOMAIN chain = 1..n /\ chain' \in Seq(Writes)
      /\ Len(chain') = n + 1 /\ DOMAIN chain' = 1..(n + 1)
      /\ \A i \in DOMAIN chain : i \in DOMAIN chain' /\ chain'[i] = chain[i] /\ i < n + 1
      /\ n + 1 \in DOMAIN chain' /\ chain'[n + 1].file = "sessions"
      /\ chain'[n + 1].active = active /\ chain'[n + 1].interrupted = interrupted
      /\ \A i \in DOMAIN chain' : i \in DOMAIN chain \/ i = n + 1
  <2> DEFINE w == SessionsWrite
  <2>1. w \in Writes /\ chain' = Append(chain, w)
    BY <1>1, <1>4
  <2> HIDE DEF w
  <2>2. /\ n \in Nat /\ DOMAIN chain = 1..n /\ chain' \in Seq(Writes)
        /\ Len(chain') = n + 1 /\ DOMAIN chain' = 1..(n + 1)
        /\ \A i \in DOMAIN chain : i \in DOMAIN chain' /\ chain'[i] = chain[i] /\ i < n + 1
        /\ n + 1 \in DOMAIN chain' /\ chain'[n + 1] = w
        /\ \A i \in DOMAIN chain' : i \in DOMAIN chain \/ i = n + 1
    BY <1>3, <2>1
  <2> QED
    BY <2>2, <1>4 DEF w
<1> HIDE DEF n
<1>6. /\ QueuedLedgers' = QueuedLedgers
      /\ \A i \in QueuedLedgers : i \in DOMAIN chain /\ chain'[i] = chain[i] /\ i < n + 1
      /\ \A i \in QueuedSessions' : (i \in QueuedSessions /\ chain'[i] = chain[i]) \/ i = n + 1
  BY <1>5 DEF QueuedLedgers, QueuedSessions
<1>7. TypeOK'
  BY <1>2, <1>3, <1>5 DEF DurabilityInv, TypeOK, MemoryOK, Writes, Actives, Marks
<1>8. FlushedIsDurable'
  <2>1. (Queued("ledger") => Queued("ledger")') /\ Queued("sessions")'
    BY <1>5 DEF Queued
  <2> QED
    BY <1>2, <2>1 DEF FlushedIsDurable, DurabilityInv
<1>9. ActiveIsInLedger' /\ DownIsEmpty'
  BY <1>1, <1>2 DEF ActiveIsInLedger, DurabilityInv, NothingDropped, DownIsEmpty
<1>10. LastIsMemory'
  <2>1. ASSUME NEW i \in DOMAIN chain',
               \A j \in DOMAIN chain' : j > i => chain'[j].file # chain'[i].file
        PROVE  /\ chain'[i].file = "ledger" => chain'[i].ledger = ledger
               /\ chain'[i].file = "sessions" =>
                    chain'[i].active = active /\ chain'[i].interrupted = interrupted
    <3>1. CASE i = n + 1
      BY <3>1, <1>5
    <3>2. CASE i \in DOMAIN chain
      <4>1. chain'[i].file # "sessions" /\ \A j \in DOMAIN chain : j > i => chain[j].file # chain[i].file
        BY <2>1, <1>5, <3>2
      <4> QED
        BY <1>1, <1>5, <3>2, <4>1 DEF DurabilityInv, LastIsMemory
    <3> QED
      BY <1>5, <3>1, <3>2
  <2> QED
    BY <1>2, <2>1 DEF LastIsMemory
<1>11. OwnersAgree'
  <2>1. \A i \in QueuedSessions' : ActivePairs(chain'[i].active) \subseteq Pairs
    BY <1>5, <1>6 DEF Pairs
  <2>2. Pairs' = LedgerPairs(ledger) \cup ActivePairs(active)
                   \cup LedgerPairs(diskLedger) \cup ActivePairs(diskActive)
                   \cup (UNION {LedgerPairs(chain'[i].ledger) : i \in QueuedLedgers})
                   \cup (UNION {ActivePairs(chain'[i].active) : i \in QueuedSessions'})
    BY <1>2, <1>6 DEF Pairs, LedgerPairs, ActivePairs
  <2>3. Pairs' \subseteq Pairs
    BY <1>6, <2>1, <2>2 DEF Pairs
  <2> QED
    BY <1>2, <2>3, OwnersKept DEF DurabilityInv
<1>12. OutcomesFollow'
  BY <1>2, <1>6 DEF DurabilityInv, OutcomesFollow, Unique, Follows
<1>13. RecordGoesFirst'
  <2> SUFFICES ASSUME NothingDropped' PROVE RecordGoesFirst'
    BY DEF RecordGoesFirst
  <2>1. NothingDropped /\ RecordGoesFirst
    BY <1>2 DEF NothingDropped, DurabilityInv
  <2>2. \A s \in Sessions : active[s] # None =>
          WrittenBefore(active[s], n + 1) /\ WrittenBefore(active[s], n + 2)
    BY <2>1, <1>5, <1>6 DEF RecordGoesFirst, WrittenBefore, n
  <2>3. \A r, k : WrittenBefore(r, k)' <=> WrittenBefore(r, k)
    BY <1>2, <1>6 DEF WrittenBefore, Has
  <2>4. \A s \in Sessions, k \in QueuedSessions' :
          chain'[k].active[s] # None => WrittenBefore(chain'[k].active[s], k)
    <3> TAKE s \in Sessions, k \in QueuedSessions'
    <3>1. CASE k \in QueuedSessions /\ chain'[k] = chain[k]
      BY <2>1, <3>1 DEF RecordGoesFirst
    <3>2. CASE k = n + 1
      BY <1>5, <2>2, <3>2
    <3> QED
      BY <1>6, <3>1, <3>2
  <2>5. Len(chain') + 1 = n + 2
    BY <1>5
  <2>6. /\ (up' => Grows(diskLedger', ledger'))
        /\ \A i \in QueuedLedgers' :
             /\ Grows(diskLedger', chain'[i].ledger) /\ Grows(chain'[i].ledger, ledger')
             /\ \A j \in QueuedLedgers' : i < j => Grows(chain'[i].ledger, chain'[j].ledger)
    BY <1>2, <1>6, <2>1 DEF RecordGoesFirst, Grows, Has
  <2> QED
    BY <1>2, <2>2, <2>3, <2>4, <2>5, <2>6 DEF RecordGoesFirst, Grows, Has
<1>14. LedgerFits'
  BY <1>2, <1>6 DEF DurabilityInv, LedgerFits
<1> QED
  BY <1>7, <1>8, <1>9, <1>10, <1>11, <1>12, <1>13, <1>14 DEF DurabilityInv

-----------------------------------------------------------------------------
(* The steps that take the head of the queue                               *)

(* What the queue is after it: everything moved up by one.                 *)
HeadGone ==
  /\ 1 \in DOMAIN chain /\ chain' \in Seq(Writes)
  /\ \A i \in DOMAIN chain' :
       i \in Nat /\ i + 1 \in DOMAIN chain /\ i + 1 > 1 /\ chain'[i] = chain[i + 1]
  /\ \A i \in DOMAIN chain :
       i \in Nat /\ (i = 1 \/ (i - 1 \in DOMAIN chain' /\ chain'[i - 1] = chain[i]))
  /\ \A i \in QueuedLedgers' : i \in Nat /\ i + 1 \in QueuedLedgers /\ chain'[i] = chain[i + 1]
  /\ \A i \in QueuedSessions' : i \in Nat /\ i + 1 \in QueuedSessions /\ chain'[i] = chain[i + 1]
  /\ \A i \in QueuedLedgers :
       i \in Nat /\ (i = 1 \/ (i - 1 \in QueuedLedgers' /\ chain'[i - 1] = chain[i]))
  /\ Len(chain) \in Nat /\ Len(chain') + 1 = Len(chain) /\ Len(chain') \in Nat
  /\ \A i \in DOMAIN chain : i = 1 \/ i > 1

(* The tail of the queue is the queue moved up by one.                     *)
LEMMA HeadGoneFacts ==
  ASSUME chain \in Seq(Writes), chain # <<>>, chain' = Tail(chain)
  PROVE  HeadGone /\ Head(chain) = chain[1]
<1>1. /\ Tail(chain) \in Seq(Writes) /\ Head(chain) = chain[1] /\ 1 \in DOMAIN chain
      /\ DOMAIN chain = 1..Len(chain) /\ Len(chain) \in Nat /\ Len(Tail(chain)) = Len(chain) - 1
      /\ \A i \in DOMAIN Tail(chain) :
           i \in Nat /\ i + 1 \in DOMAIN chain /\ i + 1 > 1 /\ Tail(chain)[i] = chain[i + 1]
      /\ \A i \in DOMAIN chain :
           i \in Nat /\ (i = 1 \/ (i - 1 \in DOMAIN Tail(chain) /\ Tail(chain)[i - 1] = chain[i]))
  BY TailFacts
<1>2. /\ \A i \in QueuedLedgers' : i + 1 \in QueuedLedgers
      /\ \A i \in QueuedSessions' : i + 1 \in QueuedSessions
      /\ \A i \in QueuedLedgers : i = 1 \/ i - 1 \in QueuedLedgers'
  BY <1>1 DEF QueuedLedgers, QueuedSessions
<1>3. /\ QueuedLedgers' \subseteq DOMAIN chain' /\ QueuedSessions' \subseteq DOMAIN chain'
      /\ QueuedLedgers \subseteq DOMAIN chain
  BY DEF QueuedLedgers, QueuedSessions
<1>4. /\ Len(chain') + 1 = Len(chain) /\ Len(chain') \in Nat
      /\ \A i \in DOMAIN chain : i = 1 \/ i > 1
  BY <1>1
<1> QED
  BY <1>1, <1>2, <1>3, <1>4 DEF HeadGone

(* Whatever becomes of the head, what is queued behind it keeps its order  *)
(* and the memory stays the last that is queued.                           *)
LEMMA HeadGoneKeeps ==
  ASSUME DurabilityInv, HeadGone, UNCHANGED <<up, memory>>
  PROVE  /\ LastIsMemory' /\ up /\ DownIsEmpty'
         /\ \A f \in {"ledger", "sessions"} :
              Queued(f) => Queued(f)' \/ chain[1].file = f
         /\ chain[1].file = "ledger" => Queued("ledger")' \/ chain[1].ledger = ledger
         /\ chain[1].file = "sessions" =>
              Queued("sessions")' \/ (chain[1].active = active /\ chain[1].interrupted = interrupted)
<1>1. up
  <2>1. DOMAIN chain # {}
    BY DEF HeadGone
  <2>2. chain # <<>>
    BY <2>1
  <2> QED
    BY <2>2 DEF DurabilityInv, DownIsEmpty
<1>2. ledger' = ledger /\ active' = active /\ interrupted' = interrupted /\ up' = up
  BY DEF memory
<1>3. LastIsMemory'
  <2> SUFFICES ASSUME NEW i \in DOMAIN chain',
                      \A j \in DOMAIN chain' : j > i => chain'[j].file # chain'[i].file
               PROVE  /\ chain'[i].file = "ledger" => chain'[i].ledger = ledger
                      /\ chain'[i].file = "sessions" =>
                           chain'[i].active = active /\ chain'[i].interrupted = interrupted
    BY <1>2 DEF LastIsMemory
  <2>1. \A j \in DOMAIN chain : j > i + 1 => chain[j].file # chain[i + 1].file
    <3> SUFFICES ASSUME NEW j \in DOMAIN chain, j > i + 1
                 PROVE  chain[j].file # chain[i + 1].file
      OBVIOUS
    <3>1. i \in Nat /\ j \in Nat /\ j # 1 /\ j - 1 \in DOMAIN chain' /\ chain'[j - 1] = chain[j]
      BY DEF HeadGone
    <3>2. j - 1 > i
      BY <3>1
    <3> QED
      BY <3>1, <3>2 DEF HeadGone
  <2>2. i + 1 \in DOMAIN chain /\ chain'[i] = chain[i + 1]
    BY DEF HeadGone
  <2> QED
    BY <1>1, <2>1, <2>2 DEF DurabilityInv, LastIsMemory
<1>4. \A f \in {"ledger", "sessions"} : Queued(f) => Queued(f)' \/ chain[1].file = f
  BY DEF Queued, HeadGone
<1>5. ASSUME \A j \in DOMAIN chain' : chain'[j].file # chain[1].file
      PROVE  /\ chain[1].file = "ledger" => chain[1].ledger = ledger
             /\ chain[1].file = "sessions" => chain[1].active = active /\ chain[1].interrupted = interrupted
  <2>2. \A j \in DOMAIN chain : j > 1 => chain[j].file # chain[1].file
    BY <1>5 DEF HeadGone
  <2>3. 1 \in DOMAIN chain
    BY DEF HeadGone
  <2> QED
    BY <1>1, <2>2, <2>3 DEF DurabilityInv, LastIsMemory
<1>6. DownIsEmpty'
  BY <1>1, <1>2 DEF DownIsEmpty
<1>7. /\ chain[1].file = "ledger" => Queued("ledger")' \/ chain[1].ledger = ledger
      /\ chain[1].file = "sessions" =>
           Queued("sessions")' \/ (chain[1].active = active /\ chain[1].interrupted = interrupted)
  BY <1>5 DEF Queued
<1> QED
  BY <1>1, <1>3, <1>4, <1>6, <1>7

(* A failed write keeps the invariant: the file is stale, and from then on *)
(* the ledger file may lack a run that the sessions file names.            *)
LEMMA WriteFailsStep ==
  ASSUME DurabilityInv, WriteFails
  PROVE  DurabilityInv'
<1>1. /\ chain \in Seq(Writes) /\ chain # <<>> /\ failures \in Nat /\ MemoryOK
      /\ failures < MaxFailures /\ failures' = failures + 1
  BY TypeFacts, DurabilityAssumption DEF WriteFails, DurabilityInv, TypeOK
<1>2. /\ UNCHANGED <<up, memory>> /\ UNCHANGED disk
      /\ ledger' = ledger /\ active' = active /\ interrupted' = interrupted
      /\ diskLedger' = diskLedger /\ diskActive' = diskActive /\ diskInterrupted' = diskInterrupted
      /\ up' = up /\ used' = used /\ crashes' = crashes
      /\ chain' = Tail(chain) /\ stale' = stale \cup {Head(chain).file}
  BY DEF WriteFails, memory, disk
<1>3. HeadGone /\ Head(chain) = chain[1]
  BY <1>1, <1>2, HeadGoneFacts
<1>4. ~NothingDropped'
  BY <1>1 DEF NothingDropped
<1>5. LastIsMemory' /\ up /\ DownIsEmpty'
  BY <1>2, <1>3, HeadGoneKeeps
<1>6. TypeOK'
  <2>1. chain[1].file \in {"ledger", "sessions"}
    BY <1>1, <1>3, WriteFacts DEF HeadGone
  <2>2. chain' \in Seq(Writes) /\ failures' \in 0..MaxFailures
    BY <1>1, <1>3, DurabilityAssumption DEF HeadGone
  <2> QED
    BY <1>2, <1>3, <2>1, <2>2 DEF DurabilityInv, TypeOK, Writes, Actives, Marks
<1>7. FlushedIsDurable'
  <2>1. \A f \in {"ledger", "sessions"} : Queued(f) => Queued(f)' \/ chain[1].file = f
    BY <1>2, <1>3, HeadGoneKeeps
  <2>2. /\ Queued("ledger") => Queued("ledger")' \/ chain[1].file = "ledger"
        /\ Queued("sessions") => Queued("sessions")' \/ chain[1].file = "sessions"
    BY <2>1
  <2>3. FlushedIsDurable
    BY DEF DurabilityInv
  <2>4. /\ chain[1].file = "ledger" => "ledger" \in stale'
        /\ chain[1].file = "sessions" => "sessions" \in stale'
        /\ stale \subseteq stale'
    BY <1>2, <1>3
  <2> QED
    BY <1>2, <1>5, <2>2, <2>3, <2>4 DEF FlushedIsDurable
<1>8. ActiveIsInLedger' /\ RecordGoesFirst'
  BY <1>4 DEF ActiveIsInLedger, RecordGoesFirst
<1>9. OwnersAgree'
  <2>1. Pairs' = LedgerPairs(ledger) \cup ActivePairs(active)
                   \cup LedgerPairs(diskLedger) \cup ActivePairs(diskActive)
                   \cup (UNION {LedgerPairs(chain'[i].ledger) : i \in QueuedLedgers'})
                   \cup (UNION {ActivePairs(chain'[i].active) : i \in QueuedSessions'})
    BY <1>2 DEF Pairs, LedgerPairs, ActivePairs
  <2>2. \A i \in QueuedLedgers' : LedgerPairs(chain'[i].ledger) \subseteq Pairs
    BY <1>3 DEF HeadGone, Pairs
  <2>3. \A i \in QueuedSessions' : ActivePairs(chain'[i].active) \subseteq Pairs
    BY <1>3 DEF HeadGone, Pairs
  <2>4. Pairs' \subseteq Pairs
    BY <2>1, <2>2, <2>3 DEF Pairs
  <2> QED
    BY <1>2, <2>4, OwnersKept DEF DurabilityInv
<1>10. OutcomesFollow'
  <2>1. \A i \in QueuedLedgers' : 1 < i + 1 /\ i + 1 \in QueuedLedgers /\ chain'[i] = chain[i + 1]
    BY <1>3 DEF HeadGone, QueuedLedgers
  <2>2. \A i, j \in QueuedLedgers' : i < j => i + 1 < j + 1
    BY <1>3 DEF HeadGone
  <2>3. Unique(diskLedger') /\ Unique(ledger') /\ Follows(diskLedger', ledger')
    BY <1>2, <1>5 DEF DurabilityInv, OutcomesFollow
  <2>4. \A i \in QueuedLedgers' :
          /\ Unique(chain'[i].ledger) /\ Follows(diskLedger', chain'[i].ledger)
          /\ Follows(chain'[i].ledger, ledger')
    BY <1>2, <1>5, <2>1 DEF DurabilityInv, OutcomesFollow
  <2>5. \A i, j \in QueuedLedgers' : i < j => Follows(chain'[i].ledger, chain'[j].ledger)
    BY <2>1, <2>2 DEF DurabilityInv, OutcomesFollow
  <2> QED
    BY <2>3, <2>4, <2>5 DEF OutcomesFollow, Unique, Follows
<1>11. LedgerFits'
  BY <1>2, <1>3 DEF DurabilityInv, LedgerFits, HeadGone
<1> QED
  BY <1>5, <1>6, <1>7, <1>8, <1>9, <1>10, <1>11 DEF DurabilityInv

(* The ledger file becomes the ledger at the head.                         *)
LEMMA WriteLedgerStep ==
  ASSUME DurabilityInv, WriteOk, Head(chain).file = "ledger"
  PROVE  DurabilityInv' /\ Follows(diskLedger, diskLedger')
<1>1. chain \in Seq(Writes) /\ chain # <<>> /\ MemoryOK
  BY TypeFacts DEF WriteOk, DurabilityInv
<1>2. /\ UNCHANGED <<up, memory>>
      /\ ledger' = ledger /\ active' = active /\ interrupted' = interrupted
      /\ diskLedger' = Head(chain).ledger /\ diskActive' = diskActive
      /\ diskInterrupted' = diskInterrupted /\ failures' = failures
      /\ up' = up /\ used' = used /\ crashes' = crashes
      /\ chain' = Tail(chain) /\ stale' = stale \ {"ledger"}
  BY DEF WriteOk, Apply, memory
<1>3. HeadGone /\ Head(chain) = chain[1]
  BY <1>1, <1>2, HeadGoneFacts
<1>4. /\ 1 \in QueuedLedgers /\ 1 \in DOMAIN chain /\ diskLedger' = chain[1].ledger
      /\ chain[1].file = "ledger" /\ chain[1].ledger \in Seq(Records)
  <2>1. 1 \in DOMAIN chain /\ chain[1].file = "ledger" /\ diskLedger' = chain[1].ledger
    BY <1>2, <1>3 DEF HeadGone
  <2> QED
    BY <1>1, <2>1, WriteFacts DEF QueuedLedgers
<1>5. /\ LastIsMemory' /\ up /\ DownIsEmpty'
      /\ Queued("sessions") => Queued("sessions")'
      /\ Queued("ledger")' \/ chain[1].ledger = ledger
  <2>1. \A f \in {"ledger", "sessions"} : Queued(f) => Queued(f)' \/ chain[1].file = f
    BY <1>2, <1>3, HeadGoneKeeps
  <2>2. Queued("sessions") => Queued("sessions")' \/ chain[1].file = "sessions"
    BY <2>1
  <2> QED
    BY <1>2, <1>3, <1>4, <2>2, HeadGoneKeeps
<1>6. /\ Unique(chain[1].ledger) /\ Follows(diskLedger, chain[1].ledger)
      /\ Follows(chain[1].ledger, ledger)
      /\ \A j \in QueuedLedgers : 1 < j => Follows(chain[1].ledger, chain[j].ledger)
  BY <1>4 DEF DurabilityInv, OutcomesFollow
<1>7. TypeOK'
  <2>1. Len(chain[1].ledger) <= LedgerCap
    BY <1>4 DEF DurabilityInv, LedgerFits
  <2> QED
    BY <1>2, <1>3, <1>4, <2>1 DEF DurabilityInv, TypeOK, HeadGone, Writes, Actives, Marks
<1>8. FlushedIsDurable'
  BY <1>2, <1>4, <1>5 DEF FlushedIsDurable, DurabilityInv
<1>9. NothingDropped' = NothingDropped
  BY <1>2 DEF NothingDropped
<1>10. NothingDropped =>
         /\ Grows(diskLedger, chain[1].ledger) /\ Grows(chain[1].ledger, ledger)
         /\ \A j \in QueuedLedgers : 1 < j => Grows(chain[1].ledger, chain[j].ledger)
  BY <1>4 DEF DurabilityInv, RecordGoesFirst
<1>11. NothingDropped => \A r : Has(diskLedger, r) => Has(diskLedger', r)
  BY <1>4, <1>10 DEF Grows, Has
<1>12. ActiveIsInLedger'
  BY <1>2, <1>9, <1>11 DEF ActiveIsInLedger, DurabilityInv, Has
<1>13. OwnersAgree'
  <2>1. Pairs' = LedgerPairs(ledger) \cup ActivePairs(active)
                   \cup LedgerPairs(chain[1].ledger) \cup ActivePairs(diskActive)
                   \cup (UNION {LedgerPairs(chain'[i].ledger) : i \in QueuedLedgers'})
                   \cup (UNION {ActivePairs(chain'[i].active) : i \in QueuedSessions'})
    BY <1>2, <1>4 DEF Pairs, LedgerPairs, ActivePairs
  <2>2. \A i \in QueuedLedgers' : LedgerPairs(chain'[i].ledger) \subseteq Pairs
    BY <1>3 DEF HeadGone, Pairs
  <2>3. \A i \in QueuedSessions' : ActivePairs(chain'[i].active) \subseteq Pairs
    BY <1>3 DEF HeadGone, Pairs
  <2>4. Pairs' \subseteq Pairs
    BY <1>4, <2>1, <2>2, <2>3 DEF Pairs
  <2> QED
    BY <1>2, <2>4, OwnersKept DEF DurabilityInv
<1>14. OutcomesFollow'
  <2>1. \A i \in QueuedLedgers' : 1 < i + 1 /\ i + 1 \in QueuedLedgers /\ chain'[i] = chain[i + 1]
    BY <1>3 DEF HeadGone, QueuedLedgers
  <2>2. \A i, j \in QueuedLedgers' : i < j => i + 1 < j + 1
    BY <1>3 DEF HeadGone
  <2>3. Unique(diskLedger') /\ Unique(ledger') /\ Follows(diskLedger', ledger')
    BY <1>2, <1>4, <1>5, <1>6 DEF DurabilityInv, OutcomesFollow
  <2>4. \A i \in QueuedLedgers' :
          /\ Unique(chain'[i].ledger) /\ Follows(diskLedger', chain'[i].ledger)
          /\ Follows(chain'[i].ledger, ledger')
    BY <1>2, <1>4, <1>6, <2>1 DEF DurabilityInv, OutcomesFollow
  <2>5. \A i, j \in QueuedLedgers' : i < j => Follows(chain'[i].ledger, chain'[j].ledger)
    BY <2>1, <2>2 DEF DurabilityInv, OutcomesFollow
  <2> QED
    BY <2>3, <2>4, <2>5 DEF OutcomesFollow, Unique, Follows
<1>15. RecordGoesFirst'
  <2> SUFFICES ASSUME NothingDropped' PROVE RecordGoesFirst'
    BY DEF RecordGoesFirst
  <2>1. NothingDropped /\ RecordGoesFirst
    BY <1>9 DEF DurabilityInv
  <2>2. \A i \in QueuedLedgers' : 1 < i + 1 /\ i + 1 \in QueuedLedgers /\ chain'[i] = chain[i + 1]
    BY <1>3 DEF HeadGone, QueuedLedgers
  <2>3. \A i, j \in QueuedLedgers' : i < j => i + 1 < j + 1
    BY <1>3 DEF HeadGone
  <2>4. ASSUME NEW r, NEW k \in Nat, WrittenBefore(r, k + 1)
        PROVE  WrittenBefore(r, k)'
    <3>1. CASE Has(diskLedger, r)
      BY <1>11, <2>1, <3>1 DEF WrittenBefore, Has
    <3>2. CASE \E i \in QueuedLedgers : i < k + 1 /\ Has(chain[i].ledger, r)
      <4>1. PICK i \in QueuedLedgers : i < k + 1 /\ Has(chain[i].ledger, r)
        BY <3>2
      <4>2. CASE i = 1
        BY <1>4, <4>1, <4>2 DEF WrittenBefore, Has
      <4>3. CASE i # 1
        <5>1. i - 1 \in QueuedLedgers' /\ chain'[i - 1] = chain[i] /\ i - 1 < k
          BY <1>3, <4>1, <4>3 DEF HeadGone
        <5> QED
          BY <4>1, <5>1 DEF WrittenBefore, Has
      <4> QED
        BY <4>2, <4>3
    <3> QED
      BY <2>4, <3>1, <3>2 DEF WrittenBefore
  <2> DEFINE Before(r, k) ==
        Has(diskLedger', r) \/ \E i \in QueuedLedgers' : i < k /\ Has(chain'[i].ledger, r)
             n == Len(chain') + 1
  <2>5. \A r : \A k \in Nat : WrittenBefore(r, k + 1) => Before(r, k)
    BY <2>4 DEF WrittenBefore, Has
  <2>6. \A s \in Sessions : active'[s] # None => Before(active'[s], n)
    <3>1. \A s \in Sessions : active[s] # None => WrittenBefore(active[s], Len(chain) + 1)
      BY <2>1 DEF RecordGoesFirst
    <3>2. n \in Nat /\ n + 1 = Len(chain) + 1
      BY <1>3 DEF HeadGone
    <3> HIDE DEF n
    <3>3. \A s \in Sessions : active'[s] # None => WrittenBefore(active'[s], n + 1)
      BY <1>2, <3>1, <3>2
    <3> QED
      BY <2>5, <3>2, <3>3
  <2>7. \A s \in Sessions, k \in QueuedSessions' :
          chain'[k].active[s] # None => Before(chain'[k].active[s], k)
    <3>1. \A s \in Sessions, k \in QueuedSessions' :
            chain'[k].active[s] # None =>
              k \in Nat /\ WrittenBefore(chain'[k].active[s], k + 1)
      BY <1>3, <2>1 DEF RecordGoesFirst, HeadGone
    <3> QED
      BY <2>5, <3>1
  <2>8. /\ Grows(diskLedger', ledger')
        /\ \A i \in QueuedLedgers' :
             /\ Grows(diskLedger', chain'[i].ledger) /\ Grows(chain'[i].ledger, ledger')
             /\ \A j \in QueuedLedgers' : i < j => Grows(chain'[i].ledger, chain'[j].ledger)
    BY <1>2, <1>4, <1>10, <2>1, <2>2, <2>3 DEF RecordGoesFirst
  <2> QED
    BY <2>6, <2>7, <2>8
    DEF RecordGoesFirst, WrittenBefore, Grows, Has, QueuedLedgers, QueuedSessions
<1>16. LedgerFits'
  BY <1>2, <1>3, <1>4 DEF DurabilityInv, LedgerFits, HeadGone
<1>17. DurabilityInv'
  BY <1>5, <1>7, <1>8, <1>12, <1>13, <1>14, <1>15, <1>16 DEF DurabilityInv
<1> QED
  BY <1>4, <1>6, <1>17

(* The sessions file becomes the sessions at the head, whose active runs   *)
(* are listed on disk by then.                                             *)
LEMMA WriteSessionsStep ==
  ASSUME DurabilityInv, WriteOk, Head(chain).file # "ledger"
  PROVE  DurabilityInv' /\ diskLedger' = diskLedger
<1>1. chain \in Seq(Writes) /\ chain # <<>> /\ MemoryOK
  BY TypeFacts DEF WriteOk, DurabilityInv
<1>2. /\ UNCHANGED <<up, memory>>
      /\ ledger' = ledger /\ active' = active /\ interrupted' = interrupted
      /\ diskLedger' = diskLedger /\ diskActive' = Head(chain).active
      /\ diskInterrupted' = Head(chain).interrupted /\ failures' = failures
      /\ up' = up /\ used' = used /\ crashes' = crashes
      /\ chain' = Tail(chain) /\ stale' = stale \ {Head(chain).file}
  BY DEF WriteOk, Apply, memory
<1>3. HeadGone /\ Head(chain) = chain[1]
  BY <1>1, <1>2, HeadGoneFacts
<1>4. /\ 1 \in QueuedSessions /\ 1 \in DOMAIN chain /\ 1 \notin QueuedLedgers
      /\ diskActive' = chain[1].active /\ diskInterrupted' = chain[1].interrupted
      /\ chain[1].file = "sessions" /\ chain[1].active \in Actives /\ chain[1].interrupted \in Marks
      /\ stale' = stale \ {"sessions"}
  <2>1. 1 \in DOMAIN chain /\ chain[1].file # "ledger"
    BY <1>3 DEF HeadGone
  <2> QED
    BY <1>1, <1>2, <1>3, <2>1, WriteFacts DEF QueuedLedgers, QueuedSessions
<1>5. /\ LastIsMemory' /\ up /\ DownIsEmpty'
      /\ Queued("ledger") => Queued("ledger")'
      /\ Queued("sessions")' \/ (chain[1].active = active /\ chain[1].interrupted = interrupted)
  <2>1. \A f \in {"ledger", "sessions"} : Queued(f) => Queued(f)' \/ chain[1].file = f
    BY <1>2, <1>3, HeadGoneKeeps
  <2>2. Queued("ledger") => Queued("ledger")' \/ chain[1].file = "ledger"
    BY <2>1
  <2> QED
    BY <1>2, <1>3, <1>4, <2>2, HeadGoneKeeps
<1>6. TypeOK'
  BY <1>2, <1>3, <1>4 DEF DurabilityInv, TypeOK, HeadGone, Writes, Actives, Marks
<1>7. FlushedIsDurable'
  BY <1>2, <1>4, <1>5 DEF FlushedIsDurable, DurabilityInv
<1>8. NothingDropped' = NothingDropped
  BY <1>2 DEF NothingDropped
<1>9. \A i \in QueuedLedgers :
        i \in Nat /\ i > 1 /\ i - 1 \in QueuedLedgers' /\ chain'[i - 1] = chain[i]
  BY <1>3, <1>4 DEF HeadGone, QueuedLedgers
<1>10. ActiveIsInLedger'
  <2> SUFFICES ASSUME NothingDropped, NEW s \in Sessions, chain[1].active[s] # None
               PROVE  Has(diskLedger, chain[1].active[s])
    BY <1>2, <1>4, <1>8 DEF ActiveIsInLedger, Has
  <2>1. WrittenBefore(chain[1].active[s], 1)
    BY <1>4 DEF DurabilityInv, RecordGoesFirst
  <2>2. \A i \in QueuedLedgers : ~(i < 1)
    BY <1>9
  <2> QED
    BY <2>1, <2>2 DEF WrittenBefore
<1>11. OwnersAgree'
  <2>1. Pairs' = LedgerPairs(ledger) \cup ActivePairs(active)
                   \cup LedgerPairs(diskLedger) \cup ActivePairs(chain[1].active)
                   \cup (UNION {LedgerPairs(chain'[i].ledger) : i \in QueuedLedgers'})
                   \cup (UNION {ActivePairs(chain'[i].active) : i \in QueuedSessions'})
    BY <1>2, <1>4 DEF Pairs, LedgerPairs, ActivePairs
  <2>2. \A i \in QueuedLedgers' : LedgerPairs(chain'[i].ledger) \subseteq Pairs
    BY <1>3 DEF HeadGone, Pairs
  <2>3. \A i \in QueuedSessions' : ActivePairs(chain'[i].active) \subseteq Pairs
    BY <1>3 DEF HeadGone, Pairs
  <2>4. Pairs' \subseteq Pairs
    BY <1>4, <2>1, <2>2, <2>3 DEF Pairs
  <2> QED
    BY <1>2, <2>4, OwnersKept DEF DurabilityInv
<1>12. \A i \in QueuedLedgers' : i \in Nat /\ i + 1 \in QueuedLedgers /\ chain'[i] = chain[i + 1]
  BY <1>3 DEF HeadGone
<1>13. \A i, j \in QueuedLedgers' : i < j => i + 1 < j + 1
  BY <1>12
<1>14. OutcomesFollow'
  <2>1. Unique(diskLedger') /\ Unique(ledger') /\ Follows(diskLedger', ledger')
    BY <1>2, <1>5 DEF DurabilityInv, OutcomesFollow
  <2>2. \A i \in QueuedLedgers' :
          /\ Unique(chain'[i].ledger) /\ Follows(diskLedger', chain'[i].ledger)
          /\ Follows(chain'[i].ledger, ledger')
    BY <1>2, <1>12 DEF DurabilityInv, OutcomesFollow
  <2>3. \A i, j \in QueuedLedgers' : i < j => Follows(chain'[i].ledger, chain'[j].ledger)
    BY <1>12, <1>13 DEF DurabilityInv, OutcomesFollow
  <2> QED
    BY <2>1, <2>2, <2>3 DEF OutcomesFollow, Unique, Follows
<1>15. RecordGoesFirst'
  <2> SUFFICES ASSUME NothingDropped' PROVE RecordGoesFirst'
    BY DEF RecordGoesFirst
  <2>1. NothingDropped /\ RecordGoesFirst
    BY <1>8 DEF DurabilityInv
  <2> DEFINE Before(r, k) ==
        Has(diskLedger', r) \/ \E i \in QueuedLedgers' : i < k /\ Has(chain'[i].ledger, r)
             n == Len(chain') + 1
  <2>2. \A r : \A k \in Nat : WrittenBefore(r, k + 1) => Before(r, k)
    <3> SUFFICES ASSUME NEW r, NEW k \in Nat, WrittenBefore(r, k + 1) PROVE Before(r, k)
      OBVIOUS
    <3>1. \A i \in QueuedLedgers : i < k + 1 => i - 1 < k
      BY <1>9
    <3> QED
      BY <1>2, <1>9, <3>1 DEF WrittenBefore
  <2>3. \A s \in Sessions : active'[s] # None => Before(active'[s], n)
    <3>1. \A s \in Sessions : active[s] # None => WrittenBefore(active[s], Len(chain) + 1)
      BY <2>1 DEF RecordGoesFirst
    <3>2. n \in Nat /\ n + 1 = Len(chain) + 1
      BY <1>3 DEF HeadGone
    <3> HIDE DEF n
    <3>3. \A s \in Sessions : active'[s] # None => WrittenBefore(active'[s], n + 1)
      BY <1>2, <3>1, <3>2
    <3> QED
      BY <2>2, <3>2, <3>3
  <2>4. \A s \in Sessions, k \in QueuedSessions' :
          chain'[k].active[s] # None => Before(chain'[k].active[s], k)
    <3>1. \A s \in Sessions, k \in QueuedSessions' :
            chain'[k].active[s] # None =>
              k \in Nat /\ WrittenBefore(chain'[k].active[s], k + 1)
      BY <1>3, <2>1 DEF RecordGoesFirst, HeadGone
    <3> QED
      BY <2>2, <3>1
  <2>5. /\ Grows(diskLedger', ledger')
        /\ \A i \in QueuedLedgers' :
             /\ Grows(diskLedger', chain'[i].ledger) /\ Grows(chain'[i].ledger, ledger')
             /\ \A j \in QueuedLedgers' : i < j => Grows(chain'[i].ledger, chain'[j].ledger)
    BY <1>2, <1>5, <1>12, <1>13, <2>1 DEF RecordGoesFirst
  <2> QED
    BY <2>3, <2>4, <2>5
    DEF RecordGoesFirst, WrittenBefore, Grows, Has, QueuedLedgers, QueuedSessions
<1>16. LedgerFits'
  BY <1>2, <1>12 DEF DurabilityInv, LedgerFits
<1> QED
  BY <1>2, <1>5, <1>6, <1>7, <1>10, <1>11, <1>14, <1>15, <1>16 DEF DurabilityInv

(* A crash loses the memory and the queue and leaves the files.            *)
LEMMA CrashStep ==
  ASSUME DurabilityInv, Crash
  PROVE  DurabilityInv'
<1>1. /\ up' = FALSE /\ ledger' = <<>> /\ active' = EmptyActive /\ interrupted' = NotInterrupted
      /\ chain' = <<>> /\ stale' = {} /\ used' = used /\ failures' = failures
      /\ diskLedger' = diskLedger /\ diskActive' = diskActive /\ diskInterrupted' = diskInterrupted
  BY DEF Crash, disk
<1>2. DOMAIN chain' = {} /\ DOMAIN ledger' = {} /\ Len(ledger') = 0
  BY <1>1
<1>3. QueuedLedgers' = {} /\ QueuedSessions' = {}
  BY <1>2 DEF QueuedLedgers, QueuedSessions
<1>4. TypeOK'
  <2>1. crashes' \in 0..MaxCrashes
    BY DurabilityAssumption DEF Crash, DurabilityInv, TypeOK
  <2>2. active' \in Actives /\ interrupted' \in Marks
    BY <1>1 DEF EmptyActive, NotInterrupted, Actives, Marks
  <2>3. ledger' \in Seq(Records) /\ chain' \in Seq(Writes) /\ Len(ledger') <= LedgerCap
    BY <1>1, DurabilityAssumption
  <2> QED
    BY <1>1, <2>1, <2>2, <2>3 DEF DurabilityInv, TypeOK, Writes, Actives, Marks
<1>5. FlushedIsDurable' /\ LastIsMemory' /\ DownIsEmpty'
  BY <1>1, <1>2 DEF FlushedIsDurable, LastIsMemory, DownIsEmpty, EmptyActive
<1>6. ActiveIsInLedger'
  BY <1>1 DEF ActiveIsInLedger, DurabilityInv, NothingDropped
<1>7. OwnersAgree'
  <2>1. Pairs' \subseteq Pairs
    BY <1>1, <1>2, <1>3 DEF Pairs, LedgerPairs, ActivePairs, EmptyActive
  <2> QED
    BY <1>1, <2>1, OwnersKept DEF DurabilityInv
<1>8. OutcomesFollow'
  BY <1>1, <1>2, <1>3 DEF DurabilityInv, OutcomesFollow, Unique
<1>9. RecordGoesFirst'
  BY <1>1, <1>3 DEF RecordGoesFirst, EmptyActive
<1>10. LedgerFits'
  BY <1>1, <1>2, <1>3, FS_CardinalityType DEF DurabilityInv, LedgerFits
<1> QED
  BY <1>4, <1>5, <1>6, <1>7, <1>8, <1>9, <1>10 DEF DurabilityInv

-----------------------------------------------------------------------------
(* The theorems                                                            *)

(* A new store has nothing on disk, in memory or queued.                   *)
LEMMA InitDurable == Init => DurabilityInv
<1> SUFFICES ASSUME Init PROVE DurabilityInv
  OBVIOUS
<1>1. /\ DOMAIN chain = {} /\ DOMAIN ledger = {} /\ DOMAIN diskLedger = {}
      /\ Len(ledger) = 0 /\ Len(diskLedger) = 0
  BY DEF Init
<1>2. QueuedLedgers = {} /\ QueuedSessions = {}
  BY <1>1 DEF QueuedLedgers, QueuedSessions
<1>3. TypeOK
  BY DurabilityAssumption DEF Init, TypeOK, EmptyActive, NotInterrupted
<1>4. FlushedIsDurable /\ LastIsMemory /\ DownIsEmpty /\ ActiveIsInLedger
  BY <1>1 DEF Init, FlushedIsDurable, LastIsMemory, DownIsEmpty, ActiveIsInLedger, EmptyActive
<1>5. OwnersAgree
  <2>1. Pairs = {}
    BY <1>1, <1>2 DEF Init, Pairs, LedgerPairs, ActivePairs, EmptyActive
  <2> QED
    BY <2>1 DEF OwnersAgree
<1>6. OutcomesFollow
  BY <1>1, <1>2 DEF OutcomesFollow, Unique, Follows
<1>7. RecordGoesFirst
  BY <1>1, <1>2 DEF Init, RecordGoesFirst, Grows, EmptyActive
<1>8. LedgerFits
  <2>1. used = {} /\ IsFiniteSet(used) /\ Cardinality(used) = 0
    BY FS_EmptySet DEF Init
  <2> QED
    BY <1>1, <1>2, <2>1 DEF LedgerFits
<1> QED
  BY <1>3, <1>4, <1>5, <1>6, <1>7, <1>8 DEF DurabilityInv

(* The invariant is inductive.                                             *)
LEMMA NextDurable == DurabilityInv /\ [Next]_vars => DurabilityInv'
<1> SUFFICES ASSUME DurabilityInv, [Next]_vars PROVE DurabilityInv'
  OBVIOUS
<1>1. CASE \E s \in Sessions, r \in Runs : StartRun(s, r)
  BY <1>1, StartStep
<1>2. CASE \E s \in Sessions : Frame(s)
  BY <1>2, FrameStep
<1>3. CASE \E s \in Sessions : TurnEnds(s)
  BY <1>3, FinishStep
<1>4. CASE WriteOk
  BY <1>4, WriteLedgerStep, WriteSessionsStep
<1>5. CASE WriteFails
  BY <1>5, WriteFailsStep
<1>6. CASE Crash
  BY <1>6, CrashStep
<1>7. CASE Load
  BY <1>7, LoadStep
<1>8. CASE UNCHANGED vars
  <2>1. /\ up' = up /\ ledger' = ledger /\ active' = active /\ interrupted' = interrupted
        /\ chain' = chain /\ diskLedger' = diskLedger /\ diskActive' = diskActive
        /\ diskInterrupted' = diskInterrupted /\ stale' = stale /\ used' = used
        /\ crashes' = crashes /\ failures' = failures
    BY <1>8 DEF vars, memory, disk
  <2>2. /\ TypeOK' = TypeOK /\ FlushedIsDurable' = FlushedIsDurable
        /\ ActiveIsInLedger' = ActiveIsInLedger /\ LastIsMemory' = LastIsMemory
    BY <2>1 DEF TypeOK, FlushedIsDurable, Queued, ActiveIsInLedger, NothingDropped, LastIsMemory
  <2>3. Pairs' = Pairs /\ QueuedLedgers' = QueuedLedgers /\ QueuedSessions' = QueuedSessions
    BY <2>1 DEF Pairs, LedgerPairs, ActivePairs, QueuedLedgers, QueuedSessions
  <2>4. OwnersAgree' = OwnersAgree /\ OutcomesFollow' = OutcomesFollow
    BY <2>1, <2>3 DEF OwnersAgree, OutcomesFollow, Unique, Follows
  <2>5. RecordGoesFirst' = RecordGoesFirst
    BY <2>1, <2>3 DEF RecordGoesFirst, NothingDropped, WrittenBefore, Grows, Has
  <2>6. DownIsEmpty' = DownIsEmpty /\ LedgerFits' = LedgerFits
    BY <2>1, <2>3 DEF DownIsEmpty, LedgerFits, EmptyActive
  <2> QED
    BY <2>2, <2>4, <2>5, <2>6 DEF DurabilityInv
<1> QED
  BY <1>1, <1>2, <1>3, <1>4, <1>5, <1>6, <1>7, <1>8 DEF Next

(* ClaudeSessionStore.persist, load and writeChain: the two files and the  *)
(* memory agree as DurabilityInv says at every moment, through failed      *)
(* writes, crashes and recoveries.                                         *)
THEOREM Durability == Spec => []DurabilityInv
<1> QED
  BY InitDurable, NextDurable, PTL DEF Spec

(* Whatever a step writes to the ledger file takes no outcome back.        *)
LEMMA DiskFollows ==
  ASSUME DurabilityInv, [Next]_vars
  PROVE  Follows(diskLedger, diskLedger')
<1>1. CASE diskLedger' = diskLedger
  BY <1>1 DEF DurabilityInv, OutcomesFollow, Unique, Follows
<1>2. CASE WriteOk
  BY <1>1, <1>2, WriteLedgerStep, WriteSessionsStep
<1>3. CASE [Next]_vars /\ ~WriteOk
  <2>1. diskLedger' = diskLedger
    BY <1>3 DEF Next, StartRun, Frame, TurnEnds, Finish, WriteFails, Crash, Load, vars, disk
  <2> QED
    BY <1>1, <2>1
<1> QED
  BY <1>2, <1>3

(* writeChain and load(): a run that the ledger file says is over never    *)
(* reads "running" there again.                                            *)
THEOREM OutcomeStays == Spec => NeverRunningAgain
<1>1. ASSUME DurabilityInv, [Next]_vars
      PROVE  [\A r \in Runs :
                (\E i \in DOMAIN diskLedger : diskLedger[i].id = r /\ diskLedger[i].outcome \in Final)
                => ~\E i \in DOMAIN diskLedger' :
                      diskLedger'[i].id = r /\ diskLedger'[i].outcome = "running"]_vars
  <2>1. Follows(diskLedger, diskLedger')
    BY <1>1, DiskFollows
  <2>2. "running" \notin Final
    BY DEF Final
  <2> QED
    BY <2>1, <2>2 DEF Follows
<1> QED
  BY <1>1, Durability, PTL DEF Spec, NeverRunningAgain

(* load() settles a record only of a session that the sessions file says   *)
(* was running: its owner is the session that points to it, since no two   *)
(* sessions ever draw one run.                                             *)
THEOREM RecoveryLocal == Spec => RecoveryIsLocal
<1>1. ASSUME DurabilityInv, [Next]_vars
      PROVE  [~up /\ up' => \A i \in DOMAIN ledger' :
                ledger'[i] # Capped(diskLedger)[i] => diskActive[ledger'[i].session] # None]_vars
  <2> SUFFICES ASSUME ~up, up', NEW i \in DOMAIN ledger', ledger'[i] # Capped(diskLedger)[i]
               PROVE  diskActive[ledger'[i].session] # None
    OBVIOUS
  <2>1. Load
    BY <1>1 DEF Next, StartRun, Frame, TurnEnds, Finish, WriteOk, WriteFails, Crash, vars
  <2> DEFINE cut == {s \in Sessions : diskActive[s] # None}
             I == UNION {Recovered(s) : s \in cut}
  <2>2. diskLedger \in Seq(Records) /\ Capped(diskLedger) = diskLedger
    BY <1>1, TypeFacts, CappedFacts DEF DurabilityInv
  <2>3. ledger' = SetOutcome(diskLedger, I, "interrupted")
    BY <2>1, <2>2 DEF Load
  <2>4. /\ i \in DOMAIN diskLedger /\ i \in I
        /\ ledger'[i].session = diskLedger[i].session
    <3>1. "interrupted" \in Final
      BY DEF Final
    <3> HIDE DEF I
    <3> QED
      BY <2>2, <2>3, <3>1, SetOutcomeFacts
  <2>5. PICK s \in cut : i \in Recovered(s)
    BY <2>4
  <2>6. diskLedger[i].id = diskActive[s] \/ diskLedger[i].session = s
    BY <2>2, <2>5 DEF Recovered, Newest
  <2>7. CASE diskLedger[i].id = diskActive[s]
    <3>1. <<diskLedger[i].id, diskLedger[i].session>> \in Pairs /\ <<diskActive[s], s>> \in Pairs
      BY <2>4, <2>5 DEF Pairs, LedgerPairs, ActivePairs
    <3>2. diskLedger[i].session = s
      BY <1>1, <2>7, <3>1 DEF DurabilityInv, OwnersAgree
    <3> QED
      BY <2>4, <2>5, <3>2
  <2>8. CASE diskLedger[i].session = s
    BY <2>4, <2>5, <2>8
  <2> QED
    BY <2>6, <2>7, <2>8
<1> QED
  BY <1>1, Durability, PTL DEF Spec, RecoveryIsLocal
===============================================================================
