------------------------------- MODULE PartsProofs -------------------------------
(* What TLAPS proves of the parts of the server that MCParts sets side by side,   *)
(* for any values of their constants: the capture queue of dsh, the planning      *)
(* cache, the streams and slots of the browser, git on worktrees, the state file  *)
(* of auto-permissions, the ledger of sub-agents and the turns of DSH.            *)
EXTENDS MCParts, FiniteSetTheorems, SequenceTheorems, WellFoundedInduction,
        NaturalsInduction, TLAPS

(* A behaviour moves one part, and a step of it is one of that part's.            *)
LEMMA OnePartMoves ==
  ASSUME [Next]_vars
  PROVE  /\ moves' = moves
         /\ moves = "stream" => Stream!Next \/ UNCHANGED streamVars
         /\ moves = "slots" => Slots!Next \/ UNCHANGED slotsVars
         /\ moves = "capture" => Capture!Next \/ UNCHANGED captureVars
         /\ moves = "session" => Session!Next \/ UNCHANGED sessionVars
         /\ moves = "rows" => Rows!Next \/ UNCHANGED rowsVars
         /\ moves = "dsh" => Dsh!Next \/ UNCHANGED dshVars
         /\ moves = "claude" => Claude!Next \/ UNCHANGED claudeVars
         /\ moves = "ledger" => Ledger!Next \/ UNCHANGED ledgerVars
         /\ moves = "planning" => Planning!Next \/ UNCHANGED planningVars
         /\ moves = "worktrees" => Worktrees!Next \/ UNCHANGED worktreesVars
         /\ moves = "file" => File!Next \/ UNCHANGED fileVars
         /\ moves = "runs" => Runs!Next \/ UNCHANGED runsVars
         /\ moves # "runs" => UNCHANGED runsVars
<1> USE DEF MovesStream, MovesSlots, MovesCapture, MovesSession, MovesRows, MovesDsh,
            MovesClaude, MovesLedger, MovesPlanning, MovesWorktrees, MovesFile,
            MovesRuns
<1>1. CASE MovesStream /\ Stream!Next
  BY <1>1
<1>2. CASE MovesSlots /\ Slots!Next
  BY <1>2
<1>3. CASE MovesCapture /\ Capture!Next
  BY <1>3
<1>10. CASE MovesSession /\ Session!Next
  BY <1>10
<1>4. CASE MovesRows /\ Rows!Next
  BY <1>4
<1>11. CASE MovesDsh /\ Dsh!Next
  BY <1>11
<1>12. CASE MovesClaude /\ Claude!Next
  BY <1>12
<1>5. CASE MovesLedger /\ Ledger!Next
  BY <1>5
<1>6. CASE MovesPlanning /\ Planning!Next
  BY <1>6
<1>7. CASE MovesWorktrees /\ Worktrees!Next
  BY <1>7
<1>8. CASE MovesFile /\ File!Next
  BY <1>8
<1>13. CASE MovesRuns /\ Runs!Next
  BY <1>13
<1>9. CASE UNCHANGED vars
  BY <1>9 DEF vars
<1> QED
  BY <1>1, <1>2, <1>3, <1>4, <1>5, <1>6, <1>7, <1>8, <1>9, <1>10,
     <1>11, <1>12, <1>13 DEF Next

(* A part counts the way FiniteSets does.                                         *)
LEMMA PartsCount ==
  ASSUME NEW S
  PROVE  /\ Planning!Cardinality(S) = Cardinality(S)
         /\ Slots!Cardinality(S) = Cardinality(S)
         /\ Ledger!Cardinality(S) = Cardinality(S)
         /\ Worktrees!Cardinality(S) = Cardinality(S)
         /\ Slots!IsFiniteSet(S) <=> IsFiniteSet(S)
<1>1. Planning!Cardinality(S) = Cardinality(S)
  BY DEF Planning!Cardinality, Cardinality
<1>2. Slots!Cardinality(S) = Cardinality(S)
  BY DEF Slots!Cardinality, Cardinality
<1>3. Ledger!Cardinality(S) = Cardinality(S)
  BY DEF Ledger!Cardinality, Cardinality
<1>4. Worktrees!Cardinality(S) = Cardinality(S)
  BY DEF Worktrees!Cardinality, Cardinality
<1>5. Slots!IsFiniteSet(S) <=> IsFiniteSet(S)
  BY DEF Slots!IsFiniteSet, IsFiniteSet
<1> QED
  BY <1>1, <1>2, <1>3, <1>4, <1>5

-------------------------------------------------------------------------------
(* Sequences                                                                      *)

(* A sequence without its head.                                                   *)
LEMMA TailFacts ==
  ASSUME NEW T, NEW q \in Seq(T), q # <<>>
  PROVE  /\ Tail(q) \in Seq(T) /\ Head(q) \in T /\ Head(q) = q[1] /\ 1 \in DOMAIN q
         /\ Len(q) \in Nat /\ Len(q) > 0 /\ Len(Tail(q)) = Len(q) - 1
         /\ DOMAIN q = 1..Len(q) /\ DOMAIN Tail(q) = 1..(Len(q) - 1)
         /\ \A i \in DOMAIN Tail(q) : i \in Nat /\ i + 1 \in DOMAIN q /\ Tail(q)[i] = q[i + 1]
         /\ \A i \in DOMAIN q : i = 1 \/ (i - 1 \in DOMAIN Tail(q) /\ Tail(q)[i - 1] = q[i])
OBVIOUS

(* A sequence with an element more at its end.                                    *)
LEMMA AppendFacts ==
  ASSUME NEW T, NEW q \in Seq(T), NEW x \in T
  PROVE  /\ Append(q, x) \in Seq(T) /\ Append(q, x) # <<>> /\ Len(q) \in Nat
         /\ Len(Append(q, x)) = Len(q) + 1
         /\ DOMAIN q = 1..Len(q) /\ DOMAIN Append(q, x) = 1..(Len(q) + 1)
         /\ \A i \in DOMAIN q : i \in DOMAIN Append(q, x) /\ i < Len(q) + 1 /\ Append(q, x)[i] = q[i]
         /\ Len(q) + 1 \in DOMAIN Append(q, x) /\ Append(q, x)[Len(q) + 1] = x
         /\ \A i \in DOMAIN Append(q, x) : i \in DOMAIN q \/ i = Len(q) + 1
         /\ q = <<>> => Head(Append(q, x)) = x
         /\ q # <<>> => Head(Append(q, x)) = Head(q)
OBVIOUS

(* A sequence without its head ends as it did.                                    *)
LEMMA LastFacts ==
  ASSUME NEW T, NEW q \in Seq(T), q # <<>>
  PROVE  /\ Tail(q) = <<>> => q[Len(q)] = Head(q)
         /\ Tail(q) # <<>> => /\ Tail(q)[Len(Tail(q))] = q[Len(q)] /\ Head(Tail(q)) = q[2]
                              /\ 2 \in DOMAIN q
<1>1. Len(Tail(q)) = Len(q) - 1 /\ Len(q) \in Nat /\ Len(q) > 0 /\ Head(q) = q[1]
  BY TailFacts
<1>2. ASSUME Tail(q) = <<>>
      PROVE  q[Len(q)] = Head(q)
  <2>1. Len(<<>>) = 0
    OBVIOUS
  <2>2. Len(Tail(q)) = 0
    BY <1>2, <2>1, Zenon
  <2>3. Len(q) - 1 = 0
    BY <1>1, <2>2, Zenon
  <2>4. \A n \in Nat : n - 1 = 0 => n = 1
    OBVIOUS
  <2>5. Len(q) = 1
    BY <1>1, <2>3, <2>4, Zenon
  <2> QED
    BY <1>1, <2>5, Zenon
<1>3. ASSUME Tail(q) # <<>>
      PROVE  /\ Tail(q)[Len(Tail(q))] = q[Len(q)] /\ Head(Tail(q)) = q[2] /\ 2 \in DOMAIN q
  <2>1. Len(Tail(q)) = Len(q) - 1 /\ Len(q) > 1 /\ Len(q) \in Nat
    BY <1>3, TailFacts
  <2> QED
    BY <1>3, <2>1, TailFacts
<1> QED
  BY <1>2, <1>3

-------------------------------------------------------------------------------
(* The capture queue                                                              *)

Lists(names, s) == \E i \in DOMAIN names : names[i] = s
GapWaits(records, s) == \E i \in DOMAIN records : records[i].gap /\ records[i].session = s
CaptureRecords == [session : CaptureSessions, gap : BOOLEAN]

(* A list of names that lists none twice still does without its head, and with a  *)
(* name that is new at its end.                                                   *)
LEMMA NamesFacts ==
  ASSUME NEW S, NEW q \in Seq(S), Capture!IsInjective(q)
  PROVE  /\ q # <<>> => /\ Head(q) \in S /\ Tail(q) \in Seq(S)
                        /\ Capture!IsInjective(Tail(q))
                        /\ \A s : Lists(q, s) => s = Head(q) \/ Lists(Tail(q), s)
         /\ \A s \in S : ~Lists(q, s) =>
              /\ Append(q, s) \in Seq(S) /\ Capture!IsInjective(Append(q, s))
              /\ \A t : Lists(q, t) \/ t = s => Lists(Append(q, s), t)
<1>1. /\ DOMAIN q = 1..Len(q) /\ Len(q) \in Nat
      /\ \A i, j \in DOMAIN q : q[i] = q[j] => i = j
  BY DEF Capture!IsInjective
<1>2. ASSUME q # <<>>
      PROVE  /\ Head(q) \in S /\ Tail(q) \in Seq(S) /\ Capture!IsInjective(Tail(q))
             /\ \A s : Lists(q, s) => s = Head(q) \/ Lists(Tail(q), s)
  <2>1. /\ Tail(q) \in Seq(S) /\ Head(q) \in S /\ Head(q) = q[1]
        /\ \A i \in DOMAIN Tail(q) : i \in Nat /\ i + 1 \in DOMAIN q /\ Tail(q)[i] = q[i + 1]
        /\ \A i \in DOMAIN q : i = 1 \/ (i - 1 \in DOMAIN Tail(q) /\ Tail(q)[i - 1] = q[i])
    BY <1>2, TailFacts
  <2>2. Capture!IsInjective(Tail(q))
    <3>1. ASSUME NEW i \in DOMAIN Tail(q), NEW j \in DOMAIN Tail(q), Tail(q)[i] = Tail(q)[j]
          PROVE  i = j
      <4>1. i + 1 = j + 1 /\ i \in Nat /\ j \in Nat
        BY <1>1, <2>1, <3>1
      <4> QED
        BY <4>1
    <3> QED
      BY <3>1, Zenon DEF Capture!IsInjective
  <2>3. \A s : Lists(q, s) => s = Head(q) \/ Lists(Tail(q), s)
    BY <2>1, Zenon DEF Lists
  <2> QED
    BY <2>1, <2>2, <2>3
<1>3. ASSUME NEW s \in S, ~Lists(q, s)
      PROVE  /\ Append(q, s) \in Seq(S) /\ Capture!IsInjective(Append(q, s))
             /\ \A t : Lists(q, t) \/ t = s => Lists(Append(q, s), t)
  <2>1. \A i \in DOMAIN q : q[i] # s
    BY <1>3 DEF Lists
  <2>2. /\ Append(q, s) \in Seq(S)
        /\ \A i \in DOMAIN q : i \in DOMAIN Append(q, s) /\ Append(q, s)[i] = q[i]
        /\ Len(q) + 1 \in DOMAIN Append(q, s) /\ Append(q, s)[Len(q) + 1] = s
        /\ \A i \in DOMAIN Append(q, s) : i \in DOMAIN q \/ i = Len(q) + 1
    BY AppendFacts
  <2>3. Capture!IsInjective(Append(q, s))
    BY <1>1, <2>1, <2>2, Zenon DEF Capture!IsInjective
  <2>4. \A t : Lists(q, t) \/ t = s => Lists(Append(q, s), t)
    BY <2>2, Zenon DEF Lists
  <2> QED
    BY <2>2, <2>3, <2>4
<1> QED
  BY <1>2, <1>3

(* An empty queue has lost nothing.                                               *)
LEMMA CaptureInit == Capture!Init => Capture!TypeOK /\ Capture!CaptureInv
BY PartsAssumption DEF Capture!Init, Capture!TypeOK, Capture!IsInjective, Capture!CaptureInv,
   Capture!QuietMeansNamed, Capture!LossIsNoted

(* A loss is noted in the set of names or it is not to be named; a name that      *)
(* leaves the set goes into a gap record, and a gap record is written or fails.   *)
LEMMA CaptureStep ==
  ASSUME Capture!TypeOK, Capture!CaptureInv, Capture!Next
  PROVE  Capture!TypeOK' /\ Capture!CaptureInv'
<1>1. /\ queue \in Seq(CaptureRecords) /\ Len(queue) <= MaxQueue /\ Len(queue) \in Nat
      /\ overflow \in Seq(CaptureSessions) /\ Capture!IsInjective(overflow)
      /\ dropped \subseteq CaptureSessions /\ unnamed \subseteq CaptureSessions
      /\ captures \in 0..MaxCaptures /\ faults \in 0..MaxFaults
      /\ MaxQueue \in Nat /\ MaxCaptures \in Nat /\ MaxFaults \in Nat
  BY PartsAssumption DEF Capture!TypeOK, CaptureRecords
<1>2. /\ unnamed \subseteq dropped
      /\ \A s \in dropped \ unnamed : Lists(overflow, s) \/ GapWaits(queue, s)
  BY DEF Capture!CaptureInv, Capture!LossIsNoted, Lists, GapWaits
<1>3. SUFFICES /\ queue' \in Seq(CaptureRecords) /\ Len(queue') <= MaxQueue
               /\ overflow' \in Seq(CaptureSessions) /\ Capture!IsInjective(overflow')
               /\ dropped' \subseteq CaptureSessions /\ unnamed' \subseteq dropped'
               /\ captures' \in 0..MaxCaptures /\ faults' \in 0..MaxFaults
               /\ \A s \in dropped' \ unnamed' : Lists(overflow', s) \/ GapWaits(queue', s)
  <2>1. Capture!TypeOK'
    BY <1>3 DEF Capture!TypeOK, Capture!IsInjective, CaptureRecords
  <2>2. Capture!LossIsNoted'
    BY <1>3 DEF Capture!LossIsNoted, Lists, GapWaits
  <2>3. Capture!QuietMeansNamed'
    <3> SUFFICES ASSUME queue' = <<>>, overflow' = <<>> PROVE dropped' \subseteq unnamed'
      BY DEF Capture!QuietMeansNamed
    <3>1. DOMAIN queue' = {} /\ DOMAIN overflow' = {}
      OBVIOUS
    <3> QED
      BY <1>3, <3>1 DEF Lists, GapWaits
  <2> QED
    BY <2>1, <2>2, <2>3 DEF Capture!CaptureInv
<1>4. ASSUME NEW s \in CaptureSessions, Capture!Capture(s)
      PROVE  /\ queue' \in Seq(CaptureRecords) /\ Len(queue') <= MaxQueue
             /\ overflow' \in Seq(CaptureSessions) /\ Capture!IsInjective(overflow')
             /\ dropped' \subseteq CaptureSessions /\ unnamed' \subseteq dropped'
             /\ captures' \in 0..MaxCaptures /\ faults' \in 0..MaxFaults
             /\ \A t \in dropped' \ unnamed' : Lists(overflow', t) \/ GapWaits(queue', t)
  <2>1. captures' \in 0..MaxCaptures /\ faults' = faults
    BY <1>1, <1>4 DEF Capture!Capture
  <2>2. CASE Len(queue) < MaxQueue
    <3> DEFINE rec == Capture!Record(s, FALSE)
    <3>1. /\ queue' = Append(queue, rec) /\ overflow' = overflow
          /\ dropped' = dropped /\ unnamed' = unnamed
      <4>1. Len(queue) # MaxQueue
        BY <1>1, <2>2
      <4> QED
        BY <1>4, <4>1, Zenon DEF Capture!Capture
    <3>2. rec \in CaptureRecords
      BY DEF Capture!Record, CaptureRecords
    <3> HIDE DEF rec
    <3>3. /\ queue' \in Seq(CaptureRecords) /\ Len(queue') = Len(queue) + 1
          /\ \A i \in DOMAIN queue : i \in DOMAIN queue' /\ queue'[i] = queue[i]
      BY <1>1, <3>1, <3>2, AppendFacts
    <3>4. \A t : GapWaits(queue, t) => GapWaits(queue', t)
      BY <3>3, Zenon DEF GapWaits
    <3>5. Len(queue') <= MaxQueue
      BY <1>1, <2>2, <3>3
    <3> QED
      BY <1>1, <1>2, <2>1, <3>1, <3>3, <3>4, <3>5
  <2>3. CASE Len(queue) = MaxQueue
    <3>1. /\ queue' = queue /\ dropped' = dropped \cup {s}
          /\ overflow' = overflow \/ (overflow' = Append(overflow, s) /\ s \notin Capture!ToSet(overflow))
          /\ unnamed' = IF s \in Capture!ToSet(overflow') THEN unnamed ELSE unnamed \cup {s}
      <4>1. ~(Len(queue) < MaxQueue)
        BY <1>1, <2>3
      <4> QED
        BY <1>4, <4>1, Zenon DEF Capture!Capture
    <3>2. \A q, t : t \in Capture!ToSet(q) <=> Lists(q, t)
      BY DEF Capture!ToSet, Lists
    <3>3. /\ overflow' \in Seq(CaptureSessions) /\ Capture!IsInjective(overflow')
          /\ \A t : Lists(overflow, t) => Lists(overflow', t)
      <4>1. CASE overflow' = overflow
        BY <1>1, <4>1
      <4>2. CASE overflow' = Append(overflow, s) /\ s \notin Capture!ToSet(overflow)
        BY <1>1, <3>2, <4>2, NamesFacts
      <4> QED
        BY <3>1, <4>1, <4>2
    <3>4. \A t \in dropped' \ unnamed' : t \in dropped \ unnamed \/ Lists(overflow', t)
      BY <3>1, <3>2
    <3> QED
      BY <1>1, <1>2, <2>1, <3>1, <3>3, <3>4
  <2> QED
    BY <1>1, <1>4, <2>2, <2>3 DEF Capture!Capture
<1>5. ASSUME queue # <<>>, NEW written \in BOOLEAN, Capture!Settled(written),
             captures' = captures, faults' \in 0..MaxFaults
      PROVE  /\ queue' \in Seq(CaptureRecords) /\ Len(queue') <= MaxQueue
             /\ overflow' \in Seq(CaptureSessions) /\ Capture!IsInjective(overflow')
             /\ dropped' \subseteq CaptureSessions /\ unnamed' \subseteq dropped'
             /\ captures' \in 0..MaxCaptures /\ faults' \in 0..MaxFaults
             /\ \A t \in dropped' \ unnamed' : Lists(overflow', t) \/ GapWaits(queue', t)
  <2> DEFINE taken == Head(queue)
             rest == Tail(queue)
  <2>1. /\ taken \in CaptureRecords /\ rest \in Seq(CaptureRecords) /\ Len(rest) = Len(queue) - 1
        /\ taken = queue[1]
        /\ \A i \in DOMAIN queue : i = 1 \/ (i - 1 \in DOMAIN rest /\ rest[i - 1] = queue[i])
    BY <1>1, <1>5, TailFacts
  <2>2. \/ /\ dropped' = dropped \cup {taken.session}
           /\ unnamed' = unnamed \cup {taken.session}
        \/ /\ taken.gap /\ dropped' = dropped \ {taken.session}
           /\ unnamed' = unnamed \ {taken.session}
        \/ ~taken.gap /\ dropped' = dropped /\ unnamed' = unnamed
    BY <1>5 DEF Capture!Settled, Capture!Accounts
  <2>3. /\ overflow = <<>> => queue' = rest /\ overflow' = overflow
        /\ overflow # <<>> =>
             queue' = Append(rest, Capture!Record(Head(overflow), TRUE)) /\ overflow' = Tail(overflow)
    BY <1>5 DEF Capture!Settled
  <2>4. taken.session \in CaptureSessions
    BY <2>1 DEF CaptureRecords
  <2> HIDE DEF taken, rest
  <2>5. \A t : GapWaits(queue, t) => (taken.gap /\ taken.session = t) \/ GapWaits(rest, t)
    BY <2>1, Zenon DEF GapWaits
  <2>6. \A t \in dropped' \ unnamed' : t \in dropped \ unnamed /\ ~(taken.gap /\ taken.session = t)
    BY <2>2
  <2>7. dropped' \subseteq CaptureSessions /\ unnamed' \subseteq dropped'
    BY <1>1, <1>2, <2>2, <2>4
  <2>8. \A t \in dropped' \ unnamed' : Lists(overflow, t) \/ GapWaits(rest, t)
    BY <1>2, <2>5, <2>6
  <2>9. CASE overflow = <<>>
    <3>1. Len(queue') <= MaxQueue
      BY <1>1, <2>1, <2>3, <2>9
    <3> QED
      BY <1>1, <1>5, <2>1, <2>3, <2>7, <2>8, <2>9, <3>1
  <2>10. CASE overflow # <<>>
    <3> DEFINE rec == Capture!Record(Head(overflow), TRUE)
    <3>1. queue' = Append(rest, rec) /\ overflow' = Tail(overflow)
      BY <2>3, <2>10
    <3>2. /\ Head(overflow) \in CaptureSessions /\ overflow' \in Seq(CaptureSessions)
          /\ Capture!IsInjective(overflow')
          /\ \A t : Lists(overflow, t) => t = Head(overflow) \/ Lists(overflow', t)
      BY <1>1, <2>10, <3>1, NamesFacts
    <3>3. rec \in CaptureRecords /\ rec.gap /\ rec.session = Head(overflow)
      BY <3>2 DEF Capture!Record, CaptureRecords
    <3> HIDE DEF rec
    <3>4. /\ queue' \in Seq(CaptureRecords) /\ Len(queue') = Len(rest) + 1
          /\ \A i \in DOMAIN rest : i \in DOMAIN queue' /\ queue'[i] = rest[i]
          /\ Len(rest) + 1 \in DOMAIN queue' /\ queue'[Len(rest) + 1] = rec
      BY <2>1, <3>1, <3>3, AppendFacts
    <3>5. \A t : GapWaits(rest, t) \/ t = Head(overflow) => GapWaits(queue', t)
      BY <3>3, <3>4, Zenon DEF GapWaits
    <3>6. \A t \in dropped' \ unnamed' : Lists(overflow', t) \/ GapWaits(queue', t)
      BY <2>8, <3>2, <3>5
    <3>7. Len(queue') <= MaxQueue
      BY <1>1, <2>1, <3>4
    <3> QED
      BY <1>1, <1>5, <2>7, <3>2, <3>4, <3>6, <3>7
  <2> QED
    BY <2>9, <2>10
<1>6. CASE Capture!Write
  <2>1. queue # <<>> /\ captures' = captures
    BY <1>6 DEF Capture!Write
  <2>2. CASE Capture!Settled(TRUE) /\ UNCHANGED faults
    BY <1>1, <1>5, <2>1, <2>2
  <2>3. CASE Capture!Settled(FALSE) /\ faults < MaxFaults /\ faults' = faults + 1
    <3>1. faults' \in 0..MaxFaults
      BY <1>1, <2>3
    <3> QED
      BY <1>5, <2>1, <2>3, <3>1
  <2> QED
    BY <1>6, <2>2, <2>3 DEF Capture!Write
<1> QED
  BY <1>4, <1>6 DEF Capture!Next

(* Nothing is said to be complete that is not: every session that lost a record   *)
(* has its gap record once nothing is pending, but for those that can have none.  *)
THEOREM CaptureNamesLosses == Spec => []CaptureInv
<1>1. Init => CaptureInv
  BY CaptureInit DEF Init, CaptureInv
<1>2. CaptureInv /\ [Next]_vars => CaptureInv'
  <2> SUFFICES ASSUME CaptureInv, [Next]_vars, moves' = "capture"
               PROVE  Capture!TypeOK' /\ Capture!CaptureInv'
    BY DEF CaptureInv
  <2>1. Capture!TypeOK /\ Capture!CaptureInv
    BY OnePartMoves DEF CaptureInv
  <2>2. CASE UNCHANGED captureVars
    BY <2>1, <2>2 DEF captureVars, Capture!TypeOK, Capture!CaptureInv, Capture!IsInjective,
       Capture!QuietMeansNamed, Capture!LossIsNoted
  <2> QED
    BY <2>1, <2>2, OnePartMoves, CaptureStep
<1> QED
  BY <1>1, <1>2, PTL DEF Spec

-------------------------------------------------------------------------------
(* The planning cache                                                             *)

(* The invariant with what LoadsCoalesce counts said of the loads one by one.     *)
PlanningOK ==
  /\ Planning!TypeOK /\ Planning!WriteIsShown /\ Planning!KeptIsNew /\ Planning!JoinedIsNew
  /\ Planning!WritesAreMade
  /\ \A l \in Loads : loads[l].on /\ loads[l].gen = gen => inFlight = l

(* A set that holds one thing at most is finite and counts one at most.           *)
LEMMA PlanningCounts ==
  PlanningOK <=> Planning!TypeOK /\ Planning!PlanningInv
<1> DEFINE mine == {l \in Loads : loads[l].on /\ loads[l].gen = gen}
           joined == \A l \in Loads : loads[l].on /\ loads[l].gen = gen => inFlight = l
<1>1. joined => mine \subseteq {inFlight}
  OBVIOUS
<1>2. Planning!LoadsCoalesce <=> Cardinality(mine) <= 1 /\ joined
  BY PartsCount DEF Planning!LoadsCoalesce
<1>3. PlanningOK <=> /\ Planning!TypeOK /\ Planning!WriteIsShown /\ Planning!KeptIsNew
                     /\ Planning!JoinedIsNew /\ Planning!WritesAreMade /\ joined
  BY DEF PlanningOK
<1> HIDE DEF mine, joined
<1>4. IsFiniteSet({inFlight}) /\ Cardinality({inFlight}) = 1
  BY FS_Singleton
<1>5. joined => Cardinality(mine) <= 1
  BY <1>1, <1>4, FS_Subset
<1> QED
  BY <1>2, <1>3, <1>5 DEF Planning!PlanningInv

(* Nothing is kept, asked or on its way.                                          *)
LEMMA PlanningInit == Planning!Init => PlanningOK
BY PartsAssumption DEF Planning!Init, PlanningOK, Planning!TypeOK, Planning!WriteIsShown,
   Planning!KeptIsNew, Planning!JoinedIsNew, Planning!WritesAreMade, Planning!Versions,
   Planning!Free

(* An answered write moves the generation, and with it every load that might be   *)
(* older than it out of what is kept and joined.                                  *)
LEMMA PlanningStep ==
  ASSUME PlanningOK, Planning!Next \/ UNCHANGED planningVars
  PROVE  PlanningOK'
<1> USE PartsAssumption DEF PlanningOK, Planning!TypeOK, Planning!WriteIsShown,
        Planning!KeptIsNew, Planning!JoinedIsNew, Planning!WritesAreMade, Planning!Versions,
        Planning!Free, Planning!cache, Planning!tabs
<1>1. CASE Planning!Changes
  BY <1>1 DEF Planning!Changes
<1>2. CASE Planning!Expires
  BY <1>2 DEF Planning!Expires
<1>3. ASSUME NEW t \in Tabs, NEW refresh \in BOOLEAN, Planning!Get(t, refresh)
      PROVE  PlanningOK'
  <2>1. CASE ~refresh /\ cached # None
    BY <1>3, <2>1 DEF Planning!Get
  <2>2. CASE (refresh \/ cached = None) /\ inFlight # None
    BY <1>3, <2>2 DEF Planning!Get, Planning!Joins
  <2>3. CASE (refresh \/ cached = None) /\ inFlight = None
    <3>1. PICK l \in Loads :
            /\ ~loads[l].on /\ Planning!Joins(t, l) /\ inFlight' = l
            /\ loads' = [loads EXCEPT ![l] = [Planning!Free EXCEPT !.on = TRUE, !.gen = gen]]
            /\ UNCHANGED <<cached, gen>>
      BY <1>3, <2>3, Zenon DEF Planning!Get, Planning!Starts
    <3>2. /\ need' = [need EXCEPT ![t] = acked] /\ asks[t] = None
          /\ UNCHANGED <<version, acked, write>>
      BY <1>3 DEF Planning!Get
    <3>3. /\ loads' \in [Loads -> [on : BOOLEAN, gen : Nat, ver : Planning!Versions]]
          /\ loads'[l].on /\ loads'[l].gen = gen /\ loads'[l].ver = None
          /\ \A m \in Loads : m # l => loads'[m] = loads[m]
      <4> DEFINE started == [Planning!Free EXCEPT !.on = TRUE, !.gen = gen]
      <4>1. /\ started \in [on : BOOLEAN, gen : Nat, ver : Planning!Versions]
            /\ started.on /\ started.gen = gen /\ started.ver = None
        OBVIOUS
      <4>2. loads' = [loads EXCEPT ![l] = started]
        BY <3>1, Zenon
      <4> HIDE DEF started
      <4> QED
        BY <4>1, <4>2
    <3>4. Planning!KeptIsNew' /\ Planning!WritesAreMade'
      BY <2>3, <3>1, <3>2, <3>3
    <3>5. Planning!JoinedIsNew'
      <4>1. \A u \in Tabs : asks[u] # None => asks[u] # l
        BY <3>1
      <4>2. \A u \in Tabs : u # t => asks'[u] = asks[u] /\ need'[u] = need[u]
        BY <3>1, <3>2 DEF Planning!Joins
      <4>3. asks'[t] = l /\ need'[t] = acked
        BY <3>1, <3>2 DEF Planning!Joins
      <4> QED
        BY <3>2, <3>3, <4>1, <4>2, <4>3
    <3>8. Planning!WriteIsShown'
      BY <3>1, <3>2 DEF Planning!Joins
    <3>6. Planning!TypeOK'
      BY <3>1, <3>2, <3>3 DEF Planning!Joins
    <3>7. \A m \in Loads : loads'[m].on /\ loads'[m].gen = gen' => inFlight' = m
      BY <2>3, <3>1, <3>3
    <3> QED
      BY <3>4, <3>5, <3>6, <3>7, <3>8
  <2> QED
    BY <2>1, <2>2, <2>3
<1>4. ASSUME NEW l \in Loads, Planning!Reads(l)
      PROVE  PlanningOK'
  BY <1>4 DEF Planning!Reads
<1>5. ASSUME NEW l \in Loads, Planning!Ends(l)
      PROVE  PlanningOK'
  BY <1>5 DEF Planning!Ends, Planning!Over
<1>6. ASSUME NEW l \in Loads, Planning!Fails(l)
      PROVE  PlanningOK'
  BY <1>6 DEF Planning!Fails, Planning!Over
<1>7. ASSUME NEW t \in Tabs, Planning!WriteSent(t)
      PROVE  PlanningOK'
  BY <1>7 DEF Planning!WriteSent
<1>8. ASSUME NEW t \in Tabs, Planning!WriteMade(t)
      PROVE  PlanningOK'
  BY <1>8 DEF Planning!WriteMade
<1>9. ASSUME NEW t \in Tabs, Planning!WriteAnswered(t)
      PROVE  PlanningOK'
  BY <1>9 DEF Planning!WriteAnswered, Planning!Invalidate
<1>10. ASSUME NEW t \in Tabs, Planning!WriteLost(t)
       PROVE  PlanningOK'
  BY <1>10 DEF Planning!WriteLost
<1>11. CASE UNCHANGED planningVars
  BY <1>11 DEF planningVars
<1> QED
  BY <1>1, <1>2, <1>3, <1>4, <1>5, <1>6, <1>7, <1>8, <1>9, <1>10, <1>11 DEF Planning!Next

(* Who asks after a write was answered is shown that write, and the tabs of one   *)
(* generation share one load, however many loads writes have cut off.             *)
THEOREM PlanningShowsWrites == Spec => []PlanningInv
<1>1. Init => PlanningInv
  BY PlanningInit, PlanningCounts DEF Init, PlanningInv
<1>2. PlanningInv /\ [Next]_vars => PlanningInv'
  <2> SUFFICES ASSUME PlanningInv, [Next]_vars, moves' = "planning"
               PROVE  Planning!TypeOK' /\ Planning!PlanningInv'
    BY DEF PlanningInv
  <2>1. PlanningOK
    BY OnePartMoves, PlanningCounts DEF PlanningInv
  <2>2. PlanningOK'
    BY <2>1, OnePartMoves, PlanningStep
  <2> QED
    BY <2>2, PlanningCounts, PTL
<1> QED
  BY <1>1, <1>2, PTL DEF Spec

-------------------------------------------------------------------------------
(* The streams of the browser                                                     *)

Operations == [kind: {"start", "stop"}, res: Responses \cup {None}, at: 0..2]
Stepped(q) == [q EXCEPT ![1].at = @ + 1]
OneBegan(q) ==
  \A i \in DOMAIN q : /\ i > 1 => q[i].at = 0
                      /\ q[i].kind = "stop" => q[i].at < 2

(* A chain with an operation more serves whom that operation serves.              *)
LEMMA ChainGrows ==
  ASSUME NEW q \in Seq(Operations), OneBegan(q), NEW o \in Operations, o.at = 0
  PROVE  /\ Append(q, o) \in Seq(Operations) /\ Append(q, o) # <<>> /\ OneBegan(Append(q, o))
         /\ Append(q, o)[Len(Append(q, o))] = o
         /\ Head(Append(q, o)) = IF q = <<>> THEN o ELSE Head(q)
<1>1. OneBegan(Append(q, o))
  BY AppendFacts DEF OneBegan
<1> QED
  BY <1>1, AppendFacts

(* A chain without its head serves the same, and its new head has not begun.      *)
LEMMA ChainShrinks ==
  ASSUME NEW q \in Seq(Operations), OneBegan(q), q # <<>>
  PROVE  /\ Tail(q) \in Seq(Operations) /\ OneBegan(Tail(q))
         /\ Tail(q) = <<>> => q[Len(q)] = Head(q)
         /\ Tail(q) # <<>> => Tail(q)[Len(Tail(q))] = q[Len(q)] /\ Head(Tail(q)).at = 0
<1>1. OneBegan(Tail(q))
  BY TailFacts DEF OneBegan
<1>2. Tail(q) # <<>> => Head(Tail(q)).at = 0
  BY LastFacts DEF OneBegan
<1> QED
  BY <1>1, <1>2, LastFacts, TailFacts

(* A chain whose head moves on serves the same.                                   *)
LEMMA ChainSteps ==
  ASSUME NEW q \in Seq(Operations), OneBegan(q), q # <<>>,
         Head(q).at < 2, Head(q).kind = "stop" => Head(q).at = 0
  PROVE  /\ Stepped(q) \in Seq(Operations) /\ Stepped(q) # <<>> /\ OneBegan(Stepped(q))
         /\ Head(Stepped(q)).at = Head(q).at + 1 /\ Head(Stepped(q)).kind = Head(q).kind
         /\ Stepped(q)[Len(Stepped(q))].kind = q[Len(q)].kind
         /\ Stepped(q)[Len(Stepped(q))].res = q[Len(q)].res
<1> DEFINE o == [q[1] EXCEPT !.at = @ + 1]
<1>1. /\ Head(q) \in Operations /\ Head(q) = q[1] /\ Len(q) \in Nat /\ Len(q) > 0
      /\ DOMAIN q = 1..Len(q) /\ 1 \in DOMAIN q /\ Len(q) \in DOMAIN q
  OBVIOUS
<1>2. Stepped(q) = [q EXCEPT ![1] = o]
  BY DEF Stepped
<1>3. q[1] \in Operations /\ q[1].at \in 0..1 /\ (q[1].kind = "stop" => q[1].at = 0)
  BY <1>1 DEF Operations
<1>4. o \in Operations /\ o.at = q[1].at + 1 /\ o.kind = q[1].kind /\ o.res = q[1].res
  BY <1>3 DEF Operations
<1> HIDE DEF o
<1>5. /\ Stepped(q) \in Seq(Operations) /\ Len(Stepped(q)) = Len(q)
      /\ DOMAIN Stepped(q) = DOMAIN q /\ Stepped(q)[1] = o
      /\ \A i \in DOMAIN q : i # 1 => Stepped(q)[i] = q[i]
  BY <1>1, <1>2, <1>4
<1>6. OneBegan(Stepped(q))
  BY <1>3, <1>4, <1>5 DEF OneBegan
<1>7. Stepped(q) # <<>> /\ Head(Stepped(q)) = o
  BY <1>1, <1>5
<1>8. /\ Stepped(q)[Len(Stepped(q))].kind = q[Len(q)].kind
      /\ Stepped(q)[Len(Stepped(q))].res = q[Len(q)].res
  BY <1>1, <1>4, <1>5
<1> QED
  BY <1>1, <1>4, <1>5, <1>6, <1>7, <1>8

StreamOK == Stream!TypeOK /\ Stream!StreamInv

(* The parts of the invariant that say what the chain will do and what it did.    *)
StreamKept ==
  /\ Stream!TypeOK /\ OneBegan(chain) /\ Stream!StreamIsNewest /\ Stream!LastServesStream
  /\ Stream!HeadInEffect /\ Stream!PageIsServed

(* Nobody has viewed the page yet.                                                *)
LEMMA StreamInit == Stream!Init => StreamOK
<1> SUFFICES ASSUME Stream!Init PROVE StreamOK
  OBVIOUS
<1> USE DEF Stream!Init
<1>1. Stream!TypeOK
  <2>1. 0 \in 0..MaxFaults
    BY PartsAssumption
  <2>2. chain \in Seq(Stream!Operation)
    OBVIOUS
  <2> QED
    BY <2>1, <2>2 DEF Stream!TypeOK
<1>2. Stream!LastServesStream /\ Stream!OnlyHeadBegan /\ Stream!HeadInEffect
  BY DEF Stream!LastServesStream, Stream!OnlyHeadBegan, Stream!HeadInEffect
<1>3. Stream!PageFollowsStream /\ Stream!StreamIsNewest /\ Stream!PageIsServed
  BY DEF Stream!PageFollowsStream, Stream!StreamIsNewest, Stream!PageIsServed
<1> QED
  BY <1>1, <1>2, <1>3 DEF StreamOK, Stream!StreamInv

(* They are all of it.                                                            *)
LEMMA StreamParts == StreamOK <=> StreamKept
<1>1. Stream!OnlyHeadBegan <=> OneBegan(chain)
  BY DEF Stream!OnlyHeadBegan, OneBegan
<1>2. /\ Stream!TypeOK /\ Stream!StreamIsNewest /\ Stream!PageIsServed => Stream!PageFollowsStream
  BY DEF Stream!TypeOK, Stream!StreamIsNewest, Stream!PageIsServed, Stream!PageFollowsStream
<1> QED
  BY <1>1, <1>2 DEF StreamOK, StreamKept, Stream!StreamInv

(* An operation is queued whenever the stream changes hands, and the last one     *)
(* that was queued has its way, for each looks again at who streams.              *)
LEMMA StreamStep ==
  ASSUME StreamOK, Stream!Next \/ UNCHANGED streamVars
  PROVE  StreamOK'
<1> SUFFICES StreamKept'
  BY StreamParts, PTL
<1> USE DEF Stream!StreamIsNewest, Stream!LastServesStream, Stream!HeadInEffect, Stream!PageIsServed
<1>1. /\ Stream!TypeOK /\ OneBegan(chain) /\ Stream!StreamIsNewest /\ Stream!LastServesStream
      /\ Stream!HeadInEffect /\ Stream!PageIsServed
  BY StreamParts DEF StreamKept
<1>2. /\ chain \in Seq(Operations) /\ MaxFaults \in Nat /\ None \notin Responses
      /\ \A q : q \in Seq(Operations) <=> q \in Seq(Stream!Operation)
  BY <1>1, PartsAssumption DEF Stream!TypeOK, Operations, Stream!Operation
<1>3. CASE Stream!OpenEnds
  BY <1>1, <1>2, <1>3 DEF StreamKept, Stream!TypeOK, Stream!OpenEnds
<1>4. ASSUME NEW r \in Responses, Stream!Attach(r)
      PROVE  StreamKept'
  <2> DEFINE o == [kind |-> "start", res |-> r, at |-> 0]
  <2>1. o \in Operations /\ o.at = 0 /\ o.kind = "start" /\ o.res = r
    BY DEF Operations
  <2>2. chain' = Append(chain, o)
    BY <1>4 DEF Stream!Attach, Stream!Queued
  <2> HIDE DEF o
  <2>3. /\ chain' \in Seq(Operations) /\ chain' # <<>> /\ OneBegan(chain')
        /\ chain'[Len(chain')] = o /\ Head(chain') = IF chain = <<>> THEN o ELSE Head(chain)
    BY <1>1, <1>2, <2>1, <2>2, ChainGrows
  <2>4. Stream!TypeOK' /\ Stream!StreamIsNewest'
    BY <1>1, <1>2, <1>4, <2>3 DEF Stream!TypeOK, Stream!Attach
  <2>5. Stream!LastServesStream'
    BY <1>2, <1>4, <2>1, <2>3 DEF Stream!Attach
  <2>6. Stream!HeadInEffect'
    <3>1. lifecycle' = lifecycle /\ casting' = casting /\ (~early' => ~early)
      BY <1>4 DEF Stream!Attach
    <3>2. CASE chain = <<>>
      BY <2>1, <2>3, <3>2
    <3>3. CASE chain # <<>>
      BY <1>1, <2>3, <3>1, <3>3
    <3> QED
      BY <3>2, <3>3
  <2>7. Stream!PageIsServed'
    BY <1>1, <1>2, <1>4, <2>3 DEF Stream!Attach, Stream!TypeOK
  <2> QED
    BY <2>3, <2>4, <2>5, <2>6, <2>7 DEF StreamKept
<1>5. ASSUME NEW r \in Responses, Stream!Detach(r)
      PROVE  StreamKept'
  <2>1. CASE stream = r
    <3> DEFINE o == [kind |-> "stop", res |-> None, at |-> 0]
    <3>1. o \in Operations /\ o.at = 0 /\ o.kind = "stop"
      BY DEF Operations
    <3>2. chain' = Append(chain, o) /\ stream' = None
      BY <1>5, <2>1 DEF Stream!Detach, Stream!Queued
    <3> HIDE DEF o
    <3>3. /\ chain' \in Seq(Operations) /\ chain' # <<>> /\ OneBegan(chain')
          /\ chain'[Len(chain')] = o /\ Head(chain') = IF chain = <<>> THEN o ELSE Head(chain)
      BY <1>1, <1>2, <3>1, <3>2, ChainGrows
    <3>4. /\ UNCHANGED <<attached, viewer, lifecycle, casting, opening, early, streamFaults, stopFailed>>
          /\ gone' = gone \cup {r} /\ r \in attached \ gone /\ viewer = r
      BY <1>1, <1>2, <1>5, <2>1 DEF Stream!Detach
    <3>5. Stream!TypeOK' /\ Stream!StreamIsNewest' /\ Stream!LastServesStream'
      BY <1>1, <1>2, <3>1, <3>2, <3>3, <3>4 DEF Stream!TypeOK
    <3>6. Stream!HeadInEffect'
      <4>1. CASE chain = <<>>
        BY <3>1, <3>3, <4>1
      <4>2. CASE chain # <<>>
        BY <1>1, <3>3, <3>4, <4>2
      <4> QED
        BY <4>1, <4>2
    <3>7. Stream!PageIsServed'
      BY <1>1, <1>2, <3>3, <3>4
    <3> QED
      BY <3>3, <3>5, <3>6, <3>7 DEF StreamKept
  <2>2. CASE stream # r
    <3>1. /\ UNCHANGED <<stream, chain, attached, viewer, lifecycle, casting, opening, early,
                         streamFaults, stopFailed>>
          /\ gone' = gone \cup {r} /\ r \in attached \ gone
      BY <1>5, <2>2 DEF Stream!Detach
    <3> QED
      BY <1>1, <1>2, <2>2, <3>1 DEF StreamKept, Stream!TypeOK
  <2> QED
    BY <2>1, <2>2
<1>6. ASSUME chain # <<>>
      PROVE  /\ Head(chain) \in Operations
             /\ Head(chain).kind = "stop" => Head(chain).at < 2
             /\ Tail(chain) \in Seq(Operations) /\ OneBegan(Tail(chain))
             /\ Tail(chain) = <<>> => chain[Len(chain)] = Head(chain)
             /\ Tail(chain) # <<>> => /\ Tail(chain)[Len(Tail(chain))] = chain[Len(chain)]
                                      /\ Head(Tail(chain)).at = 0
  <2>1. Head(chain) \in Operations /\ Head(chain) = chain[1] /\ 1 \in DOMAIN chain
    BY <1>2, <1>6, TailFacts
  <2>2. Head(chain).kind = "stop" => Head(chain).at < 2
    BY <1>1, <2>1 DEF OneBegan
  <2> QED
    BY <1>1, <1>2, <1>6, <2>1, <2>2, ChainShrinks
<1>7. ASSUME chain # <<>>, chain' = Tail(chain),
             UNCHANGED <<stream, gone, attached, viewer, opening, early>>,
             lifecycle' \in {"active", "frozen"}, casting' \in BOOLEAN,
             streamFaults' \in 0..MaxFaults, stopFailed' \in BOOLEAN,
             Tail(chain) = <<>> /\ ~early =>
               IF stream = None THEN stopFailed' \/ (lifecycle' = "frozen" /\ ~casting')
               ELSE streamFaults' = 0 => lifecycle' = "active" /\ casting'
      PROVE  StreamKept'
  <2>1. Stream!TypeOK' /\ Stream!StreamIsNewest'
    BY <1>1, <1>2, <1>6, <1>7 DEF Stream!TypeOK
  <2>2. Stream!LastServesStream' /\ Stream!HeadInEffect'
    BY <1>1, <1>6, <1>7
  <2>3. Stream!PageIsServed'
    BY <1>1, <1>7
  <2> QED
    BY <1>6, <1>7, <2>1, <2>2, <2>3 DEF StreamKept
<1>8. ASSUME chain # <<>>, Head(chain).at < 2, Head(chain).kind = "stop" => Head(chain).at = 0,
             chain' = Stepped(chain),
             UNCHANGED <<stream, gone, attached, viewer, opening, early, streamFaults, stopFailed>>,
             lifecycle' \in {"active", "frozen"}, casting' \in BOOLEAN,
             IF Head(chain).kind = "stop" THEN ~casting'
             ELSE Head(chain).at = 1 => lifecycle' = "active"
      PROVE  StreamKept'
  <2>1. /\ chain' \in Seq(Operations) /\ chain' # <<>> /\ OneBegan(chain')
        /\ Head(chain').at = Head(chain).at + 1 /\ Head(chain').kind = Head(chain).kind
        /\ chain'[Len(chain')].kind = chain[Len(chain)].kind
        /\ chain'[Len(chain')].res = chain[Len(chain)].res
    BY <1>1, <1>2, <1>8, ChainSteps
  <2>2. Head(chain).at \in 0..2
    BY <1>6, <1>8 DEF Operations
  <2>3. Stream!TypeOK' /\ Stream!StreamIsNewest' /\ Stream!LastServesStream'
    BY <1>1, <1>2, <1>8, <2>1 DEF Stream!TypeOK
  <2>4. Stream!HeadInEffect'
    BY <1>8, <2>1, <2>2
  <2>5. Stream!PageIsServed'
    BY <1>1, <1>8, <2>1
  <2> QED
    BY <2>1, <2>3, <2>4, <2>5 DEF StreamKept
<1>9. CASE Stream!Start
  <2> DEFINE head == Head(chain)
  <2>1. /\ chain # <<>> /\ head.kind = "start"
        /\ UNCHANGED <<stream, gone, attached, viewer, opening, early, streamFaults, stopFailed>>
    BY <1>9 DEF Stream!Start
  <2>2. CASE ~(stream = head.res /\ head.res \notin gone) /\ chain' = Tail(chain)
             /\ UNCHANGED <<lifecycle, casting>>
    <3>1. Tail(chain) # <<>>
      BY <1>1, <1>2, <1>6, <2>1, <2>2 DEF Stream!TypeOK
    <3> QED
      BY <1>1, <1>7, <2>1, <2>2, <3>1 DEF Stream!TypeOK
  <2>3. CASE /\ head.at = 2 /\ chain' = Tail(chain) /\ casting'
             /\ lifecycle' = lifecycle /\ casting' \in BOOLEAN
    <3>1. Tail(chain) = <<>> => stream # None
      BY <1>1, <1>2, <1>6, <2>1 DEF Stream!TypeOK
    <3>2. ~early => lifecycle = "active"
      BY <1>1, <2>1, <2>3
    <3> QED
      BY <1>1, <1>7, <2>1, <2>3, <3>1, <3>2 DEF Stream!TypeOK
  <2>4. CASE /\ head.at # 2 /\ chain' = Stepped(chain) /\ casting' \in BOOLEAN
             /\ lifecycle' = IF head.at = 1 THEN "active" ELSE lifecycle
    <3>1. head.at < 2
      BY <1>6, <2>1, <2>4 DEF Operations
    <3> QED
      BY <1>1, <1>8, <2>1, <2>4, <3>1 DEF Stream!TypeOK
  <2> HIDE DEF head
  <2>5. Stream!Step = Stepped(chain) /\ 2 # 1 /\ casting \in BOOLEAN
    BY <1>1 DEF Stream!Step, Stepped, Stream!TypeOK
  <2>6. \/ ~(stream = head.res /\ head.res \notin gone) /\ chain' = Tail(chain)
           /\ UNCHANGED <<lifecycle, casting>>
        \/ /\ chain' = IF head.at = 2 THEN Tail(chain) ELSE Stepped(chain)
           /\ lifecycle' = IF head.at = 1 THEN "active" ELSE lifecycle
           /\ casting' = IF head.at = 1 THEN casting ELSE head.at = 2
    BY <1>9, <2>5, Zenon DEF Stream!Start, head
  <2>7. CASE /\ chain' = IF head.at = 2 THEN Tail(chain) ELSE Stepped(chain)
             /\ lifecycle' = IF head.at = 1 THEN "active" ELSE lifecycle
             /\ casting' = IF head.at = 1 THEN casting ELSE head.at = 2
    <3>1. CASE head.at = 2
      BY <2>3, <2>5, <2>7, <3>1
    <3>2. CASE head.at # 2
      BY <2>4, <2>5, <2>7, <3>2
    <3> QED
      BY <3>1, <3>2
  <2> QED
    BY <2>2, <2>6, <2>7
<1>10. CASE Stream!Stop
  <2>1. /\ chain # <<>> /\ Head(chain).kind = "stop"
        /\ UNCHANGED <<stream, gone, attached, viewer, opening, early, streamFaults, stopFailed>>
    BY <1>10 DEF Stream!Stop
  <2>2. Head(chain).at \in 0..1
    BY <1>6, <2>1 DEF Operations
  <2>3. CASE stream # None /\ chain' = Tail(chain) /\ UNCHANGED <<lifecycle, casting>>
    <3>1. Tail(chain) # <<>>
      BY <1>1, <1>6, <2>1, <2>3 DEF Stream!TypeOK
    <3> QED
      BY <1>1, <1>7, <2>1, <2>3, <3>1 DEF Stream!TypeOK
  <2>4. CASE Head(chain).at = 0 /\ chain' = Stepped(chain) /\ casting' = FALSE /\ lifecycle' = lifecycle
    <3>1. Head(chain).at < 2
      BY <2>4
    <3>3. casting' \in BOOLEAN /\ ~casting'
      BY <2>4, Zenon
    <3>2. lifecycle' \in {"active", "frozen"}
      BY <1>1, <2>4 DEF Stream!TypeOK
    <3> QED
      BY <1>8, <2>1, <2>4, <3>1, <3>2, <3>3, Zenon
  <2>5. CASE stream = None /\ chain' = Tail(chain) /\ casting' = FALSE /\ lifecycle' = "frozen"
    BY <1>1, <1>7, <2>1, <2>5 DEF Stream!TypeOK
  <2>7. Stream!Step = Stepped(chain)
    BY DEF Stream!Step, Stepped
  <2>9. CASE stream = None /\ Head(chain).at = 0
    <3>1. Head(chain).at # 1
      BY <2>9
    <3>2. chain' = Stepped(chain) /\ casting' = FALSE /\ lifecycle' = lifecycle
      BY <1>10, <2>7, <2>9, <3>1, Zenon DEF Stream!Stop
    <3> QED
      BY <2>4, <2>9, <3>2
  <2>10. CASE stream = None /\ Head(chain).at # 0
    <3>1. Head(chain).at = 1
      BY <2>2, <2>10
    <3>2. chain' = Tail(chain) /\ casting' = FALSE /\ lifecycle' = "frozen"
      BY <1>10, <2>10, <3>1, Zenon DEF Stream!Stop
    <3> QED
      BY <2>5, <2>10, <3>2
  <2>11. CASE stream # None
    BY <1>10, <2>3, <2>11, Zenon DEF Stream!Stop
  <2> QED
    BY <2>9, <2>10, <2>11
<1>11. CASE Stream!Refused
  <2>1. /\ chain # <<>> /\ chain' = Tail(chain) /\ streamFaults' = streamFaults + 1
        /\ streamFaults' \in 0..MaxFaults /\ streamFaults' # 0
        /\ UNCHANGED <<stream, gone, attached, viewer, lifecycle, casting, opening, early>>
    BY <1>1, <1>2, <1>11 DEF Stream!Refused, Stream!TypeOK
  <2>2. stopFailed' \in BOOLEAN /\ (Head(chain).kind = "stop" => stopFailed')
    BY <1>1, <1>11 DEF Stream!Refused, Stream!TypeOK
  <2>3. Tail(chain) = <<>> /\ stream = None => Head(chain).kind = "stop"
    BY <1>1, <1>6, <2>1
  <2> QED
    BY <1>1, <1>7, <2>1, <2>2, <2>3 DEF Stream!TypeOK
<1>12. CASE UNCHANGED streamVars
  BY <1>1, <1>12 DEF StreamKept, streamVars, Stream!TypeOK
<1> QED
  BY <1>3, <1>4, <1>5, <1>9, <1>10, <1>11, <1>12 DEF Stream!Next

-------------------------------------------------------------------------------
(* The slots of the browser                                                       *)

Stages == {"begin", "launch", "new", "attach", "goto"}
OpensRecords == [session: Sessions, at: Stages, ctx: 0..MaxContexts, page: 0..MaxMade]
Gone(q, at, ctx, page) == [q EXCEPT ![1] = [@ EXCEPT !.at = at, !.ctx = ctx, !.page = page]]
OneAsks(q) == \A i \in DOMAIN q : i > 1 => q[i].at = "begin"

(* An open that is queued has not begun.                                          *)
LEMMA OpensGrow ==
  ASSUME NEW q \in Seq(OpensRecords), OneAsks(q), NEW o \in OpensRecords, o.at = "begin"
  PROVE  /\ Append(q, o) \in Seq(OpensRecords) /\ Len(Append(q, o)) = Len(q) + 1
         /\ Append(q, o) # <<>> /\ OneAsks(Append(q, o))
         /\ Head(Append(q, o)) = IF q = <<>> THEN o ELSE Head(q)
<1>1. OneAsks(Append(q, o))
  BY AppendFacts DEF OneAsks
<1> QED
  BY <1>1, AppendFacts

(* When one open has ended the next has not begun.                                *)
LEMMA OpensShrink ==
  ASSUME NEW q \in Seq(OpensRecords), OneAsks(q), q # <<>>
  PROVE  /\ Tail(q) \in Seq(OpensRecords) /\ OneAsks(Tail(q)) /\ Len(Tail(q)) = Len(q) - 1
         /\ Tail(q) # <<>> => Head(Tail(q)).at = "begin"
<1>1. OneAsks(Tail(q))
  BY TailFacts DEF OneAsks
<1>2. Tail(q) # <<>> => Head(Tail(q)).at = "begin"
  BY LastFacts DEF OneAsks
<1> QED
  BY <1>1, <1>2, TailFacts

(* The open that runs goes on, for the same session.                              *)
LEMMA OpensGo ==
  ASSUME NEW q \in Seq(OpensRecords), OneAsks(q), q # <<>>,
         NEW at \in Stages, NEW ctx \in 0..MaxContexts, NEW page \in 0..MaxMade
  PROVE  /\ Gone(q, at, ctx, page) \in Seq(OpensRecords) /\ Gone(q, at, ctx, page) # <<>>
         /\ Len(Gone(q, at, ctx, page)) = Len(q) /\ OneAsks(Gone(q, at, ctx, page))
         /\ Head(Gone(q, at, ctx, page)).session = Head(q).session
         /\ Head(Gone(q, at, ctx, page)).at = at
         /\ Head(Gone(q, at, ctx, page)).page = page
<1> DEFINE o == [q[1] EXCEPT !.at = at, !.ctx = ctx, !.page = page]
           r == Gone(q, at, ctx, page)
<1>1. /\ Head(q) = q[1] /\ q[1] \in OpensRecords /\ Len(q) \in Nat /\ Len(q) > 0
      /\ DOMAIN q = 1..Len(q) /\ 1 \in DOMAIN q
  OBVIOUS
<1>2. r = [q EXCEPT ![1] = o]
  BY DEF Gone
<1>3. o \in OpensRecords /\ o.session = q[1].session /\ o.at = at /\ o.page = page
  BY <1>1 DEF OpensRecords
<1> HIDE DEF o, r
<1>4. /\ r \in Seq(OpensRecords) /\ Len(r) = Len(q) /\ DOMAIN r = DOMAIN q /\ r[1] = o
      /\ \A i \in DOMAIN q : i # 1 => r[i] = q[i]
  BY <1>1, <1>2, <1>3
<1>5. OneAsks(r)
  BY <1>1, <1>4 DEF OneAsks
<1>6. r # <<>> /\ Head(r) = o
  BY <1>1, <1>4
<1> QED
  BY <1>1, <1>3, <1>4, <1>5, <1>6 DEF r

(* What is left of the type invariant without the chain of opens and the closes.  *)
SlotsRest ==
  /\ slots \in [Sessions -> 0..MaxMade] /\ live \subseteq Slots!PageIds
  /\ owner \in [Slots!PageIds -> Sessions] /\ home \in [Slots!PageIds -> 0..MaxContexts]
  /\ fresh \subseteq Slots!PageIds /\ streaming \subseteq Slots!PageIds
  /\ context \in 0..MaxContexts /\ browsers \subseteq Slots!ContextIds
  /\ launched \in 0..MaxContexts /\ made \in 0..MaxMade /\ slotFaults \in 0..MaxFaults
CloseRecords == [at: {"idle", "wait", "page", "scan", "context"}, session: Sessions,
                 ahead: 0..MaxOpens, page: 0..MaxMade, ctx: 0..MaxContexts]
Closes == [Slots!Callers -> CloseRecords]
HeldFits == IsFiniteSet(Slots!Held) /\ Cardinality(Slots!Held) <= MaxPages
Room == Cardinality(Slots!Held) < MaxPages
OpensFit ==
  /\ opens \in Seq(OpensRecords) /\ Len(opens) <= MaxOpens /\ OneAsks(opens)
  /\ opens # <<>> /\ Head(opens).at \in {"launch", "new", "attach"} => Room
  /\ opens # <<>> /\ Head(opens).at = "attach" =>
       Head(opens).page \in 1..made /\ owner[Head(opens).page] = Head(opens).session

SlotsOK == Slots!TypeOK /\ Slots!SlotsInv
SlotsKept ==
  /\ SlotsRest /\ closing \in Closes /\ HeldFits /\ Slots!SlotIsLive /\ OpensFit
  /\ live \subseteq 1..made

(* They are the type invariant and the invariant.                                 *)
LEMMA SlotsParts == SlotsOK <=> SlotsKept
<1> USE DEF SlotsOK, SlotsKept
<1>1. Slots!TypeOK <=> SlotsRest /\ closing \in Closes /\ opens \in Seq(OpensRecords)
  BY DEF Slots!TypeOK, SlotsRest, Closes, CloseRecords, OpensRecords, Stages
<1>2. Slots!OneOpenAtATime <=> Len(opens) <= MaxOpens /\ OneAsks(opens)
  BY DEF Slots!OneOpenAtATime, OneAsks
<1>3. Slots!SlotsCapped /\ Slots!RoomForOpen <=>
        HeldFits /\ (opens # <<>> /\ Head(opens).at \in {"launch", "new", "attach"} => Room)
  BY PartsCount DEF Slots!SlotsCapped, Slots!RoomForOpen, Slots!Asked, HeldFits, Room
<1>4. Slots!PagesAreMade <=>
        /\ live \subseteq 1..made
        /\ opens # <<>> /\ Head(opens).at = "attach" =>
             Head(opens).page \in 1..made /\ owner[Head(opens).page] = Head(opens).session
  BY DEF Slots!PagesAreMade, Slots!Asked
<1> QED
  BY <1>1, <1>2, <1>3, <1>4 DEF Slots!SlotsInv, OpensFit

(* No slot is held.                                                               *)
LEMMA SlotsInit == Slots!Init => SlotsOK
<1> SUFFICES ASSUME Slots!Init PROVE SlotsKept
  BY SlotsParts
<1> USE DEF Slots!Init
<1>1. /\ 0 \in 0..MaxMade /\ 0 \in 0..MaxContexts /\ 0 \in 0..MaxFaults /\ 0 \in 0..MaxOpens
      /\ MaxPages \in Nat /\ MaxOpens \in Nat /\ (CHOOSE s \in Sessions : TRUE) \in Sessions
  BY PartsAssumption
<1>2. SlotsRest /\ closing \in Closes
  BY <1>1 DEF SlotsRest, Closes, CloseRecords, Slots!Idle
<1>3. Slots!Held = {}
  BY DEF Slots!Held
<1>4. HeldFits
  BY <1>1, <1>3, FS_EmptySet DEF HeldFits
<1>5. Slots!SlotIsLive /\ live \subseteq 1..made
  BY <1>3 DEF Slots!SlotIsLive
<1>6. OpensFit
  BY <1>1 DEF OpensFit, OneAsks
<1> QED
  BY <1>2, <1>4, <1>5, <1>6 DEF SlotsKept

(* The slots that are held are counted when an open asks; as one open runs at a   *)
(* time, only closes come between that and the slot it takes.                     *)
LEMMA SlotsStep ==
  ASSUME SlotsOK, Slots!Next \/ UNCHANGED slotsVars
  PROVE  SlotsOK'
<1> SUFFICES SlotsKept'
  BY SlotsParts, PTL
<1>1. /\ SlotsRest /\ closing \in Closes /\ HeldFits /\ Slots!SlotIsLive /\ OpensFit
      /\ live \subseteq 1..made
  BY SlotsParts DEF SlotsKept
<1>2. /\ MaxMade \in Nat /\ MaxContexts \in Nat /\ MaxFaults \in Nat /\ MaxOpens \in Nat
      /\ MaxPages \in Nat /\ (CHOOSE s \in Sessions : TRUE) \in Sessions
      /\ 0 \in 0..MaxMade /\ 0 \in 0..MaxContexts /\ 0 \in 0..MaxFaults /\ 0 \in 0..MaxOpens
  BY PartsAssumption
<1>3. /\ opens \in Seq(OpensRecords) /\ Len(opens) <= MaxOpens /\ OneAsks(opens)
      /\ Len(opens) \in 0..MaxOpens
      /\ opens # <<>> => Head(opens) \in OpensRecords
  <2>1. opens \in Seq(OpensRecords) /\ Len(opens) <= MaxOpens /\ OneAsks(opens)
    BY <1>1 DEF OpensFit
  <2> QED
    BY <1>2, <2>1
<1>4. slots' = slots => Slots!Held' = Slots!Held
  BY DEF Slots!Held
<1>5. ASSUME Slots!Held' \subseteq Slots!Held
      PROVE  HeldFits' /\ (Room => Room')
  <2>1. IsFiniteSet(Slots!Held) /\ Cardinality(Slots!Held) <= MaxPages
    BY <1>1 DEF HeldFits
  <2>2. /\ IsFiniteSet(Slots!Held') /\ Cardinality(Slots!Held') <= Cardinality(Slots!Held)
        /\ Cardinality(Slots!Held) \in Nat /\ Cardinality(Slots!Held') \in Nat
    BY <1>5, <2>1, FS_Subset, FS_CardinalityType
  <2> QED
    BY <1>2, <2>1, <2>2 DEF HeldFits, Room
<1>6. ASSUME opens # <<>>, Slots!Ends, UNCHANGED <<slots, live, owner, made>>, SlotsRest'
      PROVE  SlotsKept'
  <2>1. /\ opens' \in Seq(OpensRecords) /\ OneAsks(opens') /\ Len(opens') <= MaxOpens
        /\ opens' # <<>> => Head(opens').at = "begin"
    <3>1. opens' = Tail(opens)
      BY <1>6 DEF Slots!Ends
    <3>2. /\ opens' \in Seq(OpensRecords) /\ OneAsks(opens') /\ Len(opens') = Len(opens) - 1
          /\ opens' # <<>> => Head(opens').at = "begin"
      BY <1>3, <1>6, <3>1, OpensShrink, Zenon
    <3> QED
      BY <1>2, <1>3, <3>2
  <2>2. OpensFit'
    BY <2>1 DEF OpensFit
  <2>3. closing' \in Closes
    <3>1. ASSUME NEW k \in Slots!Callers
          PROVE  [closing[k] EXCEPT !.ahead = IF @ > 0 THEN @ - 1 ELSE 0] \in CloseRecords
      BY <1>1, <1>2 DEF Closes, CloseRecords
    <3> QED
      BY <1>6, <3>1, Zenon DEF Slots!Ends, Closes
  <2>4. HeldFits' /\ Slots!SlotIsLive'
    BY <1>1, <1>4, <1>5, <1>6 DEF Slots!SlotIsLive
  <2> QED
    BY <1>1, <1>6, <2>2, <2>3, <2>4 DEF SlotsKept
<1>7. ASSUME opens # <<>>, NEW at \in Stages, NEW ctx \in 0..MaxContexts, NEW page \in 0..MaxMade,
             Slots!Goes(at, ctx, page), SlotsRest', HeldFits', Slots!SlotIsLive',
             live' \subseteq 1..made', at \in {"launch", "new", "attach"} => Room',
             at = "attach" => page \in 1..made' /\ owner'[page] = Head(opens).session
      PROVE  SlotsKept'
  <2>1. opens' = Gone(opens, at, ctx, page) /\ closing' = closing
    BY <1>7 DEF Slots!Goes, Gone
  <2>2. /\ opens' \in Seq(OpensRecords) /\ opens' # <<>> /\ Len(opens') = Len(opens)
        /\ OneAsks(opens') /\ Head(opens').session = Head(opens).session
        /\ Head(opens').at = at /\ Head(opens').page = page
    BY <1>3, <1>7, <2>1, OpensGo
  <2>3. OpensFit'
    BY <1>3, <1>7, <2>2 DEF OpensFit
  <2> QED
    BY <1>1, <1>7, <2>1, <2>3 DEF SlotsKept
<1>8. CASE Slots!Begin
  <2> DEFINE s == Head(opens).session
  <2>1. /\ opens # <<>> /\ s \in Sessions
        /\ UNCHANGED <<slots, live, owner, home, streaming, context, browsers, launched, made, slotFaults>>
    BY <1>3, <1>8 DEF Slots!Begin, OpensRecords
  <2>2. HeldFits' /\ Slots!SlotIsLive' /\ (Room => Room') /\ live' \subseteq 1..made'
    BY <1>1, <1>4, <1>5, <2>1 DEF Slots!SlotIsLive
  <2>3. CASE slots[s] # 0
    <3>1. fresh' = fresh \cup {slots[s]} /\ Slots!Goes("goto", 0, slots[s])
      BY <1>8, <2>3, Zenon DEF Slots!Begin, Slots!Asked
    <3>2. slots[s] \in 0..MaxMade /\ slots[s] \in Slots!PageIds
      BY <1>1, <1>2, <2>1, <2>3 DEF SlotsRest, Slots!PageIds
    <3>3. SlotsRest'
      BY <1>1, <2>1, <3>1, <3>2 DEF SlotsRest, Slots!PageIds, Slots!ContextIds
    <3> QED
      BY <1>2, <1>7, <2>1, <2>2, <3>1, <3>2, <3>3 DEF Stages
  <2>4. CASE slots[s] = 0
    <3>1. /\ fresh' = fresh
          /\ \/ Slots!Ends
             \/ Room /\ Slots!Goes("new", context, 0)
             \/ Room /\ Slots!Goes("launch", 0, 0)
      BY <1>8, <2>4, PartsCount DEF Slots!Begin, Slots!Asked, Room
    <3>2. SlotsRest'
      BY <1>1, <2>1, <3>1 DEF SlotsRest, Slots!PageIds, Slots!ContextIds
    <3>3. context \in 0..MaxContexts
      BY <1>1 DEF SlotsRest
    <3>4. CASE Slots!Ends
      BY <1>6, <2>1, <3>2, <3>4
    <3>5. CASE Room /\ Slots!Goes("new", context, 0)
      BY <1>2, <1>7, <2>1, <2>2, <3>2, <3>3, <3>5 DEF Stages
    <3>6. CASE Room /\ Slots!Goes("launch", 0, 0)
      BY <1>2, <1>7, <2>1, <2>2, <3>2, <3>6 DEF Stages
    <3> QED
      BY <3>1, <3>4, <3>5, <3>6
  <2> QED
    BY <2>3, <2>4
<1>9. CASE Slots!Launched
  <2>1. /\ opens # <<>> /\ Head(opens).at = "launch" /\ Slots!Goes("new", launched', 0)
        /\ launched < MaxContexts /\ launched' = launched + 1 /\ context' = launched'
        /\ browsers' = browsers \cup {launched'}
        /\ UNCHANGED <<slots, live, owner, home, fresh, streaming, made, slotFaults>>
    BY <1>9 DEF Slots!Launched, Slots!Asked
  <2>2. launched' \in 0..MaxContexts /\ launched' \in Slots!ContextIds
    BY <1>1, <1>2, <2>1 DEF SlotsRest, Slots!ContextIds
  <2>3. SlotsRest'
    BY <1>1, <2>1, <2>2 DEF SlotsRest, Slots!PageIds, Slots!ContextIds
  <2>4. HeldFits' /\ Slots!SlotIsLive' /\ Room' /\ live' \subseteq 1..made'
    BY <1>1, <1>4, <1>5, <2>1 DEF Slots!SlotIsLive, OpensFit
  <2> QED
    BY <1>2, <1>7, <2>1, <2>2, <2>3, <2>4 DEF Stages
<1>10. CASE Slots!NewPage
  <2> DEFINE s == Head(opens).session
  <2>1. /\ opens # <<>> /\ Head(opens).at = "new" /\ Slots!Goes("attach", Head(opens).ctx, made')
        /\ made < MaxMade /\ made' = made + 1 /\ live' = live \cup {made'}
        /\ owner' = [owner EXCEPT ![made'] = s] /\ home' = [home EXCEPT ![made'] = Head(opens).ctx]
        /\ fresh' = fresh \cup {made'}
        /\ UNCHANGED <<slots, streaming, context, browsers, launched, slotFaults>>
    BY <1>10 DEF Slots!NewPage, Slots!Asked
  <2>2. s \in Sessions /\ Head(opens).ctx \in 0..MaxContexts
    BY <1>3, <2>1 DEF OpensRecords
  <2>3. /\ made \in 0..MaxMade /\ made' \in 0..MaxMade /\ made' \in Slots!PageIds
        /\ made' \in 1..made' /\ made' \notin live /\ live' \subseteq 1..made'
    BY <1>1, <1>2, <2>1 DEF SlotsRest, Slots!PageIds
  <2>4. SlotsRest'
    BY <1>1, <2>1, <2>2, <2>3 DEF SlotsRest, Slots!PageIds, Slots!ContextIds
  <2>5. owner'[made'] = s /\ \A p \in live : owner'[p] = owner[p] /\ p \in live'
    BY <1>1, <2>1, <2>3 DEF SlotsRest
  <2>6. HeldFits' /\ Room'
    BY <1>1, <1>4, <1>5, <2>1 DEF OpensFit
  <2>7. Slots!SlotIsLive'
    BY <1>1, <1>4, <2>1, <2>5 DEF Slots!SlotIsLive
  <2> QED
    BY <1>7, <2>1, <2>2, <2>3, <2>4, <2>5, <2>6, <2>7 DEF Stages
<1>11. CASE Slots!TakeSlot
  <2> DEFINE s == Head(opens).session
             p == Head(opens).page
  <2>1. /\ opens # <<>> /\ Head(opens).at = "attach" /\ p \in live
        /\ Slots!Goes("goto", Head(opens).ctx, p) /\ slots' = [slots EXCEPT ![s] = p]
        /\ UNCHANGED <<live, owner, home, fresh, streaming, context, browsers, launched, made, slotFaults>>
    BY <1>11 DEF Slots!TakeSlot, Slots!Asked
  <2>2. /\ s \in Sessions /\ Head(opens).ctx \in 0..MaxContexts /\ p \in 0..MaxMade
        /\ owner[p] = s /\ Room
    BY <1>1, <1>3, <2>1 DEF OpensRecords, OpensFit
  <2> HIDE DEF s, p
  <2>3. SlotsRest'
    BY <1>1, <2>1, <2>2 DEF SlotsRest, Slots!PageIds, Slots!ContextIds
  <2>4. slots'[s] = p /\ \A t \in Sessions : t # s => slots'[t] = slots[t]
    BY <1>1, <2>1, <2>2 DEF SlotsRest
  <2>5. HeldFits'
    <3>1. IsFiniteSet(Slots!Held) /\ Cardinality(Slots!Held) < MaxPages
      BY <1>1, <2>2 DEF HeldFits, Room
    <3>2. Slots!Held' \subseteq Slots!Held \cup {s}
      BY <2>4 DEF Slots!Held
    <3>3. /\ IsFiniteSet(Slots!Held \cup {s})
          /\ Cardinality(Slots!Held \cup {s}) <= Cardinality(Slots!Held) + 1
          /\ Cardinality(Slots!Held) \in Nat /\ Cardinality(Slots!Held \cup {s}) \in Nat
      BY <3>1, FS_AddElement, FS_CardinalityType
    <3>4. /\ IsFiniteSet(Slots!Held') /\ Cardinality(Slots!Held') \in Nat
          /\ Cardinality(Slots!Held') <= Cardinality(Slots!Held \cup {s})
      BY <3>2, <3>3, FS_Subset, FS_CardinalityType
    <3> QED
      BY <1>2, <3>1, <3>3, <3>4 DEF HeldFits
  <2>6. Slots!SlotIsLive'
    BY <1>1, <2>1, <2>2, <2>4 DEF Slots!SlotIsLive, Slots!Held
  <2> QED
    BY <1>1, <1>7, <2>1, <2>2, <2>3, <2>5, <2>6 DEF Stages
<1>12. CASE Slots!OpenFails
  <2>1. /\ opens # <<>> /\ Slots!Ends /\ slotFaults' \in 0..MaxFaults
        /\ UNCHANGED <<slots, live, owner, home, fresh, streaming, context, browsers, launched, made>>
    BY <1>1, <1>2, <1>12 DEF Slots!OpenFails, SlotsRest
  <2>2. SlotsRest'
    BY <1>1, <2>1 DEF SlotsRest, Slots!PageIds, Slots!ContextIds
  <2> QED
    BY <1>6, <2>1, <2>2
<1>13. CASE Slots!Loaded
  <2>1. /\ opens # <<>> /\ Slots!Ends
        /\ UNCHANGED <<slots, live, owner, home, fresh, streaming, context, browsers, launched, made, slotFaults>>
    BY <1>13 DEF Slots!Loaded
  <2>2. SlotsRest'
    BY <1>1, <2>1 DEF SlotsRest, Slots!PageIds, Slots!ContextIds
  <2> QED
    BY <1>6, <2>1, <2>2
<1>14. ASSUME UNCHANGED <<opens, owner, made>>, SlotsRest', closing' \in Closes,
              Slots!Held' \subseteq Slots!Held, live' \subseteq live, Slots!SlotIsLive'
       PROVE  SlotsKept'
  <2>1. HeldFits' /\ (Room => Room')
    BY <1>5, <1>14
  <2>2. OpensFit'
    BY <1>1, <1>14, <2>1 DEF OpensFit
  <2> QED
    BY <1>1, <1>14, <2>1, <2>2 DEF SlotsKept
<1>15. ASSUME NEW k \in Slots!Callers
       PROVE  /\ Slots!Idle(k) \in CloseRecords
              /\ \A s \in Sessions : Slots!Calls(k, s) => closing' \in Closes
              /\ Slots!Returns(k) => closing' \in Closes
  <2>1. Slots!Idle(k) \in CloseRecords
    BY <1>2 DEF Slots!Idle, CloseRecords
  <2>2. ASSUME NEW s \in Sessions, Slots!Calls(k, s)
        PROVE  closing' \in Closes
    <3>1. [Slots!Idle(k) EXCEPT !.at = "wait", !.session = s, !.ahead = Len(opens)] \in CloseRecords
      BY <1>3, <2>1 DEF CloseRecords
    <3> QED
      BY <1>1, <2>2, <3>1 DEF Slots!Calls, Closes
  <2>3. ASSUME Slots!Returns(k)
        PROVE  closing' \in Closes
    <3>1. [Slots!Idle(k) EXCEPT !.at = "scan"] \in CloseRecords
      BY <2>1 DEF CloseRecords
    <3> QED
      BY <1>1, <2>1, <2>3, <3>1 DEF Slots!Returns, Closes
  <2> QED
    BY <2>1, <2>2, <2>3
<1>16. CASE Slots!Reap
  <2> DEFINE idle == Slots!Idle("reaper")
  <2>1. UNCHANGED <<slots, live, owner, home, fresh, streaming, browsers, launched, made,
                    slotFaults, opens>>
    BY <1>16 DEF Slots!Reap
  <2>2. "reaper" \in Slots!Callers /\ context \in 0..MaxContexts
    BY <1>1 DEF Slots!Callers, SlotsRest
  <2>3. context' \in 0..MaxContexts
    BY <1>2, <1>16, <2>2 DEF Slots!Reap
  <2>4. idle \in CloseRecords
    BY <1>15, <2>2
  <2> HIDE DEF idle
  <2>5. [idle EXCEPT !.at = "context", !.ctx = context] \in CloseRecords
    BY <2>2, <2>4 DEF CloseRecords
  <2>6. \/ \E s \in Sessions : Slots!Calls("reaper", s)
        \/ closing' = [closing EXCEPT !["reaper"] = [idle EXCEPT !.at = "context", !.ctx = context]]
        \/ closing' = [closing EXCEPT !["reaper"] = idle]
    BY <1>16 DEF Slots!Reap, Slots!Held, idle
  <2>7. closing' \in Closes
    BY <1>1, <1>15, <2>2, <2>4, <2>5, <2>6 DEF Closes
  <2>8. SlotsRest'
    BY <1>1, <2>1, <2>3 DEF SlotsRest, Slots!PageIds, Slots!ContextIds
  <2>9. Slots!SlotIsLive'
    BY <1>1, <1>4, <2>1 DEF Slots!SlotIsLive
  <2> QED
    BY <1>4, <1>14, <2>1, <2>7, <2>8, <2>9
<1>17. ASSUME NEW s \in Sessions, Slots!RequestOpen(s)
       PROVE  SlotsKept'
  <2> DEFINE o == Slots!Open(s)
  <2>1. /\ opens' = Append(opens, o) /\ Len(opens) < MaxOpens
        /\ UNCHANGED <<slots, live, owner, home, fresh, streaming, context, browsers, launched,
                       made, slotFaults, closing>>
    BY <1>17 DEF Slots!RequestOpen
  <2>2. o \in OpensRecords /\ o.at = "begin"
    BY <1>2 DEF Slots!Open, OpensRecords, Stages
  <2> HIDE DEF o
  <2>3. /\ opens' \in Seq(OpensRecords) /\ Len(opens') = Len(opens) + 1 /\ OneAsks(opens')
        /\ Head(opens') = IF opens = <<>> THEN o ELSE Head(opens)
    BY <1>3, <2>1, <2>2, OpensGrow
  <2>4. Len(opens') <= MaxOpens
    BY <1>2, <1>3, <2>1, <2>3
  <2>5. HeldFits' /\ (Room => Room') /\ Slots!SlotIsLive'
    BY <1>1, <1>4, <1>5, <2>1 DEF Slots!SlotIsLive
  <2>6. OpensFit'
    <3>1. CASE opens = <<>>
      BY <2>2, <2>3, <2>4, <3>1 DEF OpensFit
    <3>2. CASE opens # <<>>
      BY <1>1, <2>1, <2>3, <2>4, <2>5, <3>2 DEF OpensFit
    <3> QED
      BY <3>1, <3>2
  <2>7. SlotsRest'
    BY <1>1, <2>1 DEF SlotsRest, Slots!PageIds, Slots!ContextIds
  <2> QED
    BY <1>1, <2>1, <2>5, <2>6, <2>7 DEF SlotsKept
<1>18. ASSUME NEW s \in Sessions, Slots!RequestClose(s)
       PROVE  SlotsKept'
  <2>1. /\ UNCHANGED <<slots, live, owner, home, fresh, streaming, context, browsers, launched,
                       made, slotFaults, opens>>
        /\ Slots!Calls("delete", s)
    BY <1>18 DEF Slots!RequestClose
  <2>2. closing' \in Closes
    BY <1>15, <2>1 DEF Slots!Callers
  <2>3. SlotsRest' /\ Slots!SlotIsLive'
    BY <1>1, <1>4, <2>1 DEF SlotsRest, Slots!PageIds, Slots!ContextIds, Slots!SlotIsLive
  <2> QED
    BY <1>4, <1>14, <2>1, <2>2, <2>3
<1>19. ASSUME NEW s \in Sessions, Slots!Stream(s)
       PROVE  SlotsKept'
  <2>1. /\ UNCHANGED <<slots, live, owner, home, context, browsers, launched, made, slotFaults,
                       opens, closing>>
        /\ slots[s] # 0 /\ fresh' \subseteq fresh \cup {slots[s]}
        /\ streaming' \subseteq streaming \cup {slots[s]}
    BY <1>19 DEF Slots!Stream
  <2>2. slots[s] \in Slots!PageIds
    BY <1>1, <1>2, <2>1 DEF SlotsRest, Slots!PageIds
  <2>3. SlotsRest' /\ Slots!SlotIsLive'
    BY <1>1, <1>4, <2>1, <2>2 DEF SlotsRest, Slots!PageIds, Slots!ContextIds, Slots!SlotIsLive
  <2> QED
    BY <1>1, <1>4, <1>14, <2>1, <2>3
<1>20. ASSUME NEW p \in Slots!PageIds, Slots!Unused(p)
       PROVE  SlotsKept'
  <2>1. /\ UNCHANGED <<slots, live, owner, home, streaming, context, browsers, launched, made,
                       slotFaults, opens, closing>>
        /\ fresh' \subseteq fresh
    BY <1>20 DEF Slots!Unused
  <2>2. SlotsRest' /\ Slots!SlotIsLive'
    BY <1>1, <1>4, <2>1 DEF SlotsRest, Slots!PageIds, Slots!ContextIds, Slots!SlotIsLive
  <2> QED
    BY <1>1, <1>4, <1>14, <2>1, <2>2
<1>21. ASSUME NEW k \in Slots!Callers, Slots!Release(k)
       PROVE  SlotsKept'
  <2> DEFINE s == closing[k].session
             p == slots[s]
  <2>1. UNCHANGED <<live, owner, home, fresh, context, browsers, launched, made, slotFaults, opens>>
    BY <1>21 DEF Slots!Release
  <2>2. /\ closing[k] \in CloseRecords /\ s \in Sessions /\ p \in 0..MaxMade
    BY <1>1 DEF Closes, CloseRecords, SlotsRest
  <2>3. CASE p = 0
    <3>1. Slots!Returns(k) /\ UNCHANGED <<slots, streaming>>
      BY <1>21, <2>3, Zenon DEF Slots!Release
    <3>2. SlotsRest' /\ Slots!SlotIsLive'
      BY <1>1, <1>4, <2>1, <3>1 DEF SlotsRest, Slots!PageIds, Slots!ContextIds, Slots!SlotIsLive
    <3> QED
      BY <1>4, <1>14, <1>15, <2>1, <3>1, <3>2
  <2>4. CASE p # 0
    <3>1. /\ slots' = [slots EXCEPT ![s] = 0] /\ streaming' = streaming \ {p}
          /\ closing' = [closing EXCEPT ![k].at = "page", ![k].page = p]
      BY <1>21, <2>4, Zenon DEF Slots!Release
    <3>2. closing' \in Closes
      BY <1>1, <2>2, <3>1 DEF Closes, CloseRecords
    <3>3. \A t \in Sessions : slots'[t] = IF t = s THEN 0 ELSE slots[t]
      BY <1>1, <2>2, <3>1 DEF SlotsRest
    <3>4. SlotsRest'
      BY <1>1, <1>2, <2>1, <3>1 DEF SlotsRest, Slots!PageIds, Slots!ContextIds
    <3>5. Slots!Held' \subseteq Slots!Held /\ Slots!SlotIsLive'
      BY <1>1, <2>1, <3>3 DEF Slots!Held, Slots!SlotIsLive
    <3> QED
      BY <1>14, <2>1, <3>2, <3>4, <3>5
  <2> QED
    BY <2>3, <2>4
<1>22. ASSUME NEW k \in Slots!Callers, Slots!PageClosed(k)
       PROVE  SlotsKept'
  <2> DEFINE p == closing[k].page
  <2>1. /\ UNCHANGED <<owner, home, fresh, streaming, context, browsers, launched, made,
                       slotFaults, opens>>
        /\ live' = live \ {p} /\ Slots!Returns(k)
        /\ slots' = IF p \in live THEN [slots EXCEPT ![owner[p]] = 0] ELSE slots
    BY <1>22 DEF Slots!PageClosed
  <2> HIDE DEF p
  <2>2. \A t \in Sessions : slots'[t] = IF p \in live /\ t = owner[p] THEN 0 ELSE slots[t]
    BY <1>1, <2>1 DEF SlotsRest
  <2>3. SlotsRest'
    BY <1>1, <1>2, <2>1 DEF SlotsRest, Slots!PageIds, Slots!ContextIds
  <2>4. Slots!Held' \subseteq Slots!Held /\ Slots!SlotIsLive'
    BY <1>1, <2>1, <2>2 DEF Slots!Held, Slots!SlotIsLive
  <2> QED
    BY <1>14, <1>15, <2>1, <2>3, <2>4
<1>23. ASSUME NEW c \in Slots!ContextIds, Slots!ContextClosed(c)
       PROVE  SlotsKept'
  <2>1. /\ UNCHANGED <<owner, home, fresh, launched, made, opens>>
        /\ browsers' = browsers \ {c} /\ live' \subseteq live /\ context' = 0
        /\ slots' = [s \in Sessions |-> 0] /\ streaming' \subseteq streaming
        /\ slotFaults' \in 0..MaxFaults
        /\ closing' = [closing EXCEPT !["reaper"] = Slots!Idle("reaper")] \/ closing' = closing
    BY <1>1, <1>2, <1>23 DEF Slots!ContextClosed, Slots!ContextGone, SlotsRest
  <2>2. closing' \in Closes
    BY <1>1, <1>15, <2>1 DEF Closes, Slots!Callers
  <2>3. Slots!Held' = {}
    BY <2>1 DEF Slots!Held
  <2>4. SlotsRest' /\ Slots!SlotIsLive'
    BY <1>1, <1>2, <2>1, <2>3 DEF SlotsRest, Slots!PageIds, Slots!ContextIds, Slots!SlotIsLive
  <2> QED
    BY <1>14, <2>1, <2>2, <2>3, <2>4
<1>24. CASE UNCHANGED slotsVars
  <2>1. SlotsRest' /\ closing' \in Closes /\ Slots!SlotIsLive' /\ UNCHANGED <<opens, owner, made, live, slots>>
    BY <1>1, <1>4, <1>24 DEF slotsVars, SlotsRest, Slots!PageIds, Slots!ContextIds, Slots!SlotIsLive
  <2> QED
    BY <1>4, <1>14, <2>1
<1> QED
  BY <1>8, <1>9, <1>10, <1>11, <1>12, <1>13, <1>16, <1>17, <1>18, <1>19, <1>20, <1>21,
     <1>22, <1>23, <1>24 DEF Slots!Next

(* When its operations are done the page is awake and cast for its last viewer or *)
(* frozen; and the pages never outnumber the cap, each the live one of its        *)
(* session, whatever opens, closes, reaps and crashes interleave.                 *)
THEOREM BrowserIsKept == Spec => []BrowserInv
<1>1. Init => BrowserInv
  BY StreamInit, SlotsInit DEF Init, BrowserInv, StreamOK, SlotsOK
<1>2. BrowserInv /\ [Next]_vars => BrowserInv'
  <2> SUFFICES ASSUME BrowserInv, [Next]_vars PROVE BrowserInv'
    OBVIOUS
  <2>1. moves' = "stream" => StreamOK'
    BY OnePartMoves, StreamStep DEF BrowserInv, StreamOK
  <2>2. moves' = "slots" => SlotsOK'
    BY OnePartMoves, SlotsStep DEF BrowserInv, SlotsOK
  <2> QED
    BY <2>1, <2>2 DEF BrowserInv, StreamOK, SlotsOK
<1> QED
  BY <1>1, <1>2, PTL DEF Spec

-------------------------------------------------------------------------------
(* The state file of auto-permissions                                             *)

PathLists == SUBSET Directories
Passes == [at : {None, "looked", "reading", "read"}, mtime : Nat, list : PathLists, clean : BOOLEAN]
FileOK == File!TypeOK /\ File!AutoFileInv
FileKept ==
  /\ File!TypeOK /\ File!TogglesWritten /\ File!SeenIsOlder /\ File!LastListAgrees
  /\ File!SeenAgrees

(* A process that has settled has no pass under way and has seen the file as it is.*)
LEMMA FileParts == FileOK <=> FileKept
BY DEF FileOK, FileKept, File!AutoFileInv, File!FollowsFile, File!SeenAgrees, File!Settled,
   File!Passing

(* No process has loaded, seen or written anything.                               *)
LEMMA FileInit == File!Init => FileOK
<1> SUFFICES ASSUME File!Init PROVE FileKept
  BY FileParts
<1> USE DEF File!Init
<1>1. 0 \in 0..MaxToggles /\ 0 \in 0..FileFaults /\ None \notin Processes
  BY PartsAssumption
<1>2. /\ File!NoPass \in Passes /\ File!NoPass.at = None /\ File!NoPass.mtime = 0
      /\ \A p \in Processes : pass[p] = File!NoPass
  BY DEF File!NoPass, Passes, PathLists
<1>3. /\ file \in [mtime : Nat, list : PathLists, by : Processes \union {None}]
      /\ file.by = None /\ file.mtime >= 0
  BY DEF PathLists
<1>4. File!TypeOK
  BY <1>1, <1>2, <1>3 DEF File!TypeOK, Passes, PathLists
<1>5. File!TogglesWritten /\ File!LastListAgrees
  BY <1>1, <1>3 DEF File!TogglesWritten, File!LastListAgrees
<1>6. File!SeenIsOlder
  <2>1. ASSUME NEW p \in Processes
        PROVE  /\ observed[p] <= file.mtime /\ pass[p].mtime <= file.mtime
               /\ pass[p].at = None /\ pass[p].at \notin {"reading", "read"}
    <3>1. pass[p].at = None /\ pass[p].mtime = 0 /\ observed[p] = 0
      BY <1>2
    <3>2. None \notin {"reading", "read"}
      BY PassWords
    <3>3. file.mtime \in Nat /\ 0 <= file.mtime
      BY <1>3
    <3> QED
      BY <3>1, <3>2, <3>3, Zenon
  <2> QED
    BY <2>1, Zenon DEF File!SeenIsOlder
<1>7. File!SeenAgrees
  <2>1. \A p \in Processes : observed[p] = 0
    OBVIOUS
  <2> QED
    BY <2>1 DEF File!SeenAgrees
<1> QED
  BY <1>4, <1>5, <1>6, <1>7 DEF FileKept

(* A write that ends is no longer to be made, and the last one left is the same.  *)
LEMMA WriteOverFacts ==
  ASSUME NEW p \in Processes, writes \in [Processes -> Seq(PathLists)], writes[p] # <<>>,
         File!WriteOver(p)
  PROVE  /\ writes' \in [Processes -> Seq(PathLists)] /\ renamed' = renamed \ {p}
         /\ \A q \in Processes : q # p => writes'[q] = writes[q]
         /\ writes'[p] = <<>> => Head(writes[p]) = writes[p][Len(writes[p])]
         /\ writes'[p] # <<>> => writes'[p][Len(writes'[p])] = writes[p][Len(writes[p])]
         /\ \A i \in DOMAIN writes'[p] : \E j \in DOMAIN writes[p] : writes'[p][i] = writes[p][j]
         /\ Head(writes[p]) = writes[p][1] /\ 1 \in DOMAIN writes[p]
<1>1. writes' = [writes EXCEPT ![p] = Tail(@)] /\ renamed' = renamed \ {p}
  BY DEF File!WriteOver
<1>2. writes[p] \in Seq(PathLists)
  OBVIOUS
<1>3. /\ Tail(writes[p]) \in Seq(PathLists) /\ Head(writes[p]) = writes[p][1] /\ 1 \in DOMAIN writes[p]
      /\ \A i \in DOMAIN Tail(writes[p]) : Tail(writes[p])[i] = writes[p][i + 1] /\ i + 1 \in DOMAIN writes[p]
  BY <1>2, TailFacts
<1>4. /\ writes' \in [Processes -> Seq(PathLists)] /\ writes'[p] = Tail(writes[p])
      /\ \A q \in Processes : q # p => writes'[q] = writes[q]
  BY <1>1, <1>3
<1> QED
  BY <1>1, <1>2, <1>3, <1>4, LastFacts

(* A list is written whole and one at a time, and a pass that began with nothing  *)
(* to write follows what it has seen.                                             *)
LEMMA FileStep ==
  ASSUME FileOK, File!Next \/ UNCHANGED fileVars
  PROVE  FileOK'
<1> SUFFICES FileKept'
  BY FileParts, PTL
<1>1. /\ File!TypeOK /\ File!TogglesWritten /\ File!SeenIsOlder /\ File!LastListAgrees
      /\ File!SeenAgrees
  BY FileParts DEF FileKept
<1>2. /\ on \in [Processes -> PathLists] /\ explicit \in [Processes -> PathLists]
      /\ file \in [mtime : Nat, list : PathLists, by : Processes \union {None}]
      /\ observed \in [Processes -> Nat] /\ writes \in [Processes -> Seq(PathLists)]
      /\ pass \in [Processes -> Passes]
      /\ renamed \subseteq Processes /\ loaded \subseteq Processes
      /\ mixed \subseteq Processes /\ failed \subseteq Processes
      /\ toggles \in 0..MaxToggles /\ fileFaults \in 0..FileFaults
      /\ MaxToggles \in Nat /\ FileFaults \in Nat
  BY <1>1, PartsAssumption DEF File!TypeOK, Passes, PathLists
<1>3. File!NoPass \in Passes /\ File!NoPass.at = None /\ File!NoPass.mtime = 0
  BY DEF File!NoPass, Passes, PathLists
<1>4. CASE UNCHANGED fileVars
  BY <1>1, <1>4 DEF FileKept, fileVars, File!TypeOK, File!TogglesWritten, File!SeenIsOlder,
     File!LastListAgrees, File!SeenAgrees
<1>5. ASSUME NEW p \in Processes, File!Renames(p)
      PROVE  FileKept'
  <2>1. /\ p \notin renamed /\ writes[p] # <<>>
        /\ file' = [mtime |-> file.mtime + 1, list |-> Head(writes[p]), by |-> p]
        /\ renamed' = renamed \union {p} /\ mixed' = mixed \union renamed
        /\ failed' = failed \ {p}
        /\ UNCHANGED <<on, explicit, observed, pass, loaded, writes, toggles, fileFaults>>
    BY <1>5 DEF File!Renames, File!memory
  <2>2. Head(writes[p]) \in PathLists
    BY <1>2, <2>1
  <2>3. File!TypeOK'
    BY <1>2, <2>1, <2>2 DEF File!TypeOK, Passes, PathLists
  <2>4. file'.mtime = file.mtime + 1 /\ file'.by = p /\ file'.list = Head(writes[p]) /\ file.mtime \in Nat
    BY <1>2, <2>1
  <2>5. File!TogglesWritten'
    BY <1>1, <2>1, <2>4 DEF File!TogglesWritten
  <2>6. File!SeenIsOlder'
    <3> SUFFICES ASSUME NEW q \in Processes
                 PROVE  /\ observed[q] <= file.mtime + 1 /\ pass[q].mtime < file.mtime + 1
                        /\ pass[q].at # None /\ pass[q].clean => writes[q] = <<>>
                        /\ pass[q].at \in {"reading", "read"} /\ pass[q].clean => observed[q] = pass[q].mtime
      BY <1>2, <2>1, <2>4 DEF File!SeenIsOlder, Passes
    <3> QED
      BY <1>1, <1>2, <2>4 DEF File!SeenIsOlder, Passes
  <2>7. File!LastListAgrees'
    BY <1>1, <2>1, <2>4 DEF File!LastListAgrees
  <2>8. File!SeenAgrees'
    <3>1. \A q \in Processes : observed'[q] # file'.mtime
      BY <1>1, <1>2, <2>1, <2>4 DEF File!SeenIsOlder
    <3> QED
      BY <3>1 DEF File!SeenAgrees
  <2> QED
    BY <2>3, <2>5, <2>6, <2>7, <2>8 DEF FileKept
<1>6. ASSUME NEW p \in Processes, writes[p] # <<>>, File!WriteOver(p),
             UNCHANGED <<on, explicit, file, pass, loaded, mixed, toggles>>,
             fileFaults' \in 0..FileFaults,
             \/ p \notin renamed /\ UNCHANGED observed /\ failed' = failed \union {p}
             \/ p \in renamed /\ UNCHANGED <<observed, failed>>
             \/ p \in renamed /\ observed' = [observed EXCEPT ![p] = file.mtime] /\ UNCHANGED failed
      PROVE  FileKept'
  <2>1. /\ writes' \in [Processes -> Seq(PathLists)] /\ renamed' = renamed \ {p}
        /\ \A q \in Processes : q # p => writes'[q] = writes[q]
        /\ writes'[p] = <<>> => Head(writes[p]) = writes[p][Len(writes[p])]
        /\ writes'[p] # <<>> => writes'[p][Len(writes'[p])] = writes[p][Len(writes[p])]
        /\ \A i \in DOMAIN writes'[p] : \E j \in DOMAIN writes[p] : writes'[p][i] = writes[p][j]
        /\ Head(writes[p]) = writes[p][1] /\ 1 \in DOMAIN writes[p]
    BY <1>2, <1>6, WriteOverFacts
  <2>2. /\ observed' \in [Processes -> Nat] /\ file.mtime \in Nat
        /\ \A q \in Processes : observed'[q] = observed[q] \/ (q = p /\ p \in renamed /\ observed'[q] = file.mtime)
    BY <1>2, <1>6
  <2>3. failed \subseteq failed' /\ failed' \subseteq Processes /\ (p \in renamed \/ p \in failed')
    BY <1>2, <1>6
  <2>4. File!TypeOK'
    BY <1>2, <1>6, <2>1, <2>2, <2>3 DEF File!TypeOK, Passes, PathLists
  <2>5. File!TogglesWritten'
    <3> SUFFICES ASSUME NEW q \in Processes, file.by = q, writes'[q] = <<>>, q \notin failed'
                 PROVE  \A d \in explicit[q] : d \in on[q] <=> d \in file.list
      BY <1>6 DEF File!TogglesWritten
    <3>1. CASE q # p
      BY <1>1, <2>1, <2>3, <3>1 DEF File!TogglesWritten
    <3>2. CASE q = p
      <4>1. p \in renamed /\ file.by = p
        BY <2>3, <3>2
      <4>2. file.list = Head(writes[p]) /\ \A d \in explicit[p] : d \in on[p] <=> d \in writes[p][Len(writes[p])]
        BY <1>1, <1>6, <4>1 DEF File!LastListAgrees
      <4>3. Head(writes[p]) = writes[p][Len(writes[p])]
        BY <2>1, <3>2
      <4> QED
        BY <3>2, <4>2, <4>3
    <3> QED
      BY <3>1, <3>2
  <2>6. File!SeenIsOlder'
    <3>1. ASSUME NEW q \in Processes
          PROVE  /\ observed'[q] <= file.mtime
                 /\ pass[q].at # None /\ pass[q].clean => writes'[q] = <<>>
                 /\ pass[q].at \in {"reading", "read"} /\ pass[q].clean => observed'[q] = pass[q].mtime
      <4>1. q = p => ~(pass[q].at # None /\ pass[q].clean)
        BY <1>1, <1>6 DEF File!SeenIsOlder
      <4>2. observed'[q] <= file.mtime
        <5>1. CASE observed'[q] = observed[q]
          BY <1>1, <5>1 DEF File!SeenIsOlder
        <5>2. CASE observed'[q] = file.mtime
          BY <2>2, <5>2
        <5> QED
          BY <2>2, <5>1, <5>2
      <4>3. q # p => observed'[q] = observed[q] /\ writes'[q] = writes[q]
        BY <2>1, <2>2
      <4>4. pass[q].at \in {"reading", "read"} => pass[q].at # None
        BY PassWords
      <4> QED
        BY <1>1, <4>1, <4>2, <4>3, <4>4 DEF File!SeenIsOlder
    <3> QED
      BY <1>1, <1>6, <3>1 DEF File!SeenIsOlder
  <2>7. File!LastListAgrees'
    <3>1. ASSUME NEW q \in Processes
          PROVE  /\ writes'[q] # <<>> =>
                      \A d \in explicit[q] : d \in on[q] <=> d \in writes'[q][Len(writes'[q])]
                 /\ q \notin mixed => \A i \in DOMAIN writes'[q] :
                      \A d \in Directories \ explicit[q] : d \in on[q] <=> d \in writes'[q][i]
                 /\ q \in renamed' => /\ writes'[q] # <<>>
                                      /\ file.by = q => file.list = Head(writes'[q])
                                      /\ file.by # q => q \in mixed
      <4>1. CASE q # p
        BY <1>1, <2>1, <4>1 DEF File!LastListAgrees
      <4>2. CASE q = p
        BY <1>1, <1>6, <2>1, <4>2 DEF File!LastListAgrees
      <4> QED
        BY <4>1, <4>2
    <3> QED
      BY <1>6, <3>1 DEF File!LastListAgrees
  <2>8. File!SeenAgrees'
    <3> SUFFICES ASSUME NEW q \in Processes, q \notin mixed, pass[q].at \in {None, "looked"},
                        observed'[q] = file.mtime, file.mtime # 0
                 PROVE  \A d \in Directories \ explicit[q] : d \in on[q] <=> d \in file.list
      BY <1>6 DEF File!SeenAgrees
    <3>1. CASE observed'[q] = observed[q]
      BY <1>1, <3>1 DEF File!SeenAgrees
    <3>2. CASE q = p /\ p \in renamed
      <4>1. file.list = writes[p][1]
        BY <1>1, <2>1, <3>2 DEF File!LastListAgrees
      <4>2. \A d \in Directories \ explicit[p] : d \in on[p] <=> d \in writes[p][1]
        BY <1>1, <2>1, <3>2 DEF File!LastListAgrees
      <4> QED
        BY <3>2, <4>1, <4>2
    <3> QED
      BY <2>2, <3>1, <3>2
  <2> QED
    BY <2>4, <2>5, <2>6, <2>7, <2>8 DEF FileKept
<1>7. ASSUME NEW p \in Processes, File!WriteFails(p)
      PROVE  FileKept'
  <2>1. /\ writes[p] # <<>> /\ File!WriteOver(p) /\ p \notin renamed /\ UNCHANGED observed
        /\ failed' = failed \union {p} /\ UNCHANGED <<on, explicit, file, pass, loaded, mixed, toggles>>
    BY <1>7 DEF File!WriteFails, File!memory
  <2>2. fileFaults' \in 0..FileFaults
    BY <1>2, <1>7 DEF File!WriteFails, File!Fault
  <2> QED
    BY <1>6, <2>1, <2>2
<1>8. ASSUME NEW p \in Processes, File!Stats(p)
      PROVE  FileKept'
  <2>1. /\ File!WriteOver(p) /\ p \in renamed
        /\ \/ observed' = [observed EXCEPT ![p] = file.mtime]
           \/ UNCHANGED observed
        /\ UNCHANGED <<on, explicit, file, pass, loaded, mixed, failed, toggles>>
    BY <1>8 DEF File!Stats, File!memory, File!ghosts
  <2>2. fileFaults' \in 0..FileFaults
    BY <1>2, <1>8 DEF File!Stats, File!Fault
  <2>3. writes[p] # <<>>
    BY <1>1, <2>1 DEF File!LastListAgrees
  <2> QED
    BY <1>6, <2>1, <2>2, <2>3
<1>9. ASSUME NEW p \in Processes, NEW d \in Directories, NEW enabled \in BOOLEAN,
             File!SetEnabled(p, d, enabled)
      PROVE  FileKept'
  <2>1. /\ toggles < MaxToggles /\ toggles' = toggles + 1
        /\ on' = [on EXCEPT ![p] = IF enabled THEN @ \union {d} ELSE @ \ {d}]
        /\ explicit' = [explicit EXCEPT ![p] = @ \union {d}]
        /\ writes' = [writes EXCEPT ![p] = Append(@, on'[p])]
        /\ pass' = [pass EXCEPT ![p].clean = @ /\ ~File!Passing(p)]
        /\ UNCHANGED <<file, observed, loaded, renamed, mixed, failed, fileFaults>>
    BY <1>9 DEF File!SetEnabled, File!Lists, File!ghosts
  <2>2. /\ on' \in [Processes -> PathLists] /\ explicit' \in [Processes -> PathLists]
        /\ \A q \in Processes : q # p => on'[q] = on[q] /\ explicit'[q] = explicit[q]
        /\ explicit'[p] = explicit[p] \union {d}
        /\ \A e \in Directories : e # d => (e \in on'[p] <=> e \in on[p])
    BY <1>2, <2>1 DEF PathLists
  <2>3. /\ writes' \in [Processes -> Seq(PathLists)]
        /\ \A q \in Processes : q # p => writes'[q] = writes[q]
        /\ writes'[p] = Append(writes[p], on'[p])
    <3>1. writes[p] \in Seq(PathLists) /\ on'[p] \in PathLists
      BY <1>2, <2>2
    <3>2. Append(writes[p], on'[p]) \in Seq(PathLists)
      BY <3>1
    <3> QED
      BY <1>2, <2>1, <3>2
  <2>4. /\ pass' \in [Processes -> Passes]
        /\ \A q \in Processes : q # p => pass'[q] = pass[q]
        /\ pass'[p].at = pass[p].at /\ pass'[p].mtime = pass[p].mtime /\ pass'[p].list = pass[p].list
        /\ pass'[p].at # None => ~pass'[p].clean
    <3> DEFINE new == [pass[p] EXCEPT !.clean = @ /\ ~File!Passing(p)]
    <3>1. /\ new \in Passes /\ new.at = pass[p].at /\ new.mtime = pass[p].mtime
          /\ new.list = pass[p].list /\ (new.at # None => ~new.clean)
      <4>1. pass[p] \in Passes
        BY <1>2
      <4> QED
        BY <4>1 DEF Passes, File!Passing
    <3>2. pass' = [pass EXCEPT ![p] = new]
      BY <2>1
    <3> HIDE DEF new
    <3> QED
      BY <1>2, <3>1, <3>2
  <2>5. writes[p] \in Seq(PathLists) /\ on'[p] \in PathLists
    BY <1>2, <2>2
  <2>6. /\ writes'[p] # <<>> /\ writes'[p][Len(writes'[p])] = on'[p]
        /\ \A i \in DOMAIN writes'[p] :
             writes'[p][i] = on'[p] \/ (i \in DOMAIN writes[p] /\ writes'[p][i] = writes[p][i])
        /\ writes[p] # <<>> => Head(writes'[p]) = Head(writes[p])
    <3> DEFINE q == writes[p]
               x == on'[p]
               r == Append(q, x)
    <3>1. q \in Seq(PathLists) /\ x \in PathLists
      BY <2>5
    <3> HIDE DEF q, x
    <3>2. /\ r # <<>> /\ Len(r) = Len(q) + 1 /\ r[Len(q) + 1] = x
          /\ \A i \in DOMAIN q : r[i] = q[i]
          /\ \A i \in DOMAIN r : i \in DOMAIN q \/ i = Len(q) + 1
          /\ q # <<>> => Head(r) = Head(q)
      BY <3>1, AppendFacts
    <3> HIDE DEF r
    <3>3. /\ r # <<>> /\ r[Len(r)] = x /\ (q # <<>> => Head(r) = Head(q))
          /\ \A i \in DOMAIN r : r[i] = x \/ (i \in DOMAIN q /\ r[i] = q[i])
      BY <3>2
    <3>4. writes'[p] = r /\ writes[p] = q /\ on'[p] = x
      BY <2>3, Zenon DEF q, x, r
    <3> QED
      BY <3>3, <3>4
  <2>7. File!TypeOK'
    <3>1. toggles' \in 0..MaxToggles
      BY <1>2, <2>1
    <3> QED
      BY <1>2, <2>1, <2>2, <2>3, <2>4, <3>1 DEF File!TypeOK, Passes, PathLists
  <2>8. File!TogglesWritten'
    BY <1>1, <2>1, <2>2, <2>3, <2>6 DEF File!TogglesWritten
  <2>9. File!SeenIsOlder'
    BY <1>1, <2>1, <2>3, <2>4, PassWords DEF File!SeenIsOlder
  <2>10. File!LastListAgrees'
    <3>1. ASSUME NEW q \in Processes
          PROVE  /\ writes'[q] # <<>> =>
                      \A e \in explicit'[q] : e \in on'[q] <=> e \in writes'[q][Len(writes'[q])]
                 /\ q \notin mixed => \A i \in DOMAIN writes'[q] :
                      \A e \in Directories \ explicit'[q] : e \in on'[q] <=> e \in writes'[q][i]
                 /\ q \in renamed => /\ writes'[q] # <<>>
                                     /\ file.by = q => file.list = Head(writes'[q])
                                     /\ file.by # q => q \in mixed
      <4>1. CASE q # p
        BY <1>1, <2>2, <2>3, <4>1 DEF File!LastListAgrees
      <4>2. CASE q = p
        <5>1. \A e \in explicit'[p] : e \in on'[p] <=> e \in writes'[p][Len(writes'[p])]
          BY <2>6
        <5>2. ASSUME p \notin mixed, NEW i \in DOMAIN writes'[p], NEW e \in Directories \ explicit'[p]
              PROVE  e \in on'[p] <=> e \in writes'[p][i]
          <6>1. e # d /\ e \in Directories \ explicit[p]
            BY <2>2, <5>2
          <6>2. CASE writes'[p][i] = on'[p]
            BY <6>2
          <6>3. CASE i \in DOMAIN writes[p] /\ writes'[p][i] = writes[p][i]
            BY <1>1, <2>2, <5>2, <6>1, <6>3 DEF File!LastListAgrees
          <6> QED
            BY <2>6, <5>2, <6>2, <6>3
        <5>3. p \in renamed => /\ writes'[p] # <<>>
                               /\ file.by = p => file.list = Head(writes'[p])
                               /\ file.by # p => p \in mixed
          BY <1>1, <2>6 DEF File!LastListAgrees
        <5> QED
          BY <4>2, <5>1, <5>2, <5>3
      <4> QED
        BY <4>1, <4>2
    <3> QED
      BY <2>1, <3>1 DEF File!LastListAgrees
  <2>11. File!SeenAgrees'
    <3> SUFFICES ASSUME NEW q \in Processes, q \notin mixed, pass'[q].at \in {None, "looked"},
                        observed[q] = file.mtime, file.mtime # 0, NEW e \in Directories \ explicit'[q]
                 PROVE  e \in on'[q] <=> e \in file.list
      BY <2>1 DEF File!SeenAgrees
    <3>1. pass[q].at \in {None, "looked"}
      BY <2>4
    <3>2. e \in Directories \ explicit[q] /\ (e \in on'[q] <=> e \in on[q])
      BY <2>2
    <3> QED
      BY <1>1, <3>1, <3>2 DEF File!SeenAgrees
  <2> QED
    BY <2>7, <2>8, <2>9, <2>10, <2>11 DEF FileKept
<1>10. ASSUME NEW p \in Processes,
              UNCHANGED <<on, explicit, file, writes, renamed, failed, toggles>>,
              loaded' \subseteq Processes, fileFaults' \in 0..FileFaults,
              mixed \subseteq mixed', mixed' \subseteq Processes,
              NEW now \in Passes, pass' = [pass EXCEPT ![p] = now],
              observed' \in [Processes -> Nat],
              \A q \in Processes : q # p => observed'[q] = observed[q],
              observed'[p] <= file.mtime, now.mtime <= file.mtime,
              now.at = "read" /\ now.mtime = file.mtime => now.list = file.list,
              now.at # None /\ now.clean => writes[p] = <<>>,
              now.at \in {"reading", "read"} /\ now.clean => observed'[p] = now.mtime,
              p \notin mixed' /\ now.at \in {None, "looked"} /\ observed'[p] = file.mtime
                /\ file.mtime # 0 =>
                  \A d \in Directories \ explicit[p] : d \in on[p] <=> d \in file.list
       PROVE  FileKept'
  <2>1. /\ pass' \in [Processes -> Passes] /\ pass'[p] = now
        /\ \A q \in Processes : q # p => pass'[q] = pass[q]
    BY <1>2, <1>10
  <2>2. File!TypeOK'
    BY <1>2, <1>10, <2>1 DEF File!TypeOK, Passes, PathLists
  <2>3. File!TogglesWritten' /\ File!LastListAgrees'
    BY <1>1, <1>10 DEF File!TogglesWritten, File!LastListAgrees
  <2>4. File!SeenIsOlder'
    BY <1>1, <1>10, <2>1 DEF File!SeenIsOlder
  <2>5. File!SeenAgrees'
    BY <1>1, <1>10, <2>1 DEF File!SeenAgrees
  <2> QED
    BY <2>2, <2>3, <2>4, <2>5 DEF FileKept
<1>11. ASSUME NEW p \in Processes, File!Looks(p)
       PROVE  FileKept'
  <2> DEFINE now == [at |-> "looked", mtime |-> file.mtime, list |-> {}, clean |-> writes[p] = <<>>]
  <2>1. /\ pass[p].at = None /\ pass' = [pass EXCEPT ![p] = now]
        /\ UNCHANGED <<on, explicit, file, observed, loaded, writes, renamed, mixed, failed, toggles, fileFaults>>
    BY <1>11 DEF File!Looks, File!Passing, File!memory, File!ghosts
  <2>2. /\ now \in Passes /\ now.at = "looked" /\ now.mtime = file.mtime
        /\ now.clean => writes[p] = <<>>
    BY <1>2 DEF Passes, PathLists
  <2> HIDE DEF now
  <2>3. observed[p] <= file.mtime /\ file.mtime <= file.mtime
    BY <1>1, <1>2 DEF File!SeenIsOlder
  <2>4. p \notin mixed /\ observed[p] = file.mtime /\ file.mtime # 0 =>
          \A d \in Directories \ explicit[p] : d \in on[p] <=> d \in file.list
    BY <1>1, <2>1 DEF File!SeenAgrees
  <2> QED
    BY <1>2, <1>10, <2>1, <2>2, <2>3, <2>4
<1>12. ASSUME NEW p \in Processes, File!Compares(p)
       PROVE  FileKept'
  <2>1. /\ pass[p].at = "looked" /\ observed' = [observed EXCEPT ![p] = pass[p].mtime]
        /\ UNCHANGED <<on, explicit, file, writes, renamed, mixed, failed, toggles, fileFaults>>
    BY <1>12 DEF File!Compares, File!memory, File!ghosts
  <2>2. pass[p] \in Passes /\ pass[p].mtime \in Nat /\ pass[p].mtime <= file.mtime
    BY <1>1, <1>2 DEF Passes, File!SeenIsOlder
  <2>3. /\ observed' \in [Processes -> Nat] /\ observed'[p] = pass[p].mtime
        /\ \A q \in Processes : q # p => observed'[q] = observed[q]
    BY <1>2, <2>1, <2>2
  <2>4. CASE pass[p].mtime \in {0, observed[p]}
    <3>1. pass' = [pass EXCEPT ![p] = File!NoPass] /\ loaded' = loaded \union {p}
      BY <1>12, <2>4 DEF File!Compares, File!Over
    <3>2. p \notin mixed /\ pass[p].mtime = file.mtime /\ file.mtime # 0 =>
            \A d \in Directories \ explicit[p] : d \in on[p] <=> d \in file.list
      BY <1>1, <2>1, <2>4 DEF File!SeenAgrees
    <3>3. 0 <= file.mtime
      BY <1>2
    <3>4. loaded' \subseteq Processes
      BY <1>2, <3>1
    <3> QED
      BY <1>2, <1>3, <1>10, <2>1, <2>2, <2>3, <3>1, <3>2, <3>3, <3>4, PassWords
  <2>5. CASE pass[p].mtime \notin {0, observed[p]}
    <3> DEFINE now == [pass[p] EXCEPT !.at = "reading"]
    <3>1. pass' = [pass EXCEPT ![p] = now] /\ loaded' = loaded
      BY <1>12, <2>5 DEF File!Compares
    <3>2. /\ now \in Passes /\ now.at = "reading" /\ now.mtime = pass[p].mtime
          /\ now.clean = pass[p].clean
      BY <2>2 DEF Passes
    <3> HIDE DEF now
    <3>3. now.clean => writes[p] = <<>>
      BY <1>1, <2>1, <3>2, PassWords DEF File!SeenIsOlder
    <3> QED
      BY <1>2, <1>10, <2>1, <2>2, <2>3, <3>1, <3>2, <3>3, PassWords
  <2> QED
    BY <2>4, <2>5
<1>13. ASSUME NEW p \in Processes, File!Reads(p)
       PROVE  FileKept'
  <2> DEFINE now == [pass[p] EXCEPT !.at = "read", !.list = file.list]
  <2>1. /\ pass[p].at = "reading" /\ pass' = [pass EXCEPT ![p] = now]
        /\ UNCHANGED <<on, explicit, file, observed, loaded, writes, renamed, mixed, failed, toggles, fileFaults>>
    BY <1>13 DEF File!Reads, File!memory, File!ghosts
  <2>2. pass[p] \in Passes /\ file.list \in PathLists
    BY <1>2
  <2>3. /\ now \in Passes /\ now.at = "read" /\ now.mtime = pass[p].mtime
        /\ now.list = file.list /\ now.clean = pass[p].clean
    BY <2>2 DEF Passes
  <2> HIDE DEF now
  <2>4. /\ observed[p] <= file.mtime /\ pass[p].mtime <= file.mtime
        /\ now.clean => writes[p] = <<>> /\ observed[p] = pass[p].mtime
    BY <1>1, <2>1, <2>3, PassWords DEF File!SeenIsOlder
  <2> QED
    BY <1>2, <1>10, <2>1, <2>3, <2>4, PassWords
<1>14. ASSUME NEW p \in Processes, File!PassFails(p)
       PROVE  FileKept'
  <2>1. /\ pass[p].at = None \/ pass[p].at = "reading"
        /\ pass' = [pass EXCEPT ![p] = File!NoPass] /\ loaded' = loaded \union {p}
        /\ mixed' = IF pass[p].at = "reading" THEN mixed \union {p} ELSE mixed
        /\ UNCHANGED <<on, explicit, file, observed, writes, renamed, failed, toggles>>
    BY <1>14 DEF File!PassFails, File!Passing, File!Over, File!memory
  <2>2. fileFaults' \in 0..FileFaults
    BY <1>2, <1>14 DEF File!PassFails, File!Fault
  <2>3. mixed \subseteq mixed' /\ mixed' \subseteq Processes /\ loaded' \subseteq Processes
    BY <1>2, <2>1
  <2>4. p \notin mixed' /\ observed[p] = file.mtime /\ file.mtime # 0 =>
          \A d \in Directories \ explicit[p] : d \in on[p] <=> d \in file.list
    BY <1>1, <2>1 DEF File!SeenAgrees
  <2>5. observed[p] <= file.mtime /\ 0 <= file.mtime
    BY <1>1, <1>2 DEF File!SeenIsOlder
  <2> QED
    BY <1>2, <1>3, <1>10, <2>1, <2>2, <2>3, <2>4, <2>5, PassWords
<1>15. ASSUME NEW p \in Processes, File!Applies(p)
       PROVE  FileKept'
  <2>1. /\ pass[p].at = "read"
        /\ on' = [on EXCEPT ![p] = (@ \intersect explicit[p]) \union (pass[p].list \ explicit[p])]
        /\ pass' = [pass EXCEPT ![p] = File!NoPass] /\ loaded' = loaded \union {p}
        /\ mixed' = IF pass[p].clean THEN mixed \ {p} ELSE mixed \union {p}
        /\ UNCHANGED <<explicit, file, observed, writes, renamed, failed, toggles, fileFaults>>
    BY <1>15 DEF File!Applies, File!Follows, File!Over
  <2>2. pass[p] \in Passes /\ pass[p].list \in PathLists /\ pass[p].at # None
    BY <1>2, <2>1, PassWords DEF Passes
  <2>3. /\ on' \in [Processes -> PathLists]
        /\ \A q \in Processes : q # p => on'[q] = on[q]
        /\ \A d \in explicit[p] : d \in on'[p] <=> d \in on[p]
        /\ \A d \in Directories \ explicit[p] : d \in on'[p] <=> d \in pass[p].list
    BY <1>2, <2>1, <2>2 DEF PathLists
  <2>4. /\ pass' \in [Processes -> Passes] /\ pass'[p] = File!NoPass
        /\ \A q \in Processes : q # p => pass'[q] = pass[q]
    BY <1>2, <1>3, <2>1
  <2>5. /\ mixed' \subseteq Processes /\ \A q \in Processes : q # p => (q \in mixed' <=> q \in mixed)
        /\ p \notin mixed' => pass[p].clean
    BY <1>2, <2>1
  <2>6. pass[p].clean => writes[p] = <<>> /\ observed[p] = pass[p].mtime
    BY <1>1, <2>1, <2>2 DEF File!SeenIsOlder
  <2>7. File!TypeOK'
    BY <1>2, <2>1, <2>3, <2>4, <2>5 DEF File!TypeOK, Passes, PathLists
  <2>8. File!TogglesWritten'
    BY <1>1, <2>1, <2>3 DEF File!TogglesWritten
  <2>9. File!SeenIsOlder'
    <3>1. 0 <= file.mtime
      BY <1>2
    <3> QED
      BY <1>1, <1>3, <2>1, <2>4, <3>1, PassWords DEF File!SeenIsOlder
  <2>10. File!LastListAgrees'
    <3>1. ASSUME NEW q \in Processes
          PROVE  /\ writes[q] # <<>> =>
                      \A e \in explicit[q] : e \in on'[q] <=> e \in writes[q][Len(writes[q])]
                 /\ q \notin mixed' => \A i \in DOMAIN writes[q] :
                      \A e \in Directories \ explicit[q] : e \in on'[q] <=> e \in writes[q][i]
                 /\ q \in renamed => /\ writes[q] # <<>>
                                     /\ file.by = q => file.list = Head(writes[q])
                                     /\ file.by # q => q \in mixed'
      <4>1. CASE q # p
        BY <1>1, <2>3, <2>5, <4>1 DEF File!LastListAgrees
      <4>2. CASE q = p /\ pass[p].clean
        <5>1. writes[p] = <<>> /\ p \notin renamed /\ DOMAIN writes[p] = {}
          BY <1>1, <2>6, <4>2 DEF File!LastListAgrees
        <5> QED
          BY <4>2, <5>1
      <4>3. CASE q = p /\ ~pass[p].clean
        BY <1>1, <2>1, <2>3, <2>5, <4>3 DEF File!LastListAgrees
      <4> QED
        BY <4>1, <4>2, <4>3
    <3> QED
      BY <2>1, <3>1 DEF File!LastListAgrees
  <2>11. File!SeenAgrees'
    <3> SUFFICES ASSUME NEW q \in Processes, q \notin mixed', pass'[q].at \in {None, "looked"},
                        observed[q] = file.mtime, file.mtime # 0
                 PROVE  \A e \in Directories \ explicit[q] : e \in on'[q] <=> e \in file.list
      BY <2>1 DEF File!SeenAgrees
    <3>1. CASE q # p
      BY <1>1, <2>3, <2>4, <2>5, <3>1 DEF File!SeenAgrees
    <3>2. CASE q = p
      <4>1. pass[p].mtime = file.mtime
        BY <2>5, <2>6, <3>2
      <4>2. pass[p].list = file.list
        BY <1>1, <2>1, <4>1 DEF File!SeenIsOlder
      <4> QED
        BY <2>3, <3>2, <4>2
    <3> QED
      BY <3>1, <3>2
  <2> QED
    BY <2>7, <2>8, <2>9, <2>10, <2>11 DEF FileKept
<1>16. ASSUME NEW p \in Processes, File!Restart(p)
       PROVE  FileKept'
  <2>1. /\ on' = [on EXCEPT ![p] = {}] /\ explicit' = [explicit EXCEPT ![p] = {}]
        /\ observed' = [observed EXCEPT ![p] = 0] /\ writes' = [writes EXCEPT ![p] = <<>>]
        /\ pass' = [pass EXCEPT ![p] = File!NoPass] /\ loaded' = loaded \ {p}
        /\ renamed' = renamed \ {p} /\ mixed' = mixed \ {p} /\ failed' = failed \ {p}
        /\ UNCHANGED <<file, toggles>>
    BY <1>16 DEF File!Restart
  <2>2. fileFaults' \in 0..FileFaults
    BY <1>2, <1>16 DEF File!Restart, File!Fault
  <2>3. /\ on' \in [Processes -> PathLists] /\ explicit' \in [Processes -> PathLists]
        /\ observed' \in [Processes -> Nat] /\ writes' \in [Processes -> Seq(PathLists)]
        /\ pass' \in [Processes -> Passes]
    BY <1>2, <1>3, <2>1 DEF PathLists
  <2>4. /\ explicit'[p] = {} /\ observed'[p] = 0 /\ writes'[p] = <<>> /\ pass'[p] = File!NoPass
        /\ DOMAIN writes'[p] = {}
    BY <1>2, <2>1
  <2>5. \A q \in Processes : q # p =>
          /\ on'[q] = on[q] /\ explicit'[q] = explicit[q] /\ observed'[q] = observed[q]
          /\ writes'[q] = writes[q] /\ pass'[q] = pass[q]
    BY <1>2, <2>1
  <2>6. File!TypeOK'
    BY <1>2, <2>1, <2>2, <2>3 DEF File!TypeOK, Passes, PathLists
  <2>7. File!TogglesWritten'
    BY <1>1, <2>1, <2>4, <2>5 DEF File!TogglesWritten
  <2>8. File!SeenIsOlder'
    <3>1. 0 <= file.mtime
      BY <1>2
    <3> QED
      BY <1>1, <1>3, <2>1, <2>4, <2>5, <3>1, PassWords DEF File!SeenIsOlder
  <2>9. File!LastListAgrees'
    BY <1>1, <2>1, <2>4, <2>5 DEF File!LastListAgrees
  <2>10. File!SeenAgrees'
    BY <1>1, <2>1, <2>4, <2>5 DEF File!SeenAgrees
  <2> QED
    BY <2>6, <2>7, <2>8, <2>9, <2>10 DEF FileKept
<1> QED
  BY <1>4, <1>5, <1>7, <1>8, <1>9, <1>11, <1>12, <1>13, <1>14, <1>15, <1>16 DEF File!Next

(* A process with nothing left to read or write has what the file says, and the   *)
(* file that it wrote last says what was toggled in it.                           *)
THEOREM FileIsFollowed == Spec => []AutoFileInv
<1>1. Init => AutoFileInv
  BY FileInit DEF Init, AutoFileInv, FileOK
<1>2. AutoFileInv /\ [Next]_vars => AutoFileInv'
  <2> SUFFICES ASSUME AutoFileInv, [Next]_vars, moves' = "file"
               PROVE  FileOK'
    BY DEF AutoFileInv, FileOK
  <2> QED
    BY OnePartMoves, FileStep DEF AutoFileInv, FileOK
<1> QED
  BY <1>1, <1>2, PTL DEF Spec

-------------------------------------------------------------------------------
(* The worktrees                                                                  *)

Written == SUBSET Worktrees!Edits
Commands == {None, "clean", "clean again", "status", "add", "commit", "ahead", "merge", "push",
             "remove", "branch"}
WorkRecords == [kind : {None, "merge", "discard", "pr"}, s : WorkSessions \union {None},
                pc : Commands, had : Written]
WorkTypes ==
  /\ agent \in [WorkSessions -> {"idle", "turn", "lingering"}]
  /\ present \subseteq WorkSessions /\ branches \subseteq WorkSessions
  /\ discarded \subseteq WorkSessions /\ project \in {"clean", "dirty", "conflict"}
  /\ main \subseteq WorkSessions \X Worktrees!Edits /\ op \in [Requests -> WorkRecords]
  /\ tip \in [WorkSessions -> Written] /\ tree \in [WorkSessions -> Written]
  /\ index \in [WorkSessions -> Written] /\ makes \in [WorkSessions -> Written]
  /\ during \in [WorkSessions -> Written] /\ pushed \in [WorkSessions -> Written]
  /\ answered \in [whole : BOOLEAN, pushed : BOOLEAN] /\ human \in 0..MaxHuman

(* What the invariant says of one session, and of one request.                    *)
WorkspaceKept(s) ==
  /\ index[s] \subseteq tree[s] /\ tree[s] \intersect tip[s] = {}
  /\ tree[s] \union during[s] \subseteq makes[s] /\ tip[s] \subseteq makes[s]
  /\ makes[s] = 1..Cardinality(makes[s])
  /\ s \in present => s \in branches /\ makes[s] \subseteq tip[s] \union tree[s]
  /\ s \notin present => tree[s] = {}
  /\ s \notin discarded => \A e \in makes[s] \ during[s] :
       <<s, e>> \in main \/ e \in tip[s] \/ e \in tree[s]
OnItsWay(r, s) ==
  /\ s \in WorkSessions /\ op[r].had \subseteq makes[s]
  /\ op[r].pc = "commit" /\ s \in present => op[r].had \subseteq tip[s] \union index[s]
  /\ op[r].pc \in {"ahead", "merge", "push"} /\ s \in branches => op[r].had \subseteq tip[s]
  /\ op[r].kind = "merge" => makes[s] \ during[s] \subseteq op[r].had
  /\ op[r].kind = "merge" /\ op[r].pc \in {"remove", "branch"} => {s} \X op[r].had \subseteq main
  /\ op[r].kind = "discard" => s \in discarded
  /\ op[r].pc = "branch" => s \notin present
RequestKept(r) ==
  /\ op[r].kind = None => op[r] = Worktrees!Idle
  /\ op[r].kind # None => OnItsWay(r, op[r].s)
  /\ op[r].pc = "merge" => op[r].kind = "merge"
  /\ op[r].pc \in {"remove", "branch"} => op[r].kind \in {"merge", "discard"}
  /\ op[r].kind = "discard" => op[r].pc \in {"remove", "branch"}

WorkOK == Worktrees!TypeOK /\ Worktrees!WorktreeInv
WorkKept ==
  /\ WorkTypes /\ answered.whole /\ answered.pushed
  /\ \A s \in WorkSessions : WorkspaceKept(s)
  /\ \A r \in Requests : RequestKept(r)

(* They are the type invariant and the invariant.                                 *)
LEMMA WorkParts == WorkOK <=> WorkKept
<1>1. Worktrees!TypeOK <=>
        /\ WorkTypes
        /\ \A s \in WorkSessions :
             /\ index[s] \subseteq tree[s] /\ tree[s] \intersect tip[s] = {}
             /\ tree[s] \union during[s] \subseteq makes[s] /\ (s \notin present => tree[s] = {})
  BY DEF Worktrees!TypeOK, WorkTypes, WorkRecords, Commands, Written
<1>2. WorkTypes => (Worktrees!WorktreeIsWhole <=>
        \A s \in WorkSessions :
          /\ tip[s] \subseteq makes[s] /\ makes[s] = 1..Cardinality(makes[s])
          /\ s \in present => s \in branches /\ makes[s] \subseteq tip[s] \union tree[s])
  BY PartsCount DEF Worktrees!WorktreeIsWhole, WorkTypes
<1>3. Worktrees!RequestsCarryOn /\ Worktrees!KindsKeepTheirWay <=>
        \A r \in Requests : RequestKept(r)
  BY DEF Worktrees!RequestsCarryOn, Worktrees!KindsKeepTheirWay, RequestKept, OnItsWay
<1>4. Worktrees!NothingLost <=>
        \A s \in WorkSessions : s \notin discarded => \A e \in makes[s] \ during[s] :
          <<s, e>> \in main \/ e \in tip[s] \/ e \in tree[s]
  BY DEF Worktrees!NothingLost
<1> QED
  BY <1>1, <1>2, <1>3, <1>4 DEF WorkOK, WorkKept, Worktrees!WorktreeInv,
     Worktrees!AnswersAreWhole, WorkspaceKept

(* Nothing is written and nothing is asked for.                                   *)
LEMMA WorkInit == Worktrees!Init => WorkOK
<1> SUFFICES ASSUME Worktrees!Init PROVE WorkKept
  BY WorkParts
<1> USE DEF Worktrees!Init
<1>1. 0 \in 0..MaxHuman
  BY PartsAssumption
<1>2. Worktrees!Idle \in WorkRecords
  BY DEF Worktrees!Idle, WorkRecords, Commands, Written
<1>3. WorkTypes
  BY <1>1, <1>2 DEF WorkTypes, Written
<1>4. ASSUME NEW s \in WorkSessions
      PROVE  WorkspaceKept(s)
  <2>1. makes[s] = {} /\ tip[s] = {} /\ tree[s] = {} /\ index[s] = {} /\ during[s] = {}
    OBVIOUS
  <2>2. makes[s] = 1..Cardinality(makes[s])
    BY <2>1, FS_EmptySet
  <2> QED
    BY <2>1, <2>2 DEF WorkspaceKept
<1>5. ASSUME NEW r \in Requests
      PROVE  RequestKept(r)
  BY RequestWords DEF RequestKept, Worktrees!Idle
<1> QED
  BY <1>3, <1>4, <1>5 DEF WorkKept

(* A request goes on to its next command, or is over.                             *)
LEMMA RequestGoes ==
  ASSUME op \in [Requests -> WorkRecords], NEW r \in Requests
  PROVE  /\ \A c \in Commands : Worktrees!Goes(r, c) =>
              /\ op' \in [Requests -> WorkRecords] /\ \A q \in Requests : q # r => op'[q] = op[q]
              /\ op'[r].kind = op[r].kind /\ op'[r].s = op[r].s /\ op'[r].had = op[r].had
              /\ op'[r].pc = c
         /\ Worktrees!Ends(r) =>
              /\ op' \in [Requests -> WorkRecords] /\ \A q \in Requests : q # r => op'[q] = op[q]
              /\ op'[r] = Worktrees!Idle
<1>1. ASSUME NEW c \in Commands, Worktrees!Goes(r, c)
      PROVE  /\ op' \in [Requests -> WorkRecords] /\ \A q \in Requests : q # r => op'[q] = op[q]
             /\ op'[r].kind = op[r].kind /\ op'[r].s = op[r].s /\ op'[r].had = op[r].had
             /\ op'[r].pc = c
  <2> DEFINE next == [op[r] EXCEPT !.pc = c]
  <2>1. /\ next \in WorkRecords /\ next.kind = op[r].kind /\ next.s = op[r].s
        /\ next.had = op[r].had /\ next.pc = c
    <3>1. op[r] \in WorkRecords
      OBVIOUS
    <3> QED
      BY <3>1 DEF WorkRecords
  <2>2. op' = [op EXCEPT ![r] = next]
    BY <1>1 DEF Worktrees!Goes
  <2> HIDE DEF next
  <2> QED
    BY <2>1, <2>2
<1>2. Worktrees!Idle \in WorkRecords
  BY DEF Worktrees!Idle, WorkRecords, Commands, Written
<1> QED
  BY <1>1, <1>2 DEF Worktrees!Ends

(* Every command of a request, every write of a session and every cancel keeps the *)
(* invariant.                                                                     *)
LEMMA WorkStep ==
  ASSUME WorkOK, Worktrees!Next \/ UNCHANGED worktreesVars
  PROVE  WorkOK'
<1> SUFFICES WorkKept'
  BY WorkParts, PTL
<1>1. /\ WorkTypes /\ answered.whole /\ answered.pushed
      /\ \A s \in WorkSessions : WorkspaceKept(s)
      /\ \A r \in Requests : RequestKept(r)
  BY WorkParts DEF WorkKept
<1>2. MaxEdits \in Nat /\ MaxHuman \in Nat /\ None \notin WorkSessions
  BY PartsAssumption
<1>a. ASSUME NEW r, op'[r] = Worktrees!Idle
      PROVE  RequestKept(r)'
  <2>1. op'[r].kind = None /\ op'[r].pc = None
    BY <1>a DEF Worktrees!Idle
  <2>2. None \notin {"merge", "remove", "branch", "discard"}
    BY RequestWords
  <2> QED
    BY <1>a, <2>1, <2>2 DEF RequestKept
<1>3. ASSUME UNCHANGED <<present, branches, tip, tree, index, main, makes, during, answered>>,
             discarded \subseteq discarded', WorkTypes',
             \A r \in Requests : op'[r] = op[r] \/ RequestKept(r)'
      PROVE  WorkKept'
  <2>1. ASSUME NEW s \in WorkSessions PROVE WorkspaceKept(s)'
    BY <1>1, <1>3 DEF WorkspaceKept
  <2>2. ASSUME NEW r \in Requests, op'[r] = op[r] PROVE RequestKept(r)'
    BY <1>1, <1>3, <2>2 DEF RequestKept, OnItsWay
  <2> QED
    BY <1>1, <1>3, <2>1, <2>2 DEF WorkKept
<1>4. CASE UNCHANGED worktreesVars
  <2>1. WorkTypes'
    BY <1>1, <1>4 DEF worktreesVars, WorkTypes
  <2> QED
    BY <1>3, <1>4, <2>1 DEF worktreesVars
<1>5. CASE Worktrees!HumanWorks
  <2>1. WorkTypes'
    BY <1>1, <1>2, <1>5 DEF Worktrees!HumanWorks, WorkTypes
  <2> QED
    BY <1>3, <1>5, <2>1 DEF Worktrees!HumanWorks
<1>6. CASE Worktrees!Stops
  <2>1. /\ op' = [r \in Requests |-> Worktrees!Idle] /\ Worktrees!Idle \in WorkRecords
        /\ UNCHANGED <<agent, Worktrees!git, Worktrees!ghost>>
    BY <1>6 DEF Worktrees!Stops, Worktrees!Idle, WorkRecords, Commands, Written
  <2>2. WorkTypes'
    BY <1>1, <2>1 DEF WorkTypes, Worktrees!git, Worktrees!ghost
  <2>3. ASSUME NEW r \in Requests PROVE RequestKept(r)'
    <3>1. op'[r] = Worktrees!Idle
      BY <2>1
    <3> QED
      BY <1>a, <3>1
  <2> QED
    BY <1>3, <2>1, <2>2, <2>3 DEF Worktrees!git, Worktrees!ghost
<1>7. ASSUME NEW s \in WorkSessions,
             Worktrees!TurnBegins(s) \/ Worktrees!TurnEnds(s) \/ Worktrees!ChildDies(s)
      PROVE  WorkKept'
  <2>1. /\ agent' \in [WorkSessions -> {"idle", "turn", "lingering"}]
        /\ UNCHANGED <<Worktrees!git, op, Worktrees!ghost>>
    BY <1>1, <1>7 DEF Worktrees!TurnBegins, Worktrees!TurnEnds, Worktrees!ChildDies, WorkTypes
  <2>2. WorkTypes'
    BY <1>1, <2>1 DEF WorkTypes, Worktrees!git, Worktrees!ghost
  <2> QED
    BY <1>3, <2>1, <2>2 DEF Worktrees!git, Worktrees!ghost
<1>b. ASSUME NEW r \in Requests, op'[r] = op[r], op[r].kind # None, main \subseteq main',
             discarded \subseteq discarded', NEW s \in WorkSessions, op[r].s = s,
             makes[s] \subseteq makes'[s],
             s \in present' => s \in present,
             s \in present' => tip[s] \union index[s] \subseteq tip'[s] \union index'[s],
             s \in branches' => s \in branches /\ tip[s] \subseteq tip'[s],
             op[r].kind = "merge" => makes'[s] \ during'[s] \subseteq makes[s] \ during[s]
      PROVE  RequestKept(r)'
  <2>1. RequestKept(r) /\ OnItsWay(r, s)
    BY <1>1, <1>b DEF RequestKept
  <2>2. OnItsWay(r, s)'
    BY <1>b, <2>1 DEF OnItsWay
  <2> QED
    BY <1>b, <2>1, <2>2 DEF RequestKept
<1>c. ASSUME NEW r \in Requests, op'[r] = op[r], op[r].kind = None
      PROVE  RequestKept(r)'
  BY <1>1, <1>c, RequestWords DEF RequestKept
<1>8. ASSUME NEW s \in WorkSessions, Worktrees!Writes(s)
      PROVE  WorkKept'
  <2> DEFINE e == Cardinality(makes[s]) + 1
  <2>1. /\ s \in present /\ Cardinality(makes[s]) < MaxEdits
        /\ makes' = [makes EXCEPT ![s] = @ \union {e}] /\ tree' = [tree EXCEPT ![s] = @ \union {e}]
        /\ during' = IF Worktrees!Merging(s) THEN [during EXCEPT ![s] = @ \union {e}] ELSE during
        /\ UNCHANGED <<agent, present, branches, tip, index, main, project, pushed, op, answered,
                       discarded, human>>
    BY <1>8, PartsCount DEF Worktrees!Writes
  <2>2. WorkspaceKept(s) /\ makes[s] = 1..Cardinality(makes[s])
    BY <1>1 DEF WorkspaceKept
  <2>3. makes[s] \subseteq Worktrees!Edits /\ IsFiniteSet(Worktrees!Edits)
    BY <1>1, <1>2, FS_Interval DEF WorkTypes, Written, Worktrees!Edits
  <2>4. IsFiniteSet(makes[s]) /\ Cardinality(makes[s]) \in Nat
    BY <2>3, FS_Subset, FS_CardinalityType
  <2>5. e \in Worktrees!Edits /\ e \notin makes[s]
    BY <1>2, <2>1, <2>2, <2>4 DEF Worktrees!Edits
  <2>6. /\ makes'[s] = makes[s] \union {e} /\ tree'[s] = tree[s] \union {e}
        /\ \A t \in WorkSessions : t # s =>
             makes'[t] = makes[t] /\ tree'[t] = tree[t] /\ during'[t] = during[t]
        /\ during'[s] = IF Worktrees!Merging(s) THEN during[s] \union {e} ELSE during[s]
    BY <1>1, <2>1 DEF WorkTypes
  <2>7. Cardinality(makes'[s]) = e
    BY <2>4, <2>5, <2>6, FS_AddElement
  <2>8. makes'[s] = 1..Cardinality(makes'[s])
    BY <2>2, <2>4, <2>6, <2>7
  <2> HIDE DEF e
  <2>9. WorkTypes'
    BY <1>1, <2>1, <2>5 DEF WorkTypes, Written
  <2>10. e \notin tip[s]
    BY <2>2, <2>5 DEF WorkspaceKept
  <2>11. WorkspaceKept(s)'
    BY <2>1, <2>2, <2>5, <2>6, <2>8, <2>10 DEF WorkspaceKept
  <2>12. ASSUME NEW t \in WorkSessions, t # s PROVE WorkspaceKept(t)'
    BY <1>1, <2>1, <2>6, <2>12 DEF WorkspaceKept
  <2>13. ASSUME NEW r \in Requests, op[r].kind # None PROVE RequestKept(r)'
    <3>1. OnItsWay(r, op[r].s) /\ op[r].s \in WorkSessions
      BY <1>1, <2>13 DEF RequestKept, OnItsWay
    <3>2. op[r].kind = "merge" /\ op[r].s = s => during'[s] = during[s] \union {e}
      BY <2>6 DEF Worktrees!Merging
    <3> QED
      BY <1>b, <2>1, <2>6, <2>13, <3>1, <3>2
  <2> QED
    BY <1>1, <1>c, <2>1, <2>9, <2>11, <2>12, <2>13 DEF WorkKept
<1>9. ASSUME NEW r \in Requests, NEW kind \in {"merge", "discard", "pr"}, NEW s \in WorkSessions,
             Worktrees!Arrives(r, kind, s)
      PROVE  WorkKept'
  <2> DEFINE new == [kind |-> kind, s |-> s, had |-> makes[s],
       pc |-> CASE kind = "merge" -> "clean" [] kind = "pr" -> "status" [] OTHER -> "remove"]
  <2>1. /\ op' = [op EXCEPT ![r] = new]
        /\ UNCHANGED <<Worktrees!git, answered, makes, during, human>>
        /\ kind # "discard" => UNCHANGED <<agent, discarded>>
        /\ kind = "discard" =>
             /\ agent' = [agent EXCEPT ![s] = IF @ = "turn" THEN "lingering" ELSE @]
             /\ discarded' = discarded \union {s}
    BY <1>9 DEF Worktrees!Arrives
  <2>2. /\ new.kind = kind /\ new.s = s /\ new.had = makes[s]
        /\ new.pc = IF kind = "merge" THEN "clean" ELSE IF kind = "pr" THEN "status" ELSE "remove"
        /\ new \in WorkRecords
    BY <1>1 DEF WorkRecords, Commands, WorkTypes
  <2> HIDE DEF new
  <2>3. op'[r] = new /\ \A q \in Requests : q # r => op'[q] = op[q]
    BY <1>1, <2>1 DEF WorkTypes
  <2>4. /\ agent' \in [WorkSessions -> {"idle", "turn", "lingering"}]
        /\ discarded' \subseteq WorkSessions /\ discarded \subseteq discarded'
        /\ kind = "discard" => s \in discarded'
    BY <1>1, <2>1 DEF WorkTypes
  <2>5. WorkTypes'
    BY <1>1, <2>1, <2>2, <2>4 DEF WorkTypes, Worktrees!git
  <2>6. op'[r].kind # None
    BY <2>2, <2>3, RequestWords
  <2>7. OnItsWay(r, s)'
    BY <1>9, <2>1, <2>2, <2>3, <2>4 DEF OnItsWay
  <2>8. RequestKept(r)'
    BY <2>2, <2>3, <2>6, <2>7 DEF RequestKept
  <2> QED
    BY <1>3, <2>1, <2>3, <2>4, <2>5, <2>8 DEF Worktrees!git
<1>d. ASSUME NEW r \in Requests, op[r].pc # None
      PROVE  /\ op[r].kind # None /\ op[r].s \in WorkSessions /\ OnItsWay(r, op[r].s)
             /\ WorkspaceKept(op[r].s)
  <2>1. op[r].kind # None
    BY <1>1, <1>d DEF RequestKept, Worktrees!Idle
  <2> QED
    BY <1>1, <2>1 DEF RequestKept, OnItsWay
<1>10. ASSUME NEW r \in Requests, Worktrees!Fails(r) \/ Worktrees!Conflicts(r)
       PROVE  WorkKept'
  <2>1. /\ Worktrees!Ends(r) /\ project' \in {"clean", "dirty", "conflict"}
        /\ UNCHANGED <<agent, present, branches, tip, tree, index, main, pushed, Worktrees!ghost>>
    BY <1>1, <1>10 DEF Worktrees!Fails, Worktrees!Conflicts, Worktrees!git, WorkTypes
  <2>2. /\ op' \in [Requests -> WorkRecords] /\ \A q \in Requests : q # r => op'[q] = op[q]
        /\ op'[r] = Worktrees!Idle
    BY <1>1, <2>1, RequestGoes DEF WorkTypes
  <2>3. WorkTypes'
    BY <1>1, <2>1, <2>2 DEF WorkTypes, Worktrees!ghost
  <2> QED
    BY <1>3, <1>a, <2>1, <2>2, <2>3 DEF Worktrees!ghost
<1>11. ASSUME NEW r \in Requests, Worktrees!Clean(r) \/ Worktrees!Status(r) \/ Worktrees!Ahead(r)
       PROVE  WorkKept'
  <2>1. /\ UNCHANGED <<agent, Worktrees!git, Worktrees!ghost>>
        /\ op[r].pc \in {"clean", "clean again", "status", "ahead"}
    BY <1>11 DEF Worktrees!Clean, Worktrees!Status, Worktrees!Ahead
  <2>2. /\ op[r].kind # None /\ op[r].s \in WorkSessions /\ OnItsWay(r, op[r].s)
        /\ WorkspaceKept(op[r].s) /\ op[r].kind # "discard"
    <3>1. op[r].pc # None
      BY <2>1, RequestWords
    <3>2. op[r].kind # "discard"
      BY <1>1, <2>1 DEF RequestKept
    <3> QED
      BY <1>d, <3>1, <3>2
  <2>3. PICK s \in WorkSessions : s = op[r].s
    BY <2>2
  <2>4. PICK c \in Commands :
          /\ Worktrees!Goes(r, c)
          /\ \/ c \in {"clean again", "status", "add"}
             \/ c = "ahead" /\ s \in present /\ tree[s] = {}
             \/ c = "push" /\ op[r].pc = "ahead"
             \/ c = "merge" /\ op[r].kind = "merge" /\ op[r].pc = "ahead"
    <3>1. CASE Worktrees!Clean(r)
      BY <3>1 DEF Worktrees!Clean, Commands
    <3>2. CASE Worktrees!Status(r)
      BY <2>3, <3>2 DEF Worktrees!Status, Commands
    <3>3. CASE Worktrees!Ahead(r)
      BY <3>3 DEF Worktrees!Ahead, Commands
    <3> QED
      BY <1>11, <3>1, <3>2, <3>3
  <2>5. /\ op' \in [Requests -> WorkRecords] /\ \A q \in Requests : q # r => op'[q] = op[q]
        /\ op'[r].kind = op[r].kind /\ op'[r].s = s /\ op'[r].had = op[r].had
        /\ op'[r].pc = c
    BY <1>1, <2>3, <2>4, RequestGoes DEF WorkTypes
  <2>6. WorkTypes'
    BY <1>1, <2>1, <2>5 DEF WorkTypes, Worktrees!git, Worktrees!ghost
  <2>7. UNCHANGED <<present, branches, tip, tree, index, main, makes, during, discarded, answered>>
    BY <2>1 DEF Worktrees!git, Worktrees!ghost
  <2>8. c = "ahead" => op[r].had \subseteq tip[s]
    BY <2>2, <2>3, <2>4 DEF WorkspaceKept, OnItsWay
  <2>9. c \notin {"commit", "remove", "branch", None} /\ (c = "merge" => op[r].kind = "merge")
    BY <2>4, RequestWords
  <2>10. c \in {"ahead", "merge", "push"} /\ s \in branches => op[r].had \subseteq tip[s]
    BY <2>2, <2>3, <2>4, <2>8 DEF OnItsWay
  <2>11. OnItsWay(r, s)'
    BY <2>2, <2>3, <2>5, <2>7, <2>9, <2>10 DEF OnItsWay
  <2>12. RequestKept(r)'
    BY <2>2, <2>5, <2>9, <2>11 DEF RequestKept
  <2> QED
    BY <1>3, <2>5, <2>6, <2>7, <2>12
<1>12. ASSUME NEW r \in Requests, Worktrees!Add(r)
       PROVE  WorkKept'
  <2>1. op[r].pc = "add" /\ op[r].pc # None
    BY <1>12, RequestWords DEF Worktrees!Add
  <2>2. PICK s \in WorkSessions :
          s = op[r].s /\ op[r].kind # None /\ OnItsWay(r, s) /\ WorkspaceKept(s)
    BY <1>d, <2>1
  <2>3. /\ s \in present /\ index' = [index EXCEPT ![s] = tree[s]] /\ Worktrees!Goes(r, "commit")
        /\ UNCHANGED <<agent, present, branches, tip, tree, main, project, pushed,
                       answered, makes, during, discarded, human>>
    BY <1>12, <2>2 DEF Worktrees!Add, Worktrees!ghost
  <2>4. /\ op' \in [Requests -> WorkRecords] /\ \A q \in Requests : q # r => op'[q] = op[q]
        /\ op'[r].kind = op[r].kind /\ op'[r].s = s /\ op'[r].had = op[r].had
        /\ op'[r].pc = "commit"
    BY <1>1, <2>2, <2>3, RequestGoes DEF WorkTypes, Commands
  <2>5. index'[s] = tree[s] /\ \A t \in WorkSessions : t # s => index'[t] = index[t]
    BY <1>1, <2>3 DEF WorkTypes
  <2>6. WorkTypes'
    BY <1>1, <2>3, <2>4 DEF WorkTypes
  <2>7. ASSUME NEW t \in WorkSessions PROVE WorkspaceKept(t)'
    <3>1. WorkspaceKept(t)
      BY <1>1
    <3> QED
      BY <2>3, <2>5, <3>1 DEF WorkspaceKept
  <2>8. ASSUME NEW q \in Requests, q # r, op[q].kind # None PROVE RequestKept(q)'
    <3>1. op[q].s \in WorkSessions /\ WorkspaceKept(op[q].s)
      BY <1>1, <2>8 DEF RequestKept, OnItsWay
    <3>2. index[op[q].s] \subseteq index'[op[q].s]
      BY <2>5, <3>1 DEF WorkspaceKept
    <3> QED
      BY <1>b, <2>3, <2>4, <2>8, <3>1, <3>2
  <2>9. op[r].had \subseteq tip'[s] \union index'[s]
    BY <2>2, <2>3, <2>5 DEF WorkspaceKept, OnItsWay
  <2>10. OnItsWay(r, s)'
    BY <2>2, <2>3, <2>4, <2>9 DEF OnItsWay
  <2>11. RequestKept(r)'
    <3>1. op[r].kind # "discard"
      BY <1>1, <2>1 DEF RequestKept
    <3> QED
      BY <2>2, <2>4, <2>10, <3>1 DEF RequestKept
  <2> QED
    BY <1>1, <1>c, <2>3, <2>4, <2>6, <2>7, <2>8, <2>11 DEF WorkKept
<1>13. ASSUME NEW r \in Requests, Worktrees!Commit(r)
       PROVE  WorkKept'
  <2>1. op[r].pc = "commit" /\ op[r].pc # None
    BY <1>13, RequestWords DEF Worktrees!Commit
  <2>2. PICK s \in WorkSessions :
          s = op[r].s /\ op[r].kind # None /\ OnItsWay(r, s) /\ WorkspaceKept(s)
    BY <1>d, <2>1
  <2>3. /\ s \in present /\ tip' = [tip EXCEPT ![s] = @ \union index[s]]
        /\ tree' = [tree EXCEPT ![s] = @ \ index[s]]
        /\ index' = [index EXCEPT ![s] = {}] /\ Worktrees!Goes(r, "ahead")
        /\ UNCHANGED <<agent, present, branches, main, project, pushed,
                       answered, makes, during, discarded, human>>
    BY <1>13, <2>2 DEF Worktrees!Commit, Worktrees!ghost
  <2>4. /\ op' \in [Requests -> WorkRecords] /\ \A q \in Requests : q # r => op'[q] = op[q]
        /\ op'[r].kind = op[r].kind /\ op'[r].s = s /\ op'[r].had = op[r].had
        /\ op'[r].pc = "ahead"
    BY <1>1, <2>2, <2>3, RequestGoes DEF WorkTypes, Commands
  <2>5. /\ tip'[s] = tip[s] \union index[s] /\ tree'[s] = tree[s] \ index[s] /\ index'[s] = {}
        /\ \A t \in WorkSessions : t # s =>
             tip'[t] = tip[t] /\ tree'[t] = tree[t] /\ index'[t] = index[t]
    BY <1>1, <2>3 DEF WorkTypes
  <2>6. WorkTypes'
    BY <1>1, <2>3, <2>4 DEF WorkTypes, Written
  <2>7. ASSUME NEW t \in WorkSessions PROVE WorkspaceKept(t)'
    <3>1. WorkspaceKept(t)
      BY <1>1
    <3> QED
      BY <2>3, <2>5, <3>1 DEF WorkspaceKept
  <2>8. ASSUME NEW q \in Requests, q # r, op[q].kind # None PROVE RequestKept(q)'
    <3>1. op[q].s \in WorkSessions
      BY <1>1, <2>8 DEF RequestKept, OnItsWay
    <3>2. /\ tip[op[q].s] \subseteq tip'[op[q].s]
          /\ tip[op[q].s] \union index[op[q].s] \subseteq tip'[op[q].s] \union index'[op[q].s]
      BY <2>5, <3>1
    <3> QED
      BY <1>b, <2>3, <2>4, <2>8, <3>1, <3>2
  <2>9. op[r].had \subseteq tip'[s]
    BY <2>1, <2>2, <2>3, <2>5 DEF OnItsWay
  <2>10. OnItsWay(r, s)'
    BY <2>2, <2>3, <2>4, <2>9 DEF OnItsWay
  <2>11. RequestKept(r)'
    <3>1. op[r].kind # "discard"
      BY <1>1, <2>1 DEF RequestKept
    <3> QED
      BY <2>2, <2>4, <2>10, <3>1 DEF RequestKept
  <2> QED
    BY <1>1, <1>c, <2>3, <2>4, <2>6, <2>7, <2>8, <2>11 DEF WorkKept
<1>14. ASSUME NEW r \in Requests, Worktrees!Merge(r)
       PROVE  WorkKept'
  <2>1. op[r].pc = "merge" /\ op[r].pc # None
    BY <1>14, RequestWords DEF Worktrees!Merge
  <2>2. PICK s \in WorkSessions :
          s = op[r].s /\ op[r].kind # None /\ OnItsWay(r, s) /\ WorkspaceKept(s)
    BY <1>d, <2>1
  <2>3. /\ s \in branches /\ main' = main \union ({s} \X tip[s]) /\ Worktrees!Goes(r, "remove")
        /\ answered' = [answered EXCEPT !.whole = @ /\ (s \in discarded \/ op[r].had \subseteq tip[s])]
        /\ UNCHANGED <<agent, present, branches, tip, tree, index, project, pushed, makes, during,
                       discarded, human>>
    BY <1>14, <2>2 DEF Worktrees!Merge, Worktrees!Of
  <2>4. /\ op' \in [Requests -> WorkRecords] /\ \A q \in Requests : q # r => op'[q] = op[q]
        /\ op'[r].kind = op[r].kind /\ op'[r].s = s /\ op'[r].had = op[r].had
        /\ op'[r].pc = "remove"
    BY <1>1, <2>2, <2>3, RequestGoes DEF WorkTypes, Commands
  <2>5. op[r].had \subseteq tip[s] /\ op[r].kind = "merge"
    BY <1>1, <2>1, <2>2, <2>3 DEF OnItsWay, RequestKept
  <2>6. answered' \in [whole : BOOLEAN, pushed : BOOLEAN] /\ answered'.whole /\ answered'.pushed
    BY <1>1, <2>3, <2>5 DEF WorkTypes
  <2>7. main' \subseteq WorkSessions \X Worktrees!Edits
    BY <1>1, <2>3 DEF WorkTypes, Written
  <2>8. WorkTypes'
    BY <1>1, <2>3, <2>4, <2>6, <2>7 DEF WorkTypes
  <2>9. ASSUME NEW t \in WorkSessions PROVE WorkspaceKept(t)'
    <3>1. WorkspaceKept(t)
      BY <1>1
    <3> QED
      BY <2>3, <3>1 DEF WorkspaceKept
  <2>10. ASSUME NEW q \in Requests, q # r, op[q].kind # None PROVE RequestKept(q)'
    <3>1. op[q].s \in WorkSessions
      BY <1>1, <2>10 DEF RequestKept, OnItsWay
    <3> QED
      BY <1>b, <2>3, <2>4, <2>10, <3>1
  <2>11. OnItsWay(r, s)'
    BY <2>2, <2>3, <2>4, <2>5 DEF OnItsWay
  <2>12. RequestKept(r)'
    BY <2>2, <2>4, <2>5, <2>11 DEF RequestKept
  <2> QED
    BY <1>1, <1>c, <2>4, <2>6, <2>8, <2>9, <2>10, <2>12 DEF WorkKept
<1>15. ASSUME NEW r \in Requests, Worktrees!Remove(r)
       PROVE  WorkKept'
  <2>1. op[r].pc = "remove" /\ op[r].pc # None
    BY <1>15, RequestWords DEF Worktrees!Remove
  <2>2. PICK s \in WorkSessions :
          s = op[r].s /\ op[r].kind # None /\ OnItsWay(r, s) /\ WorkspaceKept(s)
    BY <1>d, <2>1
  <2>3. /\ present' = present \ {s} /\ tree' = [tree EXCEPT ![s] = {}]
        /\ index' = [index EXCEPT ![s] = {}] /\ Worktrees!Goes(r, "branch")
        /\ UNCHANGED <<agent, branches, tip, main, project, pushed,
                       answered, makes, during, discarded, human>>
    BY <1>15, <2>2 DEF Worktrees!Remove, Worktrees!ghost
  <2>4. /\ op' \in [Requests -> WorkRecords] /\ \A q \in Requests : q # r => op'[q] = op[q]
        /\ op'[r].kind = op[r].kind /\ op'[r].s = s /\ op'[r].had = op[r].had
        /\ op'[r].pc = "branch"
    BY <1>1, <2>2, <2>3, RequestGoes DEF WorkTypes, Commands
  <2>5. /\ tree'[s] = {} /\ index'[s] = {}
        /\ \A t \in WorkSessions : t # s => tree'[t] = tree[t] /\ index'[t] = index[t]
    BY <1>1, <2>3 DEF WorkTypes
  <2>6. WorkTypes'
    BY <1>1, <2>3, <2>4 DEF WorkTypes, Written
  <2>7. op[r].kind \in {"merge", "discard"} /\ RequestKept(r)
    BY <1>1, <2>1 DEF RequestKept
  <2>8. s \notin discarded => \A e \in makes[s] \ during[s] : <<s, e>> \in main
    BY <2>1, <2>2, <2>7 DEF OnItsWay
  <2>9. ASSUME NEW t \in WorkSessions PROVE WorkspaceKept(t)'
    <3>1. WorkspaceKept(t)
      BY <1>1
    <3>2. CASE t = s
      BY <2>3, <2>5, <2>8, <3>1, <3>2 DEF WorkspaceKept
    <3>3. CASE t # s
      BY <2>3, <2>5, <3>1, <3>3 DEF WorkspaceKept
    <3> QED
      BY <3>2, <3>3
  <2>10. ASSUME NEW q \in Requests, q # r, op[q].kind # None PROVE RequestKept(q)'
    <3>1. op[q].s \in WorkSessions
      BY <1>1, <2>10 DEF RequestKept, OnItsWay
    <3>2. /\ op[q].s \in present' => op[q].s \in present
          /\ op[q].s \in present' => index'[op[q].s] = index[op[q].s]
      BY <2>3, <2>5, <3>1
    <3> QED
      BY <1>b, <2>3, <2>4, <2>10, <3>1, <3>2
  <2>11. OnItsWay(r, s)'
    BY <2>1, <2>2, <2>3, <2>4 DEF OnItsWay
  <2>12. RequestKept(r)'
    BY <2>2, <2>4, <2>7, <2>11 DEF RequestKept
  <2> QED
    BY <1>1, <1>c, <2>3, <2>4, <2>6, <2>9, <2>10, <2>12 DEF WorkKept
<1>16. ASSUME NEW r \in Requests, Worktrees!Branch(r)
       PROVE  WorkKept'
  <2>1. op[r].pc = "branch" /\ op[r].pc # None
    BY <1>16, RequestWords DEF Worktrees!Branch
  <2>2. PICK s \in WorkSessions :
          s = op[r].s /\ op[r].kind # None /\ OnItsWay(r, s) /\ WorkspaceKept(s)
    BY <1>d, <2>1
  <2>3. /\ Worktrees!Ends(r)
        /\ \/ branches' = branches \ {s} /\ tip' = [tip EXCEPT ![s] = {}]
           \/ UNCHANGED <<branches, tip>>
        /\ UNCHANGED <<agent, present, tree, index, main, project, pushed,
                       answered, makes, during, discarded, human>>
    BY <1>16, <2>2 DEF Worktrees!Branch, Worktrees!ghost
  <2>4. /\ op' \in [Requests -> WorkRecords] /\ \A q \in Requests : q # r => op'[q] = op[q]
        /\ op'[r] = Worktrees!Idle
    BY <1>1, <2>3, RequestGoes DEF WorkTypes
  <2>5. /\ branches' \subseteq branches /\ tip' \in [WorkSessions -> Written]
        /\ \A t \in WorkSessions : t # s => tip'[t] = tip[t] /\ (t \in branches => t \in branches')
        /\ tip'[s] \subseteq tip[s] /\ (s \in branches' => tip'[s] = tip[s])
    BY <1>1, <2>3 DEF WorkTypes, Written
  <2>6. WorkTypes'
    BY <1>1, <2>3, <2>4, <2>5 DEF WorkTypes
  <2>7. /\ op[r].kind \in {"merge", "discard"} /\ RequestKept(r) /\ s \notin present
        /\ s \notin discarded => \A e \in makes[s] \ during[s] : <<s, e>> \in main
    <3>1. op[r].kind \in {"merge", "discard"} /\ RequestKept(r)
      BY <1>1, <2>1 DEF RequestKept
    <3> QED
      BY <2>1, <2>2, <3>1 DEF OnItsWay
  <2>8. ASSUME NEW t \in WorkSessions PROVE WorkspaceKept(t)'
    <3>1. WorkspaceKept(t)
      BY <1>1
    <3>2. CASE t = s
      BY <2>3, <2>5, <2>7, <3>1, <3>2 DEF WorkspaceKept
    <3>3. CASE t # s
      BY <2>3, <2>5, <3>1, <3>3 DEF WorkspaceKept
    <3> QED
      BY <3>2, <3>3
  <2>9. ASSUME NEW q \in Requests, q # r, op[q].kind # None PROVE RequestKept(q)'
    <3>1. op[q].s \in WorkSessions
      BY <1>1, <2>9 DEF RequestKept, OnItsWay
    <3>2. /\ op[q].s \in branches' => op[q].s \in branches /\ tip'[op[q].s] = tip[op[q].s]
          /\ op[q].s \in present' => op[q].s \in present /\ tip'[op[q].s] = tip[op[q].s]
      BY <2>3, <2>5, <2>7, <3>1
    <3> QED
      BY <1>b, <2>3, <2>4, <2>9, <3>1, <3>2
  <2> QED
    BY <1>1, <1>a, <1>c, <2>3, <2>4, <2>6, <2>8, <2>9 DEF WorkKept
<1>17. ASSUME NEW r \in Requests, Worktrees!Push(r)
       PROVE  WorkKept'
  <2>1. op[r].pc = "push" /\ op[r].pc # None
    BY <1>17, RequestWords DEF Worktrees!Push
  <2>2. PICK s \in WorkSessions :
          s = op[r].s /\ op[r].kind # None /\ OnItsWay(r, s) /\ WorkspaceKept(s)
    BY <1>d, <2>1
  <2>3. /\ s \in branches /\ Worktrees!Ends(r) /\ pushed' = [pushed EXCEPT ![s] = tip[s]]
        /\ answered' = [answered EXCEPT !.pushed = @ /\ (s \in discarded \/ op[r].had \subseteq tip[s])]
        /\ UNCHANGED <<agent, present, branches, tip, tree, index, main, project, makes, during,
                       discarded, human>>
    BY <1>17, <2>2 DEF Worktrees!Push
  <2>4. /\ op' \in [Requests -> WorkRecords] /\ \A q \in Requests : q # r => op'[q] = op[q]
        /\ op'[r] = Worktrees!Idle
    BY <1>1, <2>3, RequestGoes DEF WorkTypes
  <2>5. op[r].had \subseteq tip[s]
    BY <2>1, <2>2, <2>3 DEF OnItsWay
  <2>6. answered' \in [whole : BOOLEAN, pushed : BOOLEAN] /\ answered'.whole /\ answered'.pushed
    BY <1>1, <2>3, <2>5 DEF WorkTypes
  <2>7. WorkTypes'
    BY <1>1, <2>3, <2>4, <2>6 DEF WorkTypes
  <2>8. ASSUME NEW t \in WorkSessions PROVE WorkspaceKept(t)'
    <3>1. WorkspaceKept(t)
      BY <1>1
    <3> QED
      BY <2>3, <3>1 DEF WorkspaceKept
  <2>9. ASSUME NEW q \in Requests, q # r, op[q].kind # None PROVE RequestKept(q)'
    <3>1. op[q].s \in WorkSessions
      BY <1>1, <2>9 DEF RequestKept, OnItsWay
    <3> QED
      BY <1>b, <2>3, <2>4, <2>9, <3>1
  <2> QED
    BY <1>1, <1>a, <1>c, <2>4, <2>6, <2>7, <2>8, <2>9 DEF WorkKept
<1> QED
  BY <1>4, <1>5, <1>6, <1>7, <1>8, <1>9, <1>10, <1>11, <1>12, <1>13, <1>14, <1>15, <1>16, <1>17
     DEF Worktrees!Next

(* What a session wrote while no merge of it was under way is in the project, on its *)
(* branch or in its worktree unless it was discarded, and what a merge or a push      *)
(* answered for was whole.                                                            *)
THEOREM NothingIsLost == Spec => []WorktreeInv
<1>1. Init => WorktreeInv
  BY WorkInit DEF Init, WorktreeInv, WorkOK
<1>2. WorktreeInv /\ [Next]_vars => WorktreeInv'
  <2> SUFFICES ASSUME WorktreeInv, [Next]_vars, moves' = "worktrees"
               PROVE  WorkOK'
    BY DEF WorktreeInv, WorkOK
  <2> QED
    BY OnePartMoves, WorkStep DEF WorktreeInv, WorkOK
<1> QED
  BY <1>1, <1>2, PTL DEF Spec

-------------------------------------------------------------------------------
(* The ledger of sub-agents                                                       *)

Turns == {None, "going", "cut"} \union Ledger!Outcomes
Words == {None, "open"} \union Ledger!Outcomes
Parts == {None, "running", "completed", "error"}
Told == Ledger!Outcomes \union {None}
Reports == [state : Ledger!States, truth : Turns, had : SUBSET Ledger!Evidence, sure : BOOLEAN,
            own : BOOLEAN, hidden : BOOLEAN]
Reads == [part : Parts, notice : Told, bg : BOOLEAN]

ChildTypes ==
  /\ turn \in [Children -> Turns] /\ lastTold \in [Children -> Words]
  /\ owned \subseteq {c \in Children : turn[c] = "going"} /\ background \subseteq Children
  /\ part \in [Children -> Parts] /\ turns \in [Children -> 0..MaxTurns]
  /\ done \in [Children -> SUBSET Ledger!Evidence]
  /\ notice \in [Children -> Told] /\ owed \in [Children -> Told]
ReaderTypes ==
  /\ report \in [Children -> Reports] /\ parent \in [Children -> Reads]
  /\ terminal \in [Children -> Told] /\ pc \in {"idle", "parent", "probe"}
  /\ sure \subseteq Children /\ going \subseteq Children
  /\ todo \subseteq Children /\ Cardinality(todo) <= Probes /\ ledgerFaults \in 0..LedgerFaults

(* What the invariant says of one child: of its own word and the parent's, of what *)
(* was read of them, and of what was reported.                                     *)
WordKept(c) ==
  /\ turn[c] \in Ledger!Outcomes => lastTold[c] = turn[c]
  /\ lastTold[c] = "completed" => "answered" \in done[c]
  /\ owed[c] = "completed" => "completed" \in done[c]
  /\ part[c] = "completed" /\ c \notin background => "completed" \in done[c]
  /\ notice[c] = "completed" => Ledger!Grounds(done[c])
ReadKept(c) == pc # "idle" /\ c \in sure /\ c \in going => c \in owned
ProbedKept(c) ==
  pc = "probe" =>
    /\ terminal[c] = "completed" => "answered" \in done[c]
    /\ parent[c].notice = "completed" => Ledger!Grounds(done[c])
    /\ parent[c].part = "completed" /\ ~parent[c].bg => "completed" \in done[c]
    /\ c \in sure =>
         /\ terminal[c] # None => terminal[c] = lastTold[c]
         /\ parent[c].notice # None => parent[c].notice = notice[c]
         /\ parent[c].notice = None /\ c \notin going \union todo /\ turn[c] \in Ledger!Outcomes =>
              terminal[c] = turn[c]
ReportKept(c) ==
  /\ report[c].state = "completed" =>
       IF report[c].own THEN "answered" \in report[c].had ELSE Ledger!Grounds(report[c].had)
  /\ report[c].sure /\ ~report[c].hidden /\ report[c].truth \in Ledger!Outcomes =>
       report[c].state = report[c].truth

LedgerOK == Ledger!TypeOK /\ Ledger!LedgerInv
LedgerKept ==
  /\ ChildTypes /\ ReaderTypes
  /\ \A c \in Children : WordKept(c) /\ ReadKept(c) /\ ProbedKept(c) /\ ReportKept(c)

(* They are the type invariant and the invariant.                                 *)
LEMMA LedgerParts == LedgerOK <=> LedgerKept
<1>1. Ledger!TypeOK <=> ChildTypes /\ ReaderTypes
  BY PartsCount DEF Ledger!TypeOK, ChildTypes, ReaderTypes, Turns, Words, Parts, Told, Reports, Reads
<1>2. Ledger!WordIsTrue <=> \A c \in Children : WordKept(c)
  BY DEF Ledger!WordIsTrue, WordKept
<1>3. Ledger!ReadIsTrue <=> \A c \in Children : ReadKept(c)
  BY DEF Ledger!ReadIsTrue, ReadKept
<1>4. Ledger!ProbedIsTrue <=> \A c \in Children : ProbedKept(c)
  BY DEF Ledger!ProbedIsTrue, ProbedKept
<1>5. Ledger!CompletedIsTrue /\ Ledger!EndedIsTold <=> \A c \in Children : ReportKept(c)
  BY DEF Ledger!CompletedIsTrue, Ledger!EndedIsTold, ReportKept
<1> QED
  BY <1>1, <1>2, <1>3, <1>4, <1>5 DEF LedgerOK, LedgerKept, Ledger!LedgerInv

(* No child has begun a turn and no request for the ledger has been made.         *)
LEMMA LedgerInit == Ledger!Init => LedgerOK
<1> SUFFICES ASSUME Ledger!Init PROVE LedgerKept
  BY LedgerParts
<1> USE DEF Ledger!Init
<1>1. 0 \in 0..MaxTurns /\ 0 \in 0..LedgerFaults /\ Probes \in Nat
  BY PartsAssumption
<1>3. ChildTypes
  BY <1>1 DEF ChildTypes, Turns, Words, Parts, Told
<1>4. Cardinality({}) = 0
  BY FS_EmptySet
<1>5. /\ Ledger!Unread \in [Children -> Reads] /\ Ledger!Unreported \in [Children -> Reports]
  BY DEF Ledger!Unread, Ledger!Unreported, Reads, Reports, Parts, Told, Ledger!States, Turns
<1>6. ReaderTypes
  BY <1>1, <1>4, <1>5 DEF ReaderTypes, Told
<1>7. ASSUME NEW c \in Children
      PROVE  WordKept(c) /\ ReadKept(c) /\ ProbedKept(c) /\ ReportKept(c)
  <2>1. None \notin Ledger!Outcomes
    BY ChildWords DEF Ledger!Outcomes
  <2>2. WordKept(c)
    BY <2>1, ChildWords DEF WordKept
  <2>3. ReportKept(c)
    BY <2>1, ChildWords DEF ReportKept, Ledger!Unreported
  <2> QED
    BY <2>2, <2>3 DEF ReadKept, ProbedKept
<1> QED
  BY <1>3, <1>6, <1>7 DEF LedgerKept

ChildStays(c) ==
  /\ turn'[c] = turn[c] /\ lastTold'[c] = lastTold[c] /\ part'[c] = part[c]
  /\ notice'[c] = notice[c] /\ owed'[c] = owed[c] /\ turns'[c] = turns[c] /\ done'[c] = done[c]
  /\ (c \in owned' <=> c \in owned) /\ (c \in background' <=> c \in background)

(* What children do, and what a request for the ledger reads of them, keeps the    *)
(* invariant.                                                                      *)
LEMMA LedgerStep ==
  ASSUME LedgerOK, Ledger!Next \/ UNCHANGED ledgerVars
  PROVE  LedgerOK'
<1> SUFFICES LedgerKept'
  BY LedgerParts, PTL
<1>1. /\ ChildTypes /\ ReaderTypes
      /\ \A c \in Children : WordKept(c) /\ ReadKept(c) /\ ProbedKept(c) /\ ReportKept(c)
  BY LedgerParts DEF LedgerKept
<1>2. /\ MaxTurns \in Nat /\ LedgerFaults \in Nat /\ Probes \in Nat /\ IsFiniteSet(Children)
      /\ None \notin Ledger!Outcomes /\ "going" \notin Ledger!Outcomes
      /\ "cut" \notin Ledger!Outcomes /\ "open" \notin Ledger!Outcomes
  BY PartsAssumption, ChildWords DEF Ledger!Outcomes
<1>3. ASSUME NEW c \in Children, ChildStays(c), sure' \subseteq sure,
             UNCHANGED <<pc, going, parent, todo, terminal, report>>
      PROVE  WordKept(c)' /\ ReadKept(c)' /\ ProbedKept(c)' /\ ReportKept(c)'
  <2> USE DEF ChildStays
  <2>1. WordKept(c)'
    BY <1>1, <1>3 DEF WordKept
  <2>2. ReadKept(c)'
    BY <1>1, <1>3 DEF ReadKept
  <2>3. ProbedKept(c)'
    BY <1>1, <1>3 DEF ProbedKept
  <2>4. ReportKept(c)'
    BY <1>1, <1>3 DEF ReportKept
  <2> QED
    BY <2>1, <2>2, <2>3, <2>4
<1>4. ASSUME NEW c \in Children, c \notin sure', done[c] \subseteq done'[c],
             UNCHANGED <<pc, going, parent, todo, terminal, report>>
      PROVE  ReadKept(c)' /\ ProbedKept(c)' /\ ReportKept(c)'
  <2>1. ReadKept(c)'
    BY <1>4 DEF ReadKept
  <2>2. ProbedKept(c)'
    BY <1>1, <1>4 DEF ProbedKept, Ledger!Grounds
  <2>3. ReportKept(c)'
    BY <1>1, <1>4 DEF ReportKept
  <2> QED
    BY <2>1, <2>2, <2>3
<1>5. ASSUME NEW c \in Children, Ledger!Moves(c), ChildTypes', WordKept(c)',
             \A d \in Children : d # c => ChildStays(d), done[c] \subseteq done'[c]
      PROVE  LedgerKept'
  <2>1. /\ sure' = sure \ {c} /\ UNCHANGED <<pc, going, parent, todo, terminal, report>>
        /\ ReaderTypes'
    BY <1>1, <1>5 DEF Ledger!Moves, Ledger!ledger, ReaderTypes
  <2>2. ASSUME NEW d \in Children, d # c
        PROVE  WordKept(d)' /\ ReadKept(d)' /\ ProbedKept(d)' /\ ReportKept(d)'
    BY <1>3, <1>5, <2>1, <2>2
  <2>3. ReadKept(c)' /\ ProbedKept(c)' /\ ReportKept(c)'
    BY <1>4, <1>5, <2>1
  <2> QED
    BY <1>5, <2>1, <2>2, <2>3 DEF LedgerKept
<1>6. CASE UNCHANGED ledgerVars
  <2>1. ChildTypes' /\ ReaderTypes'
    BY <1>1, <1>6 DEF ledgerVars, ChildTypes, ReaderTypes
  <2>2. \A c \in Children : ChildStays(c)
    BY <1>6 DEF ledgerVars, ChildStays
  <2> QED
    BY <1>3, <1>6, <2>1, <2>2 DEF ledgerVars, LedgerKept
<1>7. ASSUME NEW c \in Children, NEW here \in BOOLEAN, NEW task \in BOOLEAN, NEW bg \in BOOLEAN,
             Ledger!Begins(c, here, task, bg)
      PROVE  LedgerKept'
  <2>1. /\ turn[c] # "going" /\ turns[c] < MaxTurns
        /\ turn' = [turn EXCEPT ![c] = "going"] /\ turns' = [turns EXCEPT ![c] = @ + 1]
        /\ owned' = IF here THEN owned \union {c} ELSE owned \ {c}
        /\ part' = IF task THEN [part EXCEPT ![c] = "running"] ELSE part
        /\ background' = IF task /\ bg THEN background \union {c} ELSE background
        /\ Ledger!Moves(c) /\ UNCHANGED <<lastTold, notice, owed, done>>
    BY <1>7 DEF Ledger!Begins
  <2>2. /\ turn'[c] = "going" /\ turns'[c] = turns[c] + 1 /\ turns[c] \in 0..MaxTurns
        /\ part'[c] \in {"running", part[c]} /\ (c \in background => c \in background')
        /\ part'[c] # "running" => part'[c] = part[c]
        /\ \A d \in Children : d # c => ChildStays(d)
    BY <1>1, <2>1 DEF ChildTypes, ChildStays
  <2>3. ChildTypes'
    BY <1>1, <1>2, <2>1, <2>2 DEF ChildTypes, Turns, Parts
  <2>4. WordKept(c)'
    BY <1>1, <1>2, <2>1, <2>2 DEF WordKept
  <2> QED
    BY <1>5, <2>1, <2>2, <2>3, <2>4
<1>8. ASSUME NEW c \in Children, Ledger!LaunchFails(c) \/ Ledger!Returns(c) \/ Ledger!Promotes(c)
      PROVE  LedgerKept'
  <2>1. /\ part' = [part EXCEPT ![c] = "error"] \/ part' = [part EXCEPT ![c] = "completed"]
        /\ part' = [part EXCEPT ![c] = "error"] \/ c \in background'
        /\ background' = background \union {c} \/ background' = background
        /\ Ledger!Moves(c) /\ UNCHANGED <<turn, lastTold, owned, notice, owed, turns, done>>
    BY <1>8 DEF Ledger!LaunchFails, Ledger!Returns, Ledger!Promotes
  <2>2. /\ part'[c] # "completed" \/ c \in background'
        /\ \A d \in Children : d # c => ChildStays(d)
    BY <1>1, <2>1 DEF ChildTypes, ChildStays
  <2>3. ChildTypes'
    BY <1>1, <2>1 DEF ChildTypes, Parts
  <2>4. WordKept(c)'
    BY <1>1, <2>1, <2>2 DEF WordKept
  <2> QED
    BY <1>5, <2>1, <2>2, <2>3, <2>4
<1>9. ASSUME NEW c \in Children, Ledger!Answers(c)
      PROVE  LedgerKept'
  <2>1. /\ turn[c] = "going" /\ lastTold' = [lastTold EXCEPT ![c] = "open"] /\ Ledger!Moves(c)
        /\ UNCHANGED <<turn, owned, part, background, notice, owed, turns, done>>
    BY <1>9 DEF Ledger!Answers
  <2>2. /\ lastTold'[c] = "open" /\ \A d \in Children : d # c => ChildStays(d)
    BY <1>1, <2>1 DEF ChildTypes, ChildStays
  <2>3. ChildTypes'
    BY <1>1, <2>1 DEF ChildTypes, Words
  <2>4. WordKept(c)'
    BY <1>1, <1>2, <2>1, <2>2 DEF WordKept
  <2> QED
    BY <1>5, <2>1, <2>2, <2>3, <2>4
<1>21. ASSUME NEW c \in Children, Ledger!Steps(c)
       PROVE  LedgerKept'
  <2>1. /\ turn[c] = "going" /\ lastTold' = [lastTold EXCEPT ![c] = "completed"]
        /\ done' = [done EXCEPT ![c] = @ \union {"answered"}] /\ Ledger!Moves(c)
        /\ UNCHANGED <<turn, owned, part, background, notice, owed, turns>>
    BY <1>21 DEF Ledger!Steps
  <2>2. /\ lastTold'[c] = "completed" /\ done'[c] = done[c] \union {"answered"}
        /\ \A d \in Children : d # c => ChildStays(d)
    BY <1>1, <2>1 DEF ChildTypes, ChildStays
  <2>3. ChildTypes'
    BY <1>1, <2>1 DEF ChildTypes, Words, Ledger!Outcomes, Ledger!Evidence
  <2>4. WordKept(c)'
    BY <1>1, <1>2, <2>1, <2>2 DEF WordKept, Ledger!Grounds
  <2> QED
    BY <1>5, <2>1, <2>2, <2>3, <2>4
<1>10. ASSUME NEW c \in Children, NEW out \in Ledger!Outcomes, Ledger!Ends(c, out)
       PROVE  LedgerKept'
  <2>1. /\ turn[c] = "going"
        /\ turn' = [turn EXCEPT ![c] = out] /\ lastTold' = [lastTold EXCEPT ![c] = out]
        /\ done' = IF out = "completed"
                     THEN [done EXCEPT ![c] = @ \union {"answered", "completed"}] ELSE done
        /\ owned' = owned \ {c}
        /\ part' = IF part[c] = "running" /\ c \notin background
                     THEN [part EXCEPT ![c] = IF out = "completed" THEN "completed" ELSE "error"]
                     ELSE part
        /\ owed' = IF c \in background THEN [owed EXCEPT ![c] = out] ELSE owed
        /\ Ledger!Moves(c) /\ UNCHANGED <<background, notice, turns>>
    BY <1>10 DEF Ledger!Ends
  <2>4. /\ turn'[c] = out /\ lastTold'[c] = out /\ owed'[c] \in {out, owed[c]}
        /\ done'[c] = IF out = "completed" THEN done[c] \union {"answered", "completed"}
                       ELSE done[c]
        /\ part'[c] = IF part[c] = "running" /\ c \notin background
                        THEN IF out = "completed" THEN "completed" ELSE "error"
                        ELSE part[c]
        /\ \A d \in Children : d # c => ChildStays(d)
    BY <1>1, <2>1 DEF ChildTypes, ChildStays
  <2>5. ChildTypes'
    BY <1>1, <2>1 DEF ChildTypes, Turns, Words, Parts, Told, Ledger!Outcomes, Ledger!Evidence
  <2>6. WordKept(c)'
    <3>1. WordKept(c) /\ done[c] \subseteq done'[c]
      BY <1>1, <2>4
    <3> QED
      BY <2>1, <2>4, <3>1 DEF WordKept, Ledger!Grounds
  <2> QED
    BY <1>5, <2>1, <2>4, <2>5, <2>6
<1>22. ASSUME NEW c \in Children, NEW says \in SUBSET Ledger!Words, Ledger!Tells(c, says),
              ChildTypes', WordKept(c)', done[c] \subseteq done'[c],
              \A d \in Children : d # c => owed'[d] = owed[d] /\ done'[d] = done[d]
       PROVE  LedgerKept'
  <2>1. /\ Ledger!Moves(c) /\ UNCHANGED <<turn, lastTold, owned, part, background, turns>>
        /\ \A d \in Children : d # c => notice'[d] = notice[d]
    BY <1>1, <1>22 DEF Ledger!Tells, ChildTypes
  <2>2. \A d \in Children : d # c => ChildStays(d)
    BY <1>22, <2>1 DEF ChildStays
  <2> QED
    BY <1>5, <1>22, <2>1, <2>2
<1>11. ASSUME NEW c \in Children, NEW says \in SUBSET Ledger!Words,
              Ledger!Notifies(c, says) \/ Ledger!Mentions(c, says)
       PROVE  LedgerKept'
  <2> DEFINE word == Ledger!Reading(says)
  <2>1. /\ Ledger!Tells(c, says)
        /\ \/ /\ owed' = [owed EXCEPT ![c] = None] /\ done' = done
              /\ word = "completed" => owed[c] = "completed"
           \/ /\ owed' = owed
              /\ done' = IF word = "completed"
                           THEN [done EXCEPT ![c] = @ \union {"vouched"}] ELSE done
    BY <1>1, <1>2, <1>11, ChildWords
       DEF Ledger!Notifies, Ledger!Mentions, Ledger!Reading, ChildTypes, Told, Ledger!Outcomes
  <2>2. /\ notice' = IF word = None THEN notice ELSE [notice EXCEPT ![c] = word]
        /\ UNCHANGED <<turn, lastTold, owned, part, background, turns>> /\ word \in Told
    BY <2>1 DEF Ledger!Tells, Ledger!Reading, Told, Ledger!Outcomes
  <2> HIDE DEF word
  <2>3. ChildTypes'
    BY <1>1, <2>1, <2>2 DEF ChildTypes, Told, Ledger!Evidence
  <2>4. /\ notice'[c] = word \/ notice'[c] = notice[c]
        /\ owed'[c] = owed[c] \/ owed'[c] = None
        /\ done[c] \subseteq done'[c]
        /\ word = "completed" => owed[c] = "completed" \/ "vouched" \in done'[c]
        /\ \A d \in Children : d # c => owed'[d] = owed[d] /\ done'[d] = done[d]
    BY <1>1, <2>1, <2>2 DEF ChildTypes
  <2>5. WordKept(c)'
    BY <1>1, <2>2, <2>4, ChildWords DEF WordKept, Ledger!Grounds
  <2> QED
    BY <1>22, <2>1, <2>3, <2>4, <2>5
<1>12. ASSUME NEW S \in SUBSET Children, \A c \in S : turn[c] = "going", Ledger!Cut(S),
              ledgerFaults' \in 0..LedgerFaults
       PROVE  LedgerKept'
  <2>1. /\ turn' = [c \in Children |-> IF c \in S THEN "cut" ELSE turn[c]]
        /\ owned' = owned \ S /\ sure' = sure \ S
        /\ UNCHANGED <<lastTold, part, background, notice, owed, turns, done, pc, going, parent,
                       todo, terminal, report>>
    BY <1>12 DEF Ledger!Cut, Ledger!ledger
  <2>2. ChildTypes' /\ ReaderTypes'
    BY <1>1, <1>12, <2>1 DEF ChildTypes, ReaderTypes, Turns
  <2>3. ASSUME NEW c \in S PROVE WordKept(c)'
    <3>1. WordKept(c) /\ turn[c] = "going" /\ turn'[c] = "cut"
      BY <1>1, <1>12, <2>1
    <3> QED
      BY <1>2, <2>1, <3>1 DEF WordKept
  <2>4. \A c \in Children \ S : ChildStays(c)
    BY <1>1, <2>1 DEF ChildStays
  <2>5. ASSUME NEW c \in Children
        PROVE  WordKept(c)' /\ ReadKept(c)' /\ ProbedKept(c)' /\ ReportKept(c)'
    <3>1. CASE c \in S
      BY <1>4, <2>1, <2>3, <3>1
    <3>2. CASE c \notin S
      BY <1>3, <2>1, <2>4, <3>2
    <3> QED
      BY <3>1, <3>2
  <2> QED
    BY <2>2, <2>5 DEF LedgerKept
<1>13. CASE Ledger!Restart
  <2>1. /\ Ledger!Cut(owned) /\ ledgerFaults' \in 0..LedgerFaults /\ owned \subseteq Children
        /\ \A c \in owned : turn[c] = "going"
    BY <1>1, <1>2, <1>13 DEF Ledger!Restart, Ledger!Fault, ChildTypes, ReaderTypes
  <2> QED
    BY <1>12, <2>1
<1>14. ASSUME NEW c \in Children, Ledger!Cancelled(c)
       PROVE  LedgerKept'
  <2>1. /\ Ledger!Cut({c}) /\ ledgerFaults' \in 0..LedgerFaults /\ turn[c] = "going"
    BY <1>1, <1>14 DEF Ledger!Cancelled, ReaderTypes
  <2> QED
    BY <1>12, <2>1
<1>15. ASSUME UNCHANGED <<turn, lastTold, owned, part, background, notice, owed, turns, done>>
       PROVE  ChildTypes' /\ \A c \in Children : WordKept(c)'
  BY <1>1, <1>15 DEF ChildTypes, WordKept
<1>16. CASE Ledger!ReadStatus
  <2>1. /\ pc' = "parent" /\ sure' = Children /\ (going' = owned \/ going' = {})
        /\ ledgerFaults' \in 0..LedgerFaults /\ report' = Ledger!Unreported
        /\ UNCHANGED <<Ledger!child, parent, todo, terminal>>
    BY <1>1, <1>2, <1>16 DEF Ledger!ReadStatus, Ledger!Fault, ReaderTypes
  <2>2. ChildTypes' /\ \A c \in Children : WordKept(c)'
    BY <1>15, <2>1 DEF Ledger!child
  <2>3. Ledger!Unreported \in [Children -> Reports]
    BY DEF Ledger!Unreported, Reports, Ledger!States, Turns
  <2>4. ReaderTypes'
    BY <1>1, <2>1, <2>3 DEF ReaderTypes, ChildTypes
  <2>5. ASSUME NEW c \in Children PROVE ReadKept(c)' /\ ProbedKept(c)' /\ ReportKept(c)'
    <3>1. owned' = owned
      BY <2>1 DEF Ledger!child
    <3>2. report'[c].state # "completed" /\ report'[c].sure = FALSE
      BY <2>1, ChildWords DEF Ledger!Unreported
    <3> QED
      BY <2>1, <3>1, <3>2 DEF ReadKept, ProbedKept, ReportKept
  <2> QED
    BY <2>2, <2>4, <2>5 DEF LedgerKept
<1>17. CASE Ledger!Refused
  <2>1. /\ pc' = "idle" /\ going' = {} /\ sure' = {} /\ ledgerFaults' \in 0..LedgerFaults
        /\ UNCHANGED <<Ledger!child, parent, todo, terminal, report>>
    BY <1>1, <1>2, <1>17 DEF Ledger!Refused, Ledger!Fault, ReaderTypes
  <2>2. ChildTypes' /\ \A c \in Children : WordKept(c)'
    BY <1>15, <2>1 DEF Ledger!child
  <2>3. ReaderTypes'
    BY <1>1, <2>1 DEF ReaderTypes
  <2>4. ASSUME NEW c \in Children PROVE ReadKept(c)' /\ ProbedKept(c)' /\ ReportKept(c)'
    BY <1>1, <2>1 DEF ReadKept, ProbedKept, ReportKept
  <2> QED
    BY <2>2, <2>3, <2>4 DEF LedgerKept
<1>18. ASSUME NEW c \in Children, Ledger!Probe(c)
       PROVE  LedgerKept'
  <2>1. /\ pc = "probe" /\ c \in todo /\ todo' = todo \ {c} /\ sure' \subseteq sure
        /\ \/ /\ terminal' = [terminal EXCEPT ![c] = IF lastTold[c] = "open" THEN None ELSE lastTold[c]]
              /\ UNCHANGED <<ledgerFaults, sure>>
           \/ UNCHANGED terminal /\ c \notin sure'
        /\ ledgerFaults' \in 0..LedgerFaults
        /\ UNCHANGED <<Ledger!child, pc, going, parent, report>>
    BY <1>1, <1>2, <1>18 DEF Ledger!Probe, Ledger!Fault, ReaderTypes
  <2>2. UNCHANGED <<turn, lastTold, owned, part, background, notice, owed, turns, done>>
    BY <2>1 DEF Ledger!child
  <2>3. ChildTypes' /\ \A d \in Children : WordKept(d)'
    BY <1>15, <2>2
  <2>4. Cardinality(todo') <= Probes
    <3>1. IsFiniteSet(todo)
      BY <1>1, <1>2, FS_Subset DEF ReaderTypes
    <3>2. Cardinality(todo') = Cardinality(todo) - 1 /\ Cardinality(todo) \in Nat
      BY <2>1, <3>1, FS_RemoveElement, FS_CardinalityType
    <3> QED
      BY <1>1, <1>2, <3>2 DEF ReaderTypes
  <2>5. /\ terminal' \in [Children -> Told]
        /\ \A d \in Children : d # c => terminal'[d] = terminal[d]
        /\ c \in sure' => terminal'[c] = IF lastTold[c] = "open" THEN None ELSE lastTold[c]
        /\ terminal'[c] = terminal[c] \/ (lastTold[c] # "open" /\ terminal'[c] = lastTold[c])
             \/ terminal'[c] = None
    BY <1>1, <2>1 DEF ChildTypes, ReaderTypes, Words, Told
  <2>6. ReaderTypes'
    BY <1>1, <2>1, <2>4, <2>5 DEF ReaderTypes
  <2>7. ASSUME NEW d \in Children PROVE ReadKept(d)' /\ ReportKept(d)'
    BY <1>1, <2>1, <2>2 DEF ReadKept, ReportKept
  <2>8. ASSUME NEW d \in Children, d # c PROVE ProbedKept(d)'
    BY <1>1, <2>1, <2>2, <2>5, <2>8 DEF ProbedKept
  <2>9. ProbedKept(c)'
    <3>1. ProbedKept(c) /\ WordKept(c) /\ lastTold[c] \in Words
      BY <1>1 DEF ChildTypes
    <3>2. terminal'[c] = "completed" => "answered" \in done[c]
      BY <1>2, <2>1, <2>5, <3>1, ChildWords DEF ProbedKept, WordKept
    <3>3. c \in sure' /\ turn[c] \in Ledger!Outcomes => terminal'[c] = turn[c]
      BY <1>2, <2>5, <3>1 DEF WordKept
    <3>4. c \in sure' /\ terminal'[c] # None => terminal'[c] = lastTold[c]
      BY <2>5
    <3> QED
      BY <2>1, <2>2, <3>1, <3>2, <3>3, <3>4 DEF ProbedKept
  <2> QED
    BY <2>3, <2>6, <2>7, <2>8, <2>9 DEF LedgerKept
<1>19. CASE Ledger!ReadParent
  <2> DEFINE Open == {c \in Children : c \notin going /\ parent'[c].notice = None}
             read == [c \in Children |-> [part |-> part[c], bg |-> c \in background,
                                          notice |-> notice[c]]]
  <2>1. /\ pc = "parent" /\ pc' = "probe" /\ (parent' = read \/ parent' = Ledger!Unread)
        /\ ledgerFaults' \in 0..LedgerFaults
        /\ todo' \subseteq Open /\ sure' = sure \ (Open \ todo')
        /\ Cardinality(todo') = IF Cardinality(Open) < Probes THEN Cardinality(Open) ELSE Probes
        /\ terminal' = [c \in Children |-> None]
        /\ UNCHANGED <<Ledger!child, going, report>>
    BY <1>1, <1>2, <1>19, PartsCount DEF Ledger!ReadParent, Ledger!Fault, ReaderTypes
  <2>2. UNCHANGED <<turn, lastTold, owned, part, background, notice, owed, turns, done>>
    BY <2>1 DEF Ledger!child
  <2>3. ChildTypes' /\ \A c \in Children : WordKept(c)'
    BY <1>15, <2>2
  <2>4. read \in [Children -> Reads] /\ Ledger!Unread \in [Children -> Reads]
    BY <1>1 DEF ChildTypes, Reads, Ledger!Unread, Parts, Told
  <2>5. Cardinality(Open) \in Nat
    BY <1>2, FS_Subset, FS_CardinalityType
  <2>6. ReaderTypes'
    BY <1>1, <1>2, <2>1, <2>4, <2>5 DEF ReaderTypes, Told
  <2>7. ASSUME NEW c \in Children PROVE ReadKept(c)' /\ ReportKept(c)'
    BY <1>1, <2>1, <2>2, <2>7 DEF ReadKept, ReportKept
  <2>8. ASSUME NEW c \in Children PROVE ProbedKept(c)'
    <3>1. WordKept(c) /\ terminal'[c] = None /\ None # "completed"
      BY <1>1, <2>1, ChildWords
    <3>2. \/ /\ parent'[c].part = part[c] /\ parent'[c].bg = (c \in background)
             /\ parent'[c].notice = notice[c]
          \/ parent'[c].part = None /\ parent'[c].notice = None
      BY <2>1 DEF Ledger!Unread
    <3>3. c \in sure' /\ parent'[c].notice = None => c \in going' \union todo'
      BY <2>1
    <3> HIDE DEF Open, read
    <3> QED
      BY <2>2, <3>1, <3>2, <3>3 DEF ProbedKept, WordKept
  <2> QED
    BY <2>3, <2>6, <2>7, <2>8 DEF LedgerKept
<1>20. CASE Ledger!Derive
  <2> DEFINE new(c) == [state |-> Ledger!Resolve(c), truth |-> turn[c], had |-> done[c],
                        sure |-> c \in sure, own |-> c \notin going /\ terminal[c] # None,
                        hidden |-> notice[c] \notin {None, turn[c]}]
  <2>1. /\ pc = "probe" /\ todo = {} /\ pc' = "idle" /\ report' = [c \in Children |-> new(c)]
        /\ going' = {} /\ parent' = Ledger!Unread /\ terminal' = [c \in Children |-> None]
        /\ sure' = {} /\ UNCHANGED <<Ledger!child, todo, ledgerFaults>>
    BY <1>20 DEF Ledger!Derive
  <2>2. UNCHANGED <<turn, lastTold, owned, part, background, notice, owed, turns, done>>
    BY <2>1 DEF Ledger!child
  <2>3. ChildTypes' /\ \A c \in Children : WordKept(c)'
    BY <1>15, <2>2
  <2>4. ASSUME NEW c \in Children
        PROVE  /\ Ledger!Resolve(c) \in Ledger!States
               /\ Ledger!Resolve(c) = "completed" =>
                    IF c \notin going /\ terminal[c] # None
                      THEN "answered" \in done[c] ELSE Ledger!Grounds(done[c])
               /\ c \in sure /\ notice[c] \in {None, turn[c]} /\ turn[c] \in Ledger!Outcomes =>
                    Ledger!Resolve(c) = turn[c]
    <3>1. /\ parent[c].part \in Parts /\ parent[c].notice \in Told /\ terminal[c] \in Told
          /\ ProbedKept(c) /\ ReadKept(c) /\ WordKept(c) /\ (c \in owned => turn[c] = "going")
      BY <1>1 DEF ReaderTypes, ChildTypes, Reads
    <3>2. /\ Ledger!FromPart(parent[c]) \in {"failed", "launched", "completed", "unknown"}
          /\ Ledger!FromPart(parent[c]) = "completed" =>
               parent[c].part = "completed" /\ ~parent[c].bg
      BY <3>1, ChildWords DEF Ledger!FromPart, Parts
    <3>3. /\ Ledger!Resolve(c) \in Ledger!States
          /\ Ledger!Resolve(c) = "completed" =>
               IF c \notin going /\ terminal[c] # None
                 THEN "answered" \in done[c] ELSE Ledger!Grounds(done[c])
      BY <2>1, <3>1, <3>2
         DEF Ledger!Resolve, Ledger!States, Ledger!Outcomes, Told, ProbedKept, Ledger!Grounds
    <3>4. ASSUME c \in sure, notice[c] \in {None, turn[c]}, turn[c] \in Ledger!Outcomes
          PROVE  Ledger!Resolve(c) = turn[c]
      <4>1. c \notin going
        BY <1>2, <2>1, <3>1, <3>4 DEF ReadKept
      <4>2. terminal[c] # None => terminal[c] = turn[c]
        BY <2>1, <3>1, <3>4 DEF ProbedKept, WordKept
      <4>3. terminal[c] = None => parent[c].notice # None
        BY <1>2, <2>1, <3>1, <3>4, <4>1 DEF ProbedKept
      <4>4. parent[c].notice # None => parent[c].notice = turn[c]
        BY <2>1, <3>1, <3>4 DEF ProbedKept, WordKept
      <4> QED
        BY <4>1, <4>2, <4>3, <4>4 DEF Ledger!Resolve
    <3> QED
      BY <3>3, <3>4
  <2>5. ASSUME NEW c \in Children
        PROVE  /\ new(c) \in Reports /\ new(c).state = Ledger!Resolve(c) /\ new(c).truth = turn[c]
               /\ new(c).had = done[c] /\ new(c).sure = (c \in sure)
               /\ new(c).own = (c \notin going /\ terminal[c] # None)
               /\ new(c).hidden = (notice[c] \notin {None, turn[c]})
    BY <1>1, <2>4 DEF Reports, ChildTypes
  <2>6. Ledger!Unread \in [Children -> Reads]
    BY DEF Reads, Ledger!Unread, Parts, Told
  <2> HIDE DEF new
  <2>7. ReaderTypes'
    BY <1>1, <2>1, <2>5, <2>6 DEF ReaderTypes, Told
  <2>8. ASSUME NEW c \in Children PROVE ReportKept(c)'
    <3>1. report'[c] = new(c)
      BY <2>1
    <3>2. report'[c].state = Ledger!Resolve(c) /\ report'[c].truth = turn[c] /\ report'[c].had = done[c]
      BY <2>5, <3>1
    <3>3. (report'[c].sure => c \in sure) /\ (~report'[c].hidden => notice[c] \in {None, turn[c]})
      BY <2>5, <3>1, Zenon
    <3>4. report'[c].own <=> c \notin going /\ terminal[c] # None
      BY <2>5, <3>1, Zenon
    <3> QED
      BY <2>4, <3>2, <3>3, <3>4 DEF ReportKept
  <2>9. \A c \in Children : ReadKept(c)' /\ ProbedKept(c)'
    BY <2>1 DEF ReadKept, ProbedKept
  <2> QED
    BY <2>3, <2>7, <2>8, <2>9 DEF LedgerKept
<1> QED
  BY <1>6, <1>7, <1>8, <1>9, <1>10, <1>11, <1>13, <1>14, <1>21, <1>16, <1>17, <1>18, <1>19, <1>20
     DEF Ledger!Next

(* The ledger calls a child completed only if an answer or a turn of it was, or a      *)
(* human wrote so, and tells a child that had ended, was looked at and is named by no *)
(* message that reads otherwise, as it ended.                                         *)
THEOREM LedgerIsTrue == Spec => []LedgerInv
<1>1. Init => LedgerInv
  BY LedgerInit DEF Init, LedgerInv, LedgerOK
<1>2. LedgerInv /\ [Next]_vars => LedgerInv'
  <2> SUFFICES ASSUME LedgerInv, [Next]_vars, moves' = "ledger"
               PROVE  LedgerOK'
    BY DEF LedgerInv, LedgerOK
  <2> QED
    BY OnePartMoves, LedgerStep DEF LedgerInv, LedgerOK
<1> QED
  BY <1>1, <1>2, PTL DEF Spec

-------------------------------------------------------------------------------
(* The turns of DSH conversations: their ledger                                   *)

Outcomes == {"running", "completed", "cancelled", "failed"}
Records == [session : Sessions, prompt : Runs!Prompts, outcome : Outcomes]
LedgerTyped == ledger \in Seq(Records) /\ running \subseteq Sessions
LedgerWhole == LedgerTyped /\ Runs!OpenRunIsNewest /\ Runs!OneOpenRun

Newest(i) == \A j \in DOMAIN ledger : ledger[j].session = ledger[i].session => j <= i
ClosedBy(S, i) == ledger[i].outcome = "running" /\ ledger[i].session \in S \intersect running /\ Newest(i)
\* The runs of the sessions of S that are on get outcome o.
Closing(S, o) ==
  /\ running' = running \ S
  /\ ledger' = [i \in DOMAIN ledger |->
       IF ClosedBy(S, i) THEN [ledger[i] EXCEPT !.outcome = o] ELSE ledger[i]]
\* What a step may do to the ledger: records keep whose they are, and what they were.
LedgerGrows ==
  /\ DOMAIN ledger \subseteq DOMAIN ledger'
  /\ \A i \in DOMAIN ledger :
       /\ ledger'[i].session = ledger[i].session /\ ledger'[i].prompt = ledger[i].prompt
       /\ ledger[i].outcome # "running" => ledger'[i] = ledger[i]

(* A session that is on has its newest record open.                               *)
LEMMA OpenRecord ==
  ASSUME LedgerWhole, NEW s \in running
  PROVE  \E m \in DOMAIN ledger : ledger[m].session = s /\ ledger[m].outcome = "running" /\ Newest(m)
<1>1. s \in Sessions
  BY DEF LedgerWhole, LedgerTyped
<1>2. PICK i \in {k \in {j \in DOMAIN ledger : ledger[j].session = s} : ledger[k].outcome = "running"} :
        \A j \in {k \in DOMAIN ledger : ledger[k].session = s} : j <= i
  BY <1>1 DEF LedgerWhole, Runs!OpenRunIsNewest
<1> QED
  BY <1>2 DEF Newest

(* An outcome that reaches a session closes its newest run, if it is on.          *)
LEMMA OutcomeCloses ==
  ASSUME LedgerWhole, NEW s \in Sessions, NEW o \in Outcomes, Runs!Outcome(s, o)
  PROVE  Closing({s}, o)
<1>1. running' = running \ {s} /\ ledger' = IF s \in running THEN Runs!Close(s, o) ELSE ledger
  BY DEF Runs!Outcome
<1>2. CASE s \notin running
  <2>1. \A i \in DOMAIN ledger : ~ClosedBy({s}, i)
    BY <1>2 DEF ClosedBy
  <2>2. ledger = [i \in DOMAIN ledger |-> ledger[i]]
    BY DEF LedgerWhole, LedgerTyped
  <2> QED
    BY <1>1, <1>2, <2>1, <2>2 DEF Closing
<1>3. CASE s \in running
  <2>1. PICK m \in DOMAIN ledger : ledger[m].session = s /\ ledger[m].outcome = "running" /\ Newest(m)
    BY <1>3, OpenRecord
  <2> DEFINE mine == {i \in DOMAIN ledger : ledger[i].session = s /\ ledger[i].outcome = "running"}
  <2>2. m \in mine /\ mine \subseteq Nat /\ \A j \in mine : j <= m
    BY <2>1 DEF Newest, LedgerWhole, LedgerTyped
  <2>3. (CHOOSE i \in mine : \A j \in mine : j <= i) = m
    BY <2>2
  <2>4. mine # {}
    BY <2>2
  <2>5. Runs!Close(s, o) = [ledger EXCEPT ![m].outcome = o]
    BY <2>3, <2>4 DEF Runs!Close
  <2>6. \A i \in DOMAIN ledger : ClosedBy({s}, i) <=> i = m
    BY <1>3, <2>1, <2>2 DEF ClosedBy, Newest
  <2>7. ledger' = [i \in DOMAIN ledger |-> IF i = m THEN [ledger[i] EXCEPT !.outcome = o] ELSE ledger[i]]
    BY <1>1, <1>3, <2>5 DEF LedgerWhole, LedgerTyped
  <2> QED
    BY <1>1, <2>6, <2>7 DEF Closing
<1> QED
  BY <1>2, <1>3

(* What reaches nobody closes nothing.                                            *)
LEMMA NobodyCloses ==
  ASSUME LedgerWhole, UNCHANGED <<running, ledger>>
  PROVE  Closing({}, "failed")
<1>1. ledger = [i \in DOMAIN ledger |-> ledger[i]]
  BY DEF LedgerWhole, LedgerTyped
<1>2. \A i \in DOMAIN ledger : ~ClosedBy({}, i)
  BY DEF ClosedBy
<1> QED
  BY <1>1, <1>2 DEF Closing

(* The exit of a process closes the newest run of every session that is on.       *)
LEMMA ExitCloses ==
  ASSUME LedgerWhole, NEW b \in Runs!Bridges, Runs!Exits(b)
  PROVE  Closing(Sessions, "failed")
<1>1. running' = {} /\ ledger' = [i \in DOMAIN ledger |->
         IF ledger[i].session \in running /\ Runs!Close(ledger[i].session, "failed")[i] # ledger[i]
         THEN Runs!Close(ledger[i].session, "failed")[i] ELSE ledger[i]]
  BY DEF Runs!Exits
<1>2. ASSUME NEW i \in DOMAIN ledger, ledger[i].session \in running
      PROVE  Runs!Close(ledger[i].session, "failed")[i] =
               IF ClosedBy(Sessions, i) THEN [ledger[i] EXCEPT !.outcome = "failed"] ELSE ledger[i]
  <2> DEFINE s == ledger[i].session
  <2>1. PICK m \in DOMAIN ledger : ledger[m].session = s /\ ledger[m].outcome = "running" /\ Newest(m)
    BY <1>2, OpenRecord
  <2> DEFINE mine == {k \in DOMAIN ledger : ledger[k].session = s /\ ledger[k].outcome = "running"}
  <2>2. m \in mine /\ mine \subseteq Nat /\ \A j \in mine : j <= m
    BY <2>1 DEF Newest, LedgerWhole, LedgerTyped
  <2>3. (CHOOSE k \in mine : \A j \in mine : j <= k) = m
    BY <2>2
  <2>4. mine # {}
    BY <2>2
  <2>5. Runs!Close(s, "failed") = [ledger EXCEPT ![m].outcome = "failed"]
    BY <2>3, <2>4 DEF Runs!Close
  <2>6. s \in Sessions /\ i \in Nat /\ m \in Nat
    BY <1>2, <2>1 DEF LedgerWhole, LedgerTyped
  <2>7. ClosedBy(Sessions, i) <=> i = m
    BY <1>2, <2>1, <2>6 DEF ClosedBy, Newest
  <2> QED
    BY <2>5, <2>7 DEF LedgerWhole, LedgerTyped
<1>3. \A i \in DOMAIN ledger : ClosedBy(Sessions, i) => ledger[i].session \in running
  BY DEF ClosedBy
<1>4. running \ Sessions = {}
  BY DEF LedgerWhole, LedgerTyped
<1>5. \A i \in DOMAIN ledger :
        (IF ledger[i].session \in running /\ Runs!Close(ledger[i].session, "failed")[i] # ledger[i]
         THEN Runs!Close(ledger[i].session, "failed")[i] ELSE ledger[i])
        = IF ClosedBy(Sessions, i) THEN [ledger[i] EXCEPT !.outcome = "failed"] ELSE ledger[i]
  BY <1>2, <1>3
<1> QED
  BY <1>1, <1>4, <1>5 DEF Closing

(* Closing runs keeps the ledger in order, and the open runs of other sessions.   *)
LEMMA ClosingKeeps ==
  ASSUME LedgerWhole, NEW S \in SUBSET Sessions, NEW o \in Outcomes \ {"running"}, Closing(S, o),
         crossed => crossed'
  PROVE  /\ LedgerWhole' /\ LedgerGrows /\ DOMAIN ledger' = DOMAIN ledger
         /\ \A i \in DOMAIN ledger : ledger'[i] = ledger[i] \/ (ClosedBy(S, i) /\ ledger'[i].outcome = o)
         /\ \A s, n : s \notin S /\ Runs!IsOpen(s, n) => Runs!IsOpen(s, n)'
         /\ \A s \in S : \A n : ~crossed /\ s \in Sessions => ~Runs!IsOpen(s, n)'
<1>1. ledger \in Seq(Records) /\ running \subseteq Sessions
  BY DEF LedgerWhole, LedgerTyped
<1>2. /\ running' = running \ S /\ DOMAIN ledger' = DOMAIN ledger
      /\ \A i \in DOMAIN ledger : ledger'[i] =
           IF ClosedBy(S, i) THEN [ledger[i] EXCEPT !.outcome = o] ELSE ledger[i]
  BY DEF Closing
<1>3. \A i \in DOMAIN ledger : ledger[i] \in Records /\ i \in Nat
  BY <1>1
<1>4. \A i \in DOMAIN ledger : ledger'[i] \in Records
  BY <1>2, <1>3 DEF Records, Outcomes
<1>5. ledger' \in Seq(Records)
  <2>1. DOMAIN ledger = 1..Len(ledger) /\ Len(ledger) \in Nat
    BY <1>1
  <2>2. ledger' = [i \in 1..Len(ledger) |-> ledger'[i]]
    BY <2>1 DEF Closing
  <2>3. \A i \in 1..Len(ledger) : ledger'[i] \in Records
    BY <1>4, <2>1
  <2> QED
    BY <2>1, <2>2, <2>3, IsASeq
<1>6. \A i \in DOMAIN ledger :
        /\ ledger'[i].session = ledger[i].session /\ ledger'[i].prompt = ledger[i].prompt
        /\ ledger[i].outcome # "running" => ledger'[i] = ledger[i]
        /\ ledger'[i] = ledger[i] \/ (ClosedBy(S, i) /\ ledger'[i].outcome = o)
        /\ ledger'[i].outcome = "running" => ledger'[i] = ledger[i] /\ ~ClosedBy(S, i)
        /\ ~ClosedBy(S, i) => ledger'[i] = ledger[i]
  <2> TAKE i \in DOMAIN ledger
  <2>1. CASE ClosedBy(S, i)
    <3>1. ledger'[i] = [ledger[i] EXCEPT !.outcome = o] /\ ledger[i] \in Records
      BY <1>2, <1>3, <2>1
    <3>2. /\ ledger'[i].session = ledger[i].session /\ ledger'[i].prompt = ledger[i].prompt
          /\ ledger'[i].outcome = o
      BY <3>1 DEF Records
    <3> QED
      BY <2>1, <3>2 DEF ClosedBy
  <2>2. CASE ~ClosedBy(S, i)
    <3>1. ledger'[i] = ledger[i]
      BY <1>2, <2>2, Zenon
    <3> QED
      BY <2>2, <3>1
  <2> QED
    BY <2>1, <2>2
<1>7. LedgerGrows
  BY <1>2, <1>6 DEF LedgerGrows
<1>8. Runs!OneOpenRun'
  BY <1>2, <1>6 DEF LedgerWhole, Runs!OneOpenRun
<1>9. ASSUME NEW s \in running'
      PROVE  \E i \in DOMAIN ledger' : /\ ledger'[i].session = s /\ ledger'[i].outcome = "running"
               /\ \A j \in DOMAIN ledger' : ledger'[j].session = s => j <= i
  <2>1. s \in running /\ s \notin S
    BY <1>2, <1>9
  <2>2. PICK m \in DOMAIN ledger : ledger[m].session = s /\ ledger[m].outcome = "running" /\ Newest(m)
    BY <2>1, OpenRecord
  <2>3. ledger'[m] = ledger[m]
    BY <1>6, <2>1, <2>2 DEF ClosedBy
  <2> QED
    BY <1>2, <1>6, <2>2, <2>3 DEF Newest
<1>10. ASSUME NEW s \in Sessions, ~crossed, s \notin running', NEW i \in DOMAIN ledger,
              ledger'[i].session = s, ledger'[i].outcome = "running"
       PROVE  FALSE
  <2>1. ledger[i].session = s /\ ledger[i].outcome = "running" /\ ~ClosedBy(S, i)
    BY <1>6, <1>10
  <2>2. s \in running
    BY <1>10, <2>1 DEF LedgerWhole, Runs!OpenRunIsNewest
  <2>3. s \in S
    BY <1>2, <1>10, <2>2
  <2>4. Newest(i)
    BY <1>10, <2>1 DEF LedgerWhole, Runs!OneOpenRun, Newest
  <2> QED
    BY <2>1, <2>2, <2>3, <2>4 DEF ClosedBy
<1>11. Runs!OpenRunIsNewest'
  BY <1>2, <1>9, <1>10 DEF Runs!OpenRunIsNewest
<1>12. \A s, n : s \notin S /\ Runs!IsOpen(s, n) => Runs!IsOpen(s, n)'
  <2> SUFFICES ASSUME NEW s, NEW n, s \notin S, Runs!IsOpen(s, n) PROVE Runs!IsOpen(s, n)'
    OBVIOUS
  <2>1. PICK i \in DOMAIN ledger : ledger[i] = [session |-> s, prompt |-> n, outcome |-> "running"]
    BY DEF Runs!IsOpen
  <2>2. ledger'[i] = ledger[i]
    BY <1>6, <2>1 DEF ClosedBy
  <2> QED
    BY <1>2, <2>1, <2>2 DEF Runs!IsOpen
<1>13. \A s \in S : \A n : ~crossed /\ s \in Sessions => ~Runs!IsOpen(s, n)'
  <2> SUFFICES ASSUME NEW s \in S, NEW n, ~crossed, s \in Sessions, Runs!IsOpen(s, n)' PROVE FALSE
    OBVIOUS
  <2>1. PICK i \in DOMAIN ledger : ledger'[i] = [session |-> s, prompt |-> n, outcome |-> "running"]
    BY <1>2 DEF Runs!IsOpen
  <2>2. s \notin running'
    BY <1>2
  <2> QED
    BY <1>10, <2>1, <2>2
<1> QED
  BY <1>1, <1>2, <1>5, <1>6, <1>7, <1>8, <1>11, <1>12, <1>13 DEF LedgerWhole, LedgerTyped

(* A run that begins, or fails to, is the newest of its session.                  *)
LEMMA RunBegins ==
  ASSUME LedgerWhole, NEW s \in Sessions, NEW n \in Runs!Prompts, NEW o \in {"running", "failed"},
         ledger' = Append(ledger, [session |-> s, prompt |-> n, outcome |-> o]),
         running' = IF o = "running" THEN running \union {s} ELSE running \ {s},
         ~crossed' => ~crossed /\ s \notin running
  PROVE  /\ LedgerWhole' /\ LedgerGrows /\ DOMAIN ledger' = DOMAIN ledger \union {Len(ledger) + 1}
         /\ \A i \in DOMAIN ledger : ledger'[i] = ledger[i]
         /\ ledger'[Len(ledger) + 1] = [session |-> s, prompt |-> n, outcome |-> o]
         /\ \A r, m : Runs!IsOpen(r, m) => Runs!IsOpen(r, m)'
         /\ o = "running" => Runs!IsOpen(s, n)'
<1> DEFINE row == [session |-> s, prompt |-> n, outcome |-> o]
           l == Len(ledger)
<1>1. ledger \in Seq(Records) /\ running \subseteq Sessions /\ row \in Records
  BY DEF LedgerWhole, LedgerTyped, Records, Outcomes
<1>2. row.session = s /\ row.prompt = n /\ row.outcome = o
  OBVIOUS
<1>3. ledger' = Append(ledger, row)
  OBVIOUS
<1> HIDE DEF row
<1>4. /\ ledger' \in Seq(Records) /\ l \in Nat /\ DOMAIN ledger = 1..l /\ DOMAIN ledger' = 1..(l + 1)
      /\ ledger'[l + 1] = row /\ \A i \in 1..l : ledger'[i] = ledger[i]
  BY <1>1, <1>3
<1>5. running' \subseteq Sessions
  BY <1>1
<1>6. LedgerGrows /\ DOMAIN ledger' = DOMAIN ledger \union {l + 1}
  BY <1>4 DEF LedgerGrows
<1>7. \A r, m : Runs!IsOpen(r, m) => Runs!IsOpen(r, m)'
  BY <1>4 DEF Runs!IsOpen
<1>8. o = "running" => Runs!IsOpen(s, n)'
  BY <1>4 DEF Runs!IsOpen, row
<1>9. \A i \in 1..(l + 1) : i \in 1..l \/ i = l + 1
  BY <1>4
<1>10. ~crossed' => \A i \in 1..l : ledger[i].session = s => ledger[i].outcome # "running"
  BY <1>4 DEF LedgerWhole, Runs!OpenRunIsNewest
<1>11. Runs!OneOpenRun'
  <2> SUFFICES ASSUME ~crossed', NEW i \in 1..(l + 1), NEW j \in 1..(l + 1),
                      ledger'[i].session = ledger'[j].session, ledger'[i].outcome = "running"
               PROVE  j <= i
    BY <1>4 DEF Runs!OneOpenRun
  <2>1. CASE i = l + 1
    BY <2>1, <1>4
  <2>2. CASE i \in 1..l /\ j \in 1..l
    BY <1>4, <2>2 DEF LedgerWhole, Runs!OneOpenRun
  <2>3. CASE i \in 1..l /\ j = l + 1
    BY <1>2, <1>4, <1>10, <2>3
  <2> QED
    BY <1>9, <2>1, <2>2, <2>3
<1>12. ASSUME NEW r \in running'
       PROVE  \E i \in DOMAIN ledger' : /\ ledger'[i].session = r /\ ledger'[i].outcome = "running"
                /\ \A j \in DOMAIN ledger' : ledger'[j].session = r => j <= i
  <2>1. CASE r = s /\ o = "running"
    <3>1. ledger'[l + 1].session = r /\ ledger'[l + 1].outcome = "running"
      BY <1>2, <1>4, <2>1
    <3>2. l + 1 \in DOMAIN ledger' /\ \A j \in DOMAIN ledger' : j <= l + 1
      BY <1>4
    <3> QED
      BY <3>1, <3>2
  <2>2. CASE ~(r = s /\ o = "running")
    <3>1. r # s /\ r \in running
      BY <1>12, <2>2
    <3>2. PICK m \in DOMAIN ledger : ledger[m].session = r /\ ledger[m].outcome = "running" /\ Newest(m)
      BY <3>1, OpenRecord
    <3>3. \A j \in DOMAIN ledger' : ledger'[j].session = r => j <= m
      BY <1>2, <1>4, <1>9, <3>1, <3>2 DEF Newest
    <3> QED
      BY <1>4, <3>2, <3>3
  <2> QED
    BY <2>1, <2>2
<1>13. ASSUME NEW r \in Sessions, ~crossed', r \notin running', NEW i \in DOMAIN ledger',
              ledger'[i].session = r, ledger'[i].outcome = "running"
       PROVE  FALSE
  <2>1. CASE i = l + 1
    BY <1>2, <1>4, <1>13, <2>1
  <2>2. CASE i \in 1..l
    <3>1. ledger[i].session = r /\ ledger[i].outcome = "running"
      BY <1>4, <1>13, <2>2
    <3>2. r \in running
      BY <1>4, <1>13, <2>2, <3>1 DEF LedgerWhole, Runs!OpenRunIsNewest
    <3>3. r = s
      BY <1>13, <3>2
    <3> QED
      BY <1>13, <3>2, <3>3
  <2> QED
    BY <1>4, <1>9, <2>1, <2>2
<1>14. Runs!OpenRunIsNewest'
  BY <1>12, <1>13 DEF Runs!OpenRunIsNewest
<1> QED
  BY <1>4, <1>5, <1>6, <1>7, <1>8, <1>11, <1>14 DEF LedgerWhole, LedgerTyped, row

(* A ledger nobody writes stays in order.                                         *)
LEMMA LedgerRests ==
  ASSUME LedgerWhole, UNCHANGED <<ledger, running>>, crossed => crossed'
  PROVE  /\ LedgerWhole' /\ LedgerGrows
         /\ \A s, n : Runs!IsOpen(s, n) => Runs!IsOpen(s, n)'
<1>1. LedgerTyped' /\ LedgerGrows
  BY DEF LedgerWhole, LedgerTyped, LedgerGrows
<1>2. Runs!OneOpenRun'
  BY DEF LedgerWhole, Runs!OneOpenRun
<1>3. Runs!OpenRunIsNewest'
  BY DEF LedgerWhole, Runs!OpenRunIsNewest
<1>4. \A s, n : Runs!IsOpen(s, n) => Runs!IsOpen(s, n)'
  BY DEF Runs!IsOpen
<1> QED
  BY <1>1, <1>2, <1>3, <1>4 DEF LedgerWhole

-------------------------------------------------------------------------------
(* Lines, threads and records                                                     *)

InLine(line) ==
  /\ line.kind = "prompt" => Runs!Sent(line.id) /\ line.session = prompts[line.id].session
  /\ line.kind = "cancel" => line.id \in 1..MaxCancels
OutLine(line) == line.kind = "finished" => line.id \in finished
CallLine(line) == line.kind = "cancel" => line.id \in 1..asked
ThreadOK(t) ==
  /\ Runs!Sent(t.prompt) /\ t.session = prompts[t.prompt].session
  /\ t.at = "finish" => t.prompt \in finished
LedgerOnce ==
  /\ \A i \in DOMAIN ledger : /\ Runs!Sent(ledger[i].prompt)
                              /\ ledger[i].session = prompts[ledger[i].prompt].session
  /\ \A i, j \in DOMAIN ledger : ledger[i].prompt = ledger[j].prompt => i = j
LinesParts ==
  /\ \A b \in Runs!Bridges : \A k \in DOMAIN inbox[b] : InLine(inbox[b][k])
  /\ \A b \in Runs!Bridges : \A k \in DOMAIN outbox[b] : OutLine(outbox[b][k])
  /\ \A b \in Runs!Bridges : \A t \in threads[b] : ThreadOK(t)
  /\ \A b \in Runs!Bridges : procs[b].thread # 0 => Runs!Sent(procs[b].thread)
  /\ \A b \in Runs!Bridges : \A x \in calls[b] : CallLine(x)
  /\ LedgerOnce
\* No step takes back that a prompt was sent, or for which session.
SentKept ==
  /\ \A n : Runs!Sent(n) => Runs!Sent(n)' /\ prompts'[n].session = prompts[n].session
  /\ finished \subseteq finished' /\ 1..asked \subseteq 1..asked'

(* The invariant of lines, threads and records, one by one.                       *)
LEMMA LinesByPart == Runs!LinesAreOfPrompts <=> LinesParts
<1>1. LinesParts => Runs!LinesAreOfPrompts
  BY DEF LinesParts, LedgerOnce, InLine, OutLine, CallLine, ThreadOK, Runs!LinesAreOfPrompts
<1>2. ASSUME Runs!LinesAreOfPrompts, NEW b \in Runs!Bridges
      PROVE  /\ \A k \in DOMAIN inbox[b] : InLine(inbox[b][k])
             /\ \A k \in DOMAIN outbox[b] : OutLine(outbox[b][k])
             /\ \A t \in threads[b] : ThreadOK(t)
             /\ procs[b].thread # 0 => Runs!Sent(procs[b].thread)
             /\ \A x \in calls[b] : CallLine(x)
  BY <1>2 DEF Runs!LinesAreOfPrompts, InLine, OutLine, CallLine, ThreadOK
<1>3. Runs!LinesAreOfPrompts => LedgerOnce
  BY DEF Runs!LinesAreOfPrompts, LedgerOnce
<1> QED
  BY <1>1, <1>2, <1>3 DEF LinesParts

(* What was of a prompt that was sent stays so.                                   *)
LEMMA LinesStay ==
  ASSUME SentKept
  PROVE  /\ \A x : InLine(x) => InLine(x)'
         /\ \A x : OutLine(x) => OutLine(x)'
         /\ \A x : ThreadOK(x) => ThreadOK(x)'
         /\ \A x : CallLine(x) => CallLine(x)'
<1>1. \A x : InLine(x) => InLine(x)'
  BY DEF SentKept, InLine
<1>2. \A x : OutLine(x) => OutLine(x)'
  BY DEF SentKept, OutLine
<1>3. \A x : ThreadOK(x) => ThreadOK(x)'
  BY DEF SentKept, ThreadOK
<1>4. \A x : CallLine(x) => CallLine(x)'
  BY DEF SentKept, CallLine
<1> QED
  BY <1>1, <1>2, <1>3, <1>4

\* Each line, thread and record after a step was there before it, or is in order.
OldOrGood ==
  /\ SentKept
  /\ \A b \in Runs!Bridges : \A k \in DOMAIN inbox'[b] :
       (\E j \in DOMAIN inbox[b] : inbox'[b][k] = inbox[b][j]) \/ InLine(inbox[b][k])'
  /\ \A b \in Runs!Bridges : \A k \in DOMAIN outbox'[b] :
       (\E j \in DOMAIN outbox[b] : outbox'[b][k] = outbox[b][j]) \/ OutLine(outbox[b][k])'
  /\ \A b \in Runs!Bridges : \A t \in threads'[b] : t \in threads[b] \/ ThreadOK(t)'
  /\ \A b \in Runs!Bridges :
       procs'[b].thread \in {0, procs[b].thread} \/ Runs!Sent(procs[b].thread)'
  /\ \A b \in Runs!Bridges : \A x \in calls'[b] : x \in calls[b] \/ CallLine(x)'
  /\ LedgerOnce'

(* Then all of them are in order after it.                                        *)
LEMMA LinesMove ==
  ASSUME Runs!LinesAreOfPrompts, OldOrGood
  PROVE  Runs!LinesAreOfPrompts'
<1>1. LinesParts
  BY LinesByPart
<1>2. SentKept
  BY DEF OldOrGood
<1>3. \A b \in Runs!Bridges : \A k \in DOMAIN inbox'[b] : InLine(inbox[b][k])'
  <2> SUFFICES ASSUME NEW b \in Runs!Bridges, NEW k \in DOMAIN inbox'[b], ~InLine(inbox[b][k])'
               PROVE  FALSE
    OBVIOUS
  <2>1. PICK j \in DOMAIN inbox[b] : inbox'[b][k] = inbox[b][j]
    BY DEF OldOrGood
  <2>2. InLine(inbox[b][j])
    BY <1>1 DEF LinesParts
  <2> DEFINE x == inbox[b][j]
  <2>3. InLine(x)
    BY <2>2
  <2> HIDE DEF x
  <2>4. SentKept /\ inbox'[b][k] = x
    BY <1>2, <2>1 DEF x
  <2> QED
    BY <2>3, <2>4 DEF InLine, SentKept
<1>4. \A b \in Runs!Bridges : \A k \in DOMAIN outbox'[b] : OutLine(outbox[b][k])'
  <2> SUFFICES ASSUME NEW b \in Runs!Bridges, NEW k \in DOMAIN outbox'[b], ~OutLine(outbox[b][k])'
               PROVE  FALSE
    OBVIOUS
  <2>1. PICK j \in DOMAIN outbox[b] : outbox'[b][k] = outbox[b][j]
    BY DEF OldOrGood
  <2>2. OutLine(outbox[b][j])
    BY <1>1 DEF LinesParts
  <2> DEFINE x == outbox[b][j]
  <2>3. OutLine(x)
    BY <2>2
  <2> HIDE DEF x
  <2>4. SentKept /\ outbox'[b][k] = x
    BY <1>2, <2>1 DEF x
  <2> QED
    BY <2>3, <2>4 DEF OutLine, SentKept
<1>5. \A b \in Runs!Bridges : \A t \in threads'[b] : ThreadOK(t)'
  BY <1>1, <1>2, LinesStay DEF OldOrGood, LinesParts
<1>6. \A b \in Runs!Bridges : procs'[b].thread # 0 => Runs!Sent(procs[b].thread)'
  BY <1>1, <1>2 DEF OldOrGood, LinesParts, SentKept, Runs!Sent
<1>7. LedgerOnce'
  BY DEF OldOrGood
<1>9. \A b \in Runs!Bridges : \A x \in calls'[b] : CallLine(x)'
  BY <1>1, <1>2, LinesStay DEF OldOrGood, LinesParts
<1>8. LinesParts'
  BY <1>3, <1>4, <1>5, <1>6, <1>7, <1>9 DEF LinesParts
<1> QED
  BY <1>8, LinesByPart, PTL

(* A ledger of the same records, or with one of a prompt not sent before.         *)
LEMMA OnceStays ==
  ASSUME LedgerOnce, SentKept, DOMAIN ledger' = DOMAIN ledger, LedgerGrows
  PROVE  LedgerOnce'
  BY DEF LedgerOnce, SentKept, LedgerGrows

-------------------------------------------------------------------------------
(* What is whole stays whole                                                      *)

Whole == Runs!TypeOK /\ Runs!ProcsAreWhole /\ Runs!LinesAreOfPrompts /\ LedgerWhole

InRows == [kind : {"prompt", "cancel"}, session : Sessions, id : Nat]
OutRows == [kind : Runs!Answers, session : Sessions, id : Nat]
ProcRows == [state : {"unborn", "up", "dying", "gone"}, busy : Sessions \cup {None},
             cancelled : SUBSET Sessions, thread : 0..MaxPrompts, owes : 0..MaxPrompts,
             joins : 0..MaxCancels, broken : BOOLEAN]
ThreadRows == [prompt : Runs!Prompts, session : Sessions,
               at : {"run", "finish", "abort", "fail", "last"}]

(* A queue without its head, and with a new last.                                 *)
LEMMA Tails ==
  ASSUME NEW T, NEW q \in Seq(T), q # <<>>
  PROVE  /\ Head(q) = q[1] /\ q[1] \in T /\ 1 \in DOMAIN q /\ Tail(q) \in Seq(T)
         /\ \A k \in DOMAIN Tail(q) : k \in Nat /\ k >= 1 /\ k + 1 \in DOMAIN q /\ Tail(q)[k] = q[k + 1]
OBVIOUS

(* The line that is appended is its last.                                         *)
LEMMA Appends ==
  ASSUME NEW T, NEW q \in Seq(T), NEW x \in T
  PROVE  /\ Append(q, x) \in Seq(T) /\ Len(q) \in Nat /\ \A k \in DOMAIN q : k \in Nat /\ k <= Len(q)
         /\ \A k \in DOMAIN Append(q, x) : \/ k \in DOMAIN q /\ Append(q, x)[k] = q[k]
                                           \/ k = Len(q) + 1 /\ Append(q, x)[k] = x
         /\ Len(q) + 1 \in DOMAIN Append(q, x) /\ Append(q, x)[Len(q) + 1] = x
OBVIOUS

(* What is known of the whole of it, piece by piece.                              *)
LEMMA WholeParts ==
  ASSUME Whole
  PROVE  /\ LinesParts /\ LedgerWhole /\ prompts \in [Runs!Prompts -> [session : Sessions, at : {"none", "verify", "done"}]]
         /\ \A b \in Runs!Bridges : inbox[b] \in Seq(InRows) /\ outbox[b] \in Seq(OutRows)
         /\ DOMAIN inbox = Runs!Bridges /\ DOMAIN outbox = Runs!Bridges
         /\ DOMAIN procs = Runs!Bridges /\ DOMAIN threads = Runs!Bridges
         /\ calls \in [Runs!Bridges -> SUBSET InRows] /\ asked \in 0..MaxCancels
         /\ procs \in [Runs!Bridges -> ProcRows] /\ threads \in [Runs!Bridges -> SUBSET ThreadRows]
<1>1. LinesParts
  BY LinesByPart DEF Whole
<1> QED
  BY <1>1 DEF Whole, Runs!TypeOK, InRows, OutRows, ProcRows, ThreadRows

(* POST prompt is taken up: the workspace is to be looked at.                     *)
LEMMA PromptWhole ==
  ASSUME Whole, NEW n \in Runs!Prompts, NEW s \in Sessions, Runs!Prompt(n, s)
  PROVE  Whole' /\ LedgerGrows
<1> USE DEF Runs!Prompt
<1>1. Runs!TypeOK'
  BY DEF Whole, Runs!TypeOK
<1>2. SentKept
  BY DEF Whole, Runs!TypeOK, SentKept, Runs!Sent
<1>3. LinesParts /\ LedgerWhole' /\ LedgerGrows
  BY WholeParts, LedgerRests DEF Whole
<1>4. Runs!ProcsAreWhole'
  BY <1>2, <1>3 DEF Whole, Runs!ProcsAreWhole, LinesParts, SentKept
<1>5. OldOrGood
  <2>1. LedgerOnce'
    BY <1>2, <1>3, OnceStays DEF LinesParts
  <2> QED
    BY <1>2, <2>1 DEF OldOrGood
<1> QED
  BY <1>1, <1>3, <1>4, <1>5, LinesMove DEF Whole

(* A request goes to the pool's process, or to one that has not been used.        *)
LEMMA SendsTo ==
  ASSUME Whole, NEW x \in InRows, Runs!Sends(x)
  PROVE  /\ Runs!Target \in Runs!Bridges /\ Runs!Target # 0 /\ pool' = Runs!Target
         /\ pool # 0 => Runs!Target = pool
         /\ pool = 0 => procs[Runs!Target].state = "unborn"
         /\ inbox' = [inbox EXCEPT ![Runs!Target] = Append(@, x)]
         /\ calls' = [calls EXCEPT ![Runs!Target] = @ \cup {x}]
         /\ procs' = [procs EXCEPT ![Runs!Target].state = IF @ = "unborn" THEN "up" ELSE @]
<1> DEFINE free == {b \in Runs!Bridges : procs[b].state = "unborn"}
<1>1. CASE pool # 0
  BY <1>1 DEF Runs!Sends, Runs!Target, Whole, Runs!TypeOK, Runs!Bridges
<1>2. CASE pool = 0
  <2>1. Runs!Target = IF \E b \in Runs!Bridges : procs[b].state = "unborn"
               THEN CHOOSE b \in Runs!Bridges : procs[b].state = "unborn" /\
                      \A c \in Runs!Bridges : procs[c].state = "unborn" => b <= c
               ELSE 0
    BY <1>2 DEF Runs!Target
  <2>2. Runs!Target # 0
    BY DEF Runs!Sends
  <2>3. \E b \in Runs!Bridges : procs[b].state = "unborn"
    BY <2>1, <2>2
  <2>4. free # {} /\ free \subseteq Nat
    BY <2>3 DEF Runs!Bridges
  <2>5. PICK m \in free : \A c \in free : <<c, m>> \notin OpToRel(<, Nat)
    BY <2>4, WFMin, NatLessThanWellFounded
  <2>9. \A c, d \in Nat : c < d => <<c, d>> \in OpToRel(<, Nat)
    BY DEF OpToRel
  <2> HIDE DEF free
  <2>10. \A c \in free : ~(c < m)
    BY <2>4, <2>5, <2>9, Zenon
  <2>11. m \in Nat /\ \A c \in free : c \in Nat
    BY <2>4, <2>5
  <2>6. m \in Runs!Bridges /\ procs[m].state = "unborn" /\
          \A c \in Runs!Bridges : procs[c].state = "unborn" => m <= c
    BY <2>10, <2>11 DEF free
  <2>7. Runs!Target = CHOOSE b \in Runs!Bridges : procs[b].state = "unborn" /\
                      \A c \in Runs!Bridges : procs[c].state = "unborn" => b <= c
    BY <2>1, <2>3
  <2>8. Runs!Target \in Runs!Bridges /\ procs[Runs!Target].state = "unborn"
    BY <2>6, <2>7
  <2> QED
    BY <1>2, <2>2, <2>8 DEF Runs!Sends
<1> QED
  BY <1>1, <1>2

(* After it the processes and their lines are whole.                              *)
LEMMA SendsWhole ==
  ASSUME Whole, NEW x \in InRows, Runs!Sends(x), SentKept, InLine(x)', CallLine(x)', LedgerOnce',
         UNCHANGED <<outbox, threads>>, crossed => crossed'
  PROVE  /\ pool' \in 0..MaxBridges
         /\ procs' \in [Runs!Bridges -> ProcRows]
         /\ inbox' \in [Runs!Bridges -> Seq(InRows)] /\ calls' \in [Runs!Bridges -> SUBSET InRows]
         /\ Runs!ProcsAreWhole' /\ Runs!LinesAreOfPrompts'
<1>1. PICK T \in Runs!Bridges :
      /\ T # 0 /\ pool' = T /\ (pool # 0 => T = pool)
      /\ (pool = 0 => procs[T].state = "unborn")
      /\ inbox' = [inbox EXCEPT ![T] = Append(@, x)]
      /\ calls' = [calls EXCEPT ![T] = @ \cup {x}]
      /\ procs' = [procs EXCEPT ![T].state = IF @ = "unborn" THEN "up" ELSE @]
  BY SendsTo
<1>2. \A b \in Runs!Bridges : inbox[b] \in Seq(InRows)
  BY WholeParts
<1>3. /\ inbox'[T] = Append(inbox[T], x) /\ \A b \in Runs!Bridges \ {T} : inbox'[b] = inbox[b]
      /\ inbox' \in [Runs!Bridges -> Seq(InRows)]
  BY <1>1, <1>2, WholeParts, Appends DEF Whole, Runs!TypeOK
<1>4. procs \in [Runs!Bridges -> ProcRows] /\ calls \in [Runs!Bridges -> SUBSET InRows]
  BY WholeParts
<1>5. procs' \in [Runs!Bridges -> ProcRows]
  <2>1. [procs[T] EXCEPT !.state = IF @ = "unborn" THEN "up" ELSE @] \in ProcRows
    BY <1>4 DEF ProcRows
  <2> QED
    BY <1>1, <1>4, <2>1
<1>12. /\ calls' \in [Runs!Bridges -> SUBSET InRows] /\ calls'[T] = calls[T] \cup {x}
       /\ \A b \in Runs!Bridges \ {T} : calls'[b] = calls[b]
  BY <1>1, <1>4
<1>6. /\ \A b \in Runs!Bridges \ {T} : procs'[b] = procs[b]
      /\ procs'[T].state = (IF procs[T].state = "unborn" THEN "up" ELSE procs[T].state)
      /\ procs'[T].busy = procs[T].busy /\ procs'[T].joins = procs[T].joins
      /\ procs'[T].thread = procs[T].thread /\ procs'[T].owes = procs[T].owes
  BY <1>1, <1>4 DEF ProcRows
<1>7. pool' \in 0..MaxBridges
  BY <1>1 DEF Runs!Bridges
<1>8. LinesParts
  BY WholeParts
<1>9. OldOrGood
  <2>1. \A b \in Runs!Bridges : \A k \in DOMAIN inbox'[b] :
          (\E j \in DOMAIN inbox[b] : inbox'[b][k] = inbox[b][j]) \/ InLine(inbox[b][k])'
    <3>1. ASSUME NEW k \in DOMAIN inbox'[T]
          PROVE (\E j \in DOMAIN inbox[T] : inbox'[T][k] = inbox[T][j]) \/ inbox'[T][k] = x
      BY <1>1, <1>2, <1>3, <3>1, Appends
    <3>2. \A k \in DOMAIN inbox'[T] :
          (\E j \in DOMAIN inbox[T] : inbox'[T][k] = inbox[T][j]) \/ InLine(inbox[T][k])'
      <4> SUFFICES ASSUME NEW k \in DOMAIN inbox'[T], inbox'[T][k] = x PROVE InLine(inbox[T][k])'
        BY <3>1
      <4> QED
        BY DEF InLine, Runs!Sent
    <3> QED
      BY <1>3, <3>2
  <2>2. \A b \in Runs!Bridges : procs'[b].thread = procs[b].thread
    BY <1>6
  <2>3. \A b \in Runs!Bridges : \A y \in calls'[b] : y \in calls[b] \/ CallLine(y)'
    BY <1>12
  <2> QED
    BY <2>1, <2>2, <2>3 DEF OldOrGood
<1>10. Runs!LinesAreOfPrompts'
  BY <1>9, LinesMove DEF Whole
<1>11. Runs!ProcsAreWhole'
  <2> USE DEF Whole, Runs!ProcsAreWhole
  <2>1. pool' # 0 => procs'[pool'].state \in {"up", "dying"}
    BY <1>1, <1>6
  <2>2. ASSUME NEW b \in Runs!Bridges
        PROVE  /\ procs'[b].state = "up" => b = pool'
               /\ procs'[b].state # "up" => threads'[b] = {} /\ procs'[b].joins = 0 /\ procs'[b].owes = 0
               /\ procs'[b].state = "unborn" => inbox'[b] = <<>> /\ outbox'[b] = <<>>
    <3>1. CASE b = T
      <4>1. procs'[T].state # "unborn"
        BY <1>6
      <4>2. procs'[T].state # "up" => procs[T].state # "up" /\ procs'[T].joins = procs[T].joins /\ procs'[T].owes = procs[T].owes
        BY <1>6
      <4> QED
        BY <1>1, <3>1, <4>1, <4>2
    <3>2. CASE b # T
      <4>1. procs'[b] = procs[b] /\ inbox'[b] = inbox[b]
        BY <1>3, <1>6, <3>2
      <4>2. procs[b].state # "up"
        BY <1>1, <3>2 DEF Runs!Bridges
      <4> QED
        BY <4>1, <4>2
    <3> QED
      BY <3>1, <3>2
  <2>3. ASSUME NEW b \in Runs!Bridges
        PROVE  /\ procs'[b].busy # None \/ procs'[b].joins # 0 => procs'[b].thread # 0
               /\ procs'[b].busy # None => procs'[b].busy = prompts'[procs'[b].thread].session
    <3>1. procs'[b].busy = procs[b].busy /\ procs'[b].joins = procs[b].joins /\ procs'[b].thread = procs[b].thread
      BY <1>6
    <3> QED
      BY <1>8, <3>1 DEF LinesParts, SentKept
  <2>4. ASSUME NEW b \in Runs!Bridges
        PROVE  ~crossed' /\ b # pool' => outbox'[b] = <<>>
    BY <1>1 DEF Runs!Bridges
  <2> QED
    BY <2>1, <2>2, <2>3, <2>4
<1> QED
  BY <1>3, <1>5, <1>7, <1>10, <1>11, <1>12

(* A record of a prompt that had not been sent is the only one of it.             *)
LEMMA OnceGrows ==
  ASSUME LedgerOnce, SentKept, NEW n, NEW l,
         DOMAIN ledger' = DOMAIN ledger \union {l},
         \A i \in DOMAIN ledger : ledger'[i] = ledger[i],
         l \notin DOMAIN ledger, ledger'[l].prompt = n, ledger'[l].session = prompts'[n].session,
         ~Runs!Sent(n), Runs!Sent(n)'
  PROVE  LedgerOnce'
<1>1. \A i \in DOMAIN ledger : /\ ledger'[i] = ledger[i] /\ Runs!Sent(ledger[i].prompt)
                             /\ ledger[i].session = prompts[ledger[i].prompt].session
  BY DEF LedgerOnce
<1>2. ASSUME NEW i \in DOMAIN ledger'
      PROVE  Runs!Sent(ledger[i].prompt)' /\ ledger'[i].session = prompts'[ledger'[i].prompt].session
  <2>1. CASE i = l
    BY <2>1 DEF Runs!Sent
  <2>2. CASE i \in DOMAIN ledger
    BY <1>1, <2>2 DEF SentKept, Runs!Sent
  <2> QED
    BY <1>2, <2>1, <2>2
<1>3. \A i, j \in DOMAIN ledger' : ledger'[i].prompt = ledger'[j].prompt => i = j
  BY <1>1 DEF LedgerOnce
<1> QED
  BY <1>2, <1>3 DEF LedgerOnce

(* The run starts, and its prompt is sent.                                        *)
LEMMA StartWhole ==
  ASSUME Whole, NEW n \in Runs!Prompts, Runs!Start(n)
  PROVE  Whole' /\ LedgerGrows
<1>1. /\ prompts \in [Runs!Prompts -> [session : Sessions, at : {"none", "verify", "done"}]]
      /\ LinesParts /\ LedgerWhole
  BY WholeParts
<1> PICK s \in Sessions : s = prompts[n].session
  BY <1>1
<1>2. /\ prompts[n].at = "verify" /\ prompts' = [prompts EXCEPT ![n].at = "done"]
      /\ running' = running \union {s}
      /\ crossed' = (crossed \/ s \in running \/ Runs!Cancelling(s) \/ Runs!Marked(s))
      /\ ledger' = Append(ledger, [session |-> s, prompt |-> n, outcome |-> "running"])
      /\ Runs!Sends([kind |-> "prompt", session |-> s, id |-> n])
      /\ UNCHANGED <<asked, outbox, threads, finished, runFaults>>
  BY DEF Runs!Start, Runs!Line
<1> DEFINE x == [kind |-> "prompt", session |-> s, id |-> n]
<1>0. Runs!Sends(x)
  BY <1>2
<1>3. x \in InRows
  BY <1>1 DEF InRows, Runs!Prompts
<1>4. SentKept /\ ~Runs!Sent(n) /\ Runs!Sent(n)' /\ prompts'[n].session = s
  BY <1>1, <1>2 DEF SentKept, Runs!Sent
<1>5. InLine(x)' /\ CallLine(x)'
  BY <1>4 DEF InLine, CallLine
<1>6. /\ LedgerWhole' /\ LedgerGrows /\ DOMAIN ledger' = DOMAIN ledger \union {Len(ledger) + 1}
      /\ \A i \in DOMAIN ledger : ledger'[i] = ledger[i]
      /\ ledger'[Len(ledger) + 1] = [session |-> s, prompt |-> n, outcome |-> "running"]
  BY <1>1, <1>2, RunBegins
<1>7. LedgerOnce'
  <2>1. Len(ledger) + 1 \notin DOMAIN ledger
    BY <1>1 DEF LedgerWhole, LedgerTyped
  <2> QED
    BY <1>1, <1>4, <1>6, <2>1, OnceGrows DEF LinesParts
<1> HIDE DEF x
<1>8. /\ pool' \in 0..MaxBridges
      /\ procs' \in [Runs!Bridges -> ProcRows]
      /\ inbox' \in [Runs!Bridges -> Seq(InRows)] /\ calls' \in [Runs!Bridges -> SUBSET InRows]
      /\ Runs!ProcsAreWhole' /\ Runs!LinesAreOfPrompts'
  BY <1>0, <1>2, <1>3, <1>4, <1>5, <1>7, SendsWhole
<1>9. Runs!TypeOK'
  <2>1. prompts' \in [Runs!Prompts -> [session : Sessions, at : {"none", "verify", "done"}]]
    BY <1>1, <1>2
  <2>2. ledger' \in Seq(Records) /\ running' \subseteq Sessions
    BY <1>6 DEF LedgerWhole, LedgerTyped
  <2>3. crossed' \in BOOLEAN
    BY <1>2
  <2> QED
    BY <1>2, <1>8, <2>1, <2>2, <2>3 DEF Whole, Runs!TypeOK, InRows, Records, Outcomes, ProcRows
<1> QED
  BY <1>6, <1>8, <1>9 DEF Whole

(* A cancel is asked for, and sent.                                               *)
LEMMA CancelWhole ==
  ASSUME Whole, NEW s \in Sessions, Runs!Cancel(s)
  PROVE  Whole' /\ LedgerGrows
<1>1. LinesParts /\ LedgerWhole /\ asked \in 0..MaxCancels /\ MaxCancels \in Nat
  BY WholeParts, RunsAssumption
<1>2. /\ asked < MaxCancels /\ asked' = asked + 1
      /\ Runs!Sends([kind |-> "cancel", session |-> s, id |-> asked + 1])
      /\ UNCHANGED <<prompts, running, ledger, outbox, threads, finished, crossed, runFaults>>
  BY DEF Runs!Cancel, Runs!Line
<1> PICK x \in InRows : x = [kind |-> "cancel", session |-> s, id |-> asked + 1]
  <2>1. asked + 1 \in Nat
    BY <1>1
  <2> QED
    BY <2>1 DEF InRows
<1>3. x \in InRows /\ asked' \in 1..MaxCancels /\ 1..asked \subseteq 1..asked'
  BY <1>1, <1>2
<1>4. SentKept
  BY <1>2, <1>3 DEF SentKept, Runs!Sent
<1>5. InLine(x)' /\ CallLine(x)'
  <2>1. x.kind = "cancel" /\ x.id = asked'
    BY <1>2
  <2>2. asked' \in 1..asked'
    BY <1>3, <1>1
  <2> QED
    BY <1>3, <2>1, <2>2 DEF InLine, CallLine
<1>6. LedgerWhole' /\ LedgerGrows
  BY <1>1, <1>2, LedgerRests
<1>7. LedgerOnce'
  BY <1>1, <1>2, <1>4, <1>6, OnceStays DEF LinesParts
<1>8. /\ pool' \in 0..MaxBridges
      /\ procs' \in [Runs!Bridges -> ProcRows]
      /\ inbox' \in [Runs!Bridges -> Seq(InRows)] /\ calls' \in [Runs!Bridges -> SUBSET InRows]
      /\ Runs!ProcsAreWhole' /\ Runs!LinesAreOfPrompts'
  BY <1>2, <1>3, <1>4, <1>5, <1>7, SendsWhole
<1>9. Runs!TypeOK'
  <2>1. asked' \in 0..MaxCancels
    BY <1>1, <1>2
  <2> QED
    BY <1>2, <1>8, <2>1 DEF Whole, Runs!TypeOK, InRows, ProcRows
<1> QED
  BY <1>6, <1>8, <1>9 DEF Whole

(* A process cannot be started: the run fails as it begins.                       *)
LEMMA StartFailsWhole ==
  ASSUME Whole, NEW n \in Runs!Prompts, Runs!StartFails(n)
  PROVE  Whole' /\ LedgerGrows
<1>1. /\ prompts \in [Runs!Prompts -> [session : Sessions, at : {"none", "verify", "done"}]]
      /\ LinesParts /\ LedgerWhole
  BY WholeParts
<1> PICK s \in Sessions : s = prompts[n].session
  BY <1>1
<1>2. /\ prompts[n].at = "verify" /\ prompts' = [prompts EXCEPT ![n].at = "done"]
      /\ running' = running \ {s} /\ crossed' = (crossed \/ s \in running)
      /\ ledger' = Append(ledger, [session |-> s, prompt |-> n, outcome |-> "failed"])
      /\ runFaults' \in 0..MaxFaults
      /\ UNCHANGED <<asked, calls, pool, procs, inbox, outbox, threads, finished>>
  BY RunsAssumption DEF Runs!StartFails, Runs!Fault, Whole, Runs!TypeOK
<1>4. SentKept /\ ~Runs!Sent(n) /\ Runs!Sent(n)' /\ prompts'[n].session = s
  BY <1>1, <1>2 DEF SentKept, Runs!Sent
<1>6. /\ LedgerWhole' /\ LedgerGrows /\ DOMAIN ledger' = DOMAIN ledger \union {Len(ledger) + 1}
      /\ \A i \in DOMAIN ledger : ledger'[i] = ledger[i]
      /\ ledger'[Len(ledger) + 1] = [session |-> s, prompt |-> n, outcome |-> "failed"]
  BY <1>1, <1>2, RunBegins
<1>7. LedgerOnce'
  <2>1. Len(ledger) + 1 \notin DOMAIN ledger
    BY <1>1 DEF LedgerWhole, LedgerTyped
  <2> QED
    BY <1>1, <1>4, <1>6, <2>1, OnceGrows DEF LinesParts
<1>8. OldOrGood
  BY <1>2, <1>4, <1>7 DEF OldOrGood
<1>9. Runs!ProcsAreWhole'
  BY <1>1, <1>2, <1>4 DEF Whole, Runs!ProcsAreWhole, LinesParts, SentKept
<1>10. Runs!TypeOK'
  <2>1. prompts' \in [Runs!Prompts -> [session : Sessions, at : {"none", "verify", "done"}]]
    BY <1>1, <1>2
  <2>2. ledger' \in Seq(Records) /\ running' \subseteq Sessions
    BY <1>6 DEF LedgerWhole, LedgerTyped
  <2>3. crossed' \in BOOLEAN
    BY <1>2
  <2> QED
    BY <1>2, <2>1, <2>2, <2>3 DEF Whole, Runs!TypeOK, Records, Outcomes
<1> QED
  BY <1>6, <1>8, <1>9, <1>10, LinesMove DEF Whole

(* The rows a step writes for a process are rows.                                 *)
LEMMA EditedRows ==
  ASSUME NEW p \in ProcRows
  PROVE  /\ [p EXCEPT !.state = "dying", !.joins = 0] \in ProcRows
         /\ [p EXCEPT !.state = "dying", !.joins = 0, !.owes = 0] \in ProcRows
         /\ \A s \in Sessions \cup {None} : [p EXCEPT !.busy = s] \in ProcRows
         /\ \A s \in Sessions : \A n \in Runs!Prompts :
              [p EXCEPT !.busy = s, !.thread = n, !.owes = n] \in ProcRows
         /\ \A s \in Sessions : \A c \in 0..MaxCancels :
              [p EXCEPT !.cancelled = @ \cup {s}, !.joins = c] \in ProcRows
         /\ \A s \in Sessions : [p EXCEPT !.cancelled = @ \cup {s}, !.broken = TRUE] \in ProcRows
         /\ \A s \in Sessions : \A r \in Sessions \cup {None} :
              [p EXCEPT !.busy = r, !.cancelled = @ \ {s}] \in ProcRows
         /\ [p EXCEPT !.joins = 0] \in ProcRows
         /\ [p EXCEPT !.owes = 0] \in ProcRows
<1>1. 0 \in 0..MaxCancels /\ 0 \in 0..MaxPrompts
  BY RunsAssumption
<1>2. /\ [p EXCEPT !.state = "dying", !.joins = 0] \in ProcRows
      /\ [p EXCEPT !.state = "dying", !.joins = 0, !.owes = 0] \in ProcRows
  BY <1>1 DEF ProcRows
<1>3. \A s \in Sessions \cup {None} : [p EXCEPT !.busy = s] \in ProcRows
  BY DEF ProcRows
<1>4. \A s \in Sessions : \A n \in Runs!Prompts :
        [p EXCEPT !.busy = s, !.thread = n, !.owes = n] \in ProcRows
  <2>1. \A n \in Runs!Prompts : n \in 0..MaxPrompts
    BY RunsAssumption DEF Runs!Prompts
  <2> QED
    BY <2>1 DEF ProcRows
<1>5. \A s \in Sessions : \A c \in 0..MaxCancels :
        [p EXCEPT !.cancelled = @ \cup {s}, !.joins = c] \in ProcRows
  BY DEF ProcRows
<1>8. \A s \in Sessions : [p EXCEPT !.cancelled = @ \cup {s}, !.broken = TRUE] \in ProcRows
  BY DEF ProcRows
<1>6. \A s \in Sessions : \A r \in Sessions \cup {None} :
        [p EXCEPT !.busy = r, !.cancelled = @ \ {s}] \in ProcRows
  BY DEF ProcRows
<1>7. [p EXCEPT !.joins = 0] \in ProcRows /\ [p EXCEPT !.owes = 0] \in ProcRows
  BY <1>1 DEF ProcRows
<1> QED
  BY <1>2, <1>3, <1>4, <1>5, <1>6, <1>7, <1>8

(* An outcome leaves the ledger in order, a record per prompt.                    *)
LEMMA OutcomeWhole ==
  ASSUME Whole, NEW s \in Sessions, NEW o \in Outcomes \ {"running"}, Runs!Outcome(s, o), SentKept,
         crossed => crossed'
  PROVE  /\ LedgerWhole' /\ LedgerGrows /\ LedgerOnce' /\ Closing({s}, o)
         /\ ledger' \in Seq(Records) /\ running' \subseteq Sessions
<1>1. LinesParts /\ LedgerWhole
  BY WholeParts
<1>2. Closing({s}, o)
  BY <1>1, OutcomeCloses
<1>3. LedgerWhole' /\ LedgerGrows /\ DOMAIN ledger' = DOMAIN ledger
  BY <1>1, <1>2, ClosingKeeps
<1>4. LedgerOnce'
  BY <1>1, <1>3, OnceStays DEF LinesParts
<1> QED
  BY <1>2, <1>3, <1>4 DEF LedgerWhole, LedgerTyped

(* A process that is told to stop has no thread, and waits for none.              *)
LEMMA KilledWhole ==
  ASSUME Whole, NEW b \in Runs!Bridges, Runs!Killed(b), SentKept, LedgerOnce',
         UNCHANGED <<inbox, outbox>>, pool' = pool \/ (b = pool /\ pool' = 0),
         \A c \in Runs!Bridges : calls'[c] \subseteq calls[c]
  PROVE  /\ procs' \in [Runs!Bridges -> ProcRows]
         /\ threads' \in [Runs!Bridges -> SUBSET ThreadRows]
         /\ Runs!ProcsAreWhole' /\ Runs!LinesAreOfPrompts' /\ crossed' \in BOOLEAN
<1>1. LinesParts /\ procs \in [Runs!Bridges -> ProcRows] /\ threads \in [Runs!Bridges -> SUBSET ThreadRows]
  BY WholeParts
<1>2. MaxCancels \in Nat
  BY RunsAssumption
<1>3. /\ procs' = [procs EXCEPT ![b].state = "dying", ![b].joins = 0, ![b].owes = 0]
      /\ threads' = [threads EXCEPT ![b] = {}] /\ crossed' = (crossed \/ outbox[b] # <<>> \/ pool # b)
  BY DEF Runs!Killed
<1>9. procs[b] \in ProcRows /\ procs'[b] = [procs[b] EXCEPT !.state = "dying", !.joins = 0, !.owes = 0]
  BY <1>1, <1>3
<1>4. procs' \in [Runs!Bridges -> ProcRows]
  <2>1. procs'[b] \in ProcRows
    BY <1>9, EditedRows
  <2>2. DOMAIN procs' = Runs!Bridges /\ \A c \in Runs!Bridges \ {b} : procs'[c] = procs[c]
    BY <1>1, <1>3
  <2>3. procs' = [c \in Runs!Bridges |-> procs'[c]]
    BY <1>1, <1>3
  <2> QED
    BY <1>1, <2>1, <2>2, <2>3
<1>5. threads' \in [Runs!Bridges -> SUBSET ThreadRows] /\ crossed' \in BOOLEAN
  BY <1>1, <1>3
<1>6. /\ \A c \in Runs!Bridges \ {b} : procs'[c] = procs[c] /\ threads'[c] = threads[c]
      /\ procs'[b].state = "dying" /\ procs'[b].joins = 0 /\ procs'[b].busy = procs[b].busy
      /\ procs'[b].thread = procs[b].thread /\ threads'[b] = {} /\ procs'[b].owes = 0
  <2>1. \A c \in Runs!Bridges \ {b} : procs'[c] = procs[c] /\ threads'[c] = threads[c]
    BY <1>1, <1>3
  <2>2. threads'[b] = {}
    BY <1>1, <1>3
  <2>3. /\ procs'[b].state = "dying" /\ procs'[b].joins = 0 /\ procs'[b].busy = procs[b].busy
        /\ procs'[b].thread = procs[b].thread /\ procs'[b].owes = 0
    BY <1>9 DEF ProcRows
  <2> QED
    BY <2>1, <2>2, <2>3
<1>7. OldOrGood
  <2>1. \A c \in Runs!Bridges : \A t \in threads'[c] : t \in threads[c]
    BY <1>6
  <2>2. \A c \in Runs!Bridges : procs'[c].thread = procs[c].thread
    BY <1>6
  <2>3. \A c \in Runs!Bridges : \A x \in calls'[c] : x \in calls[c]
    OBVIOUS
  <2> QED
    BY <2>1, <2>2, <2>3 DEF OldOrGood
<1>8. Runs!ProcsAreWhole'
  <2> USE DEF Whole, Runs!ProcsAreWhole
  <2>1. pool' # 0 => procs'[pool'].state \in {"up", "dying"}
    <3>1. ASSUME pool' # 0 PROVE pool' = pool /\ pool \in Runs!Bridges
      BY <3>1 DEF Runs!TypeOK, Runs!Bridges
    <3>2. CASE pool = b
      BY <1>6, <3>1, <3>2
    <3>3. CASE pool # b
      BY <1>6, <3>1, <3>3
    <3> QED
      BY <3>2, <3>3
  <2>2. ASSUME NEW c \in Runs!Bridges
        PROVE  /\ procs'[c].state = "up" => c = pool'
               /\ procs'[c].state # "up" => threads'[c] = {} /\ procs'[c].joins = 0 /\ procs'[c].owes = 0
               /\ procs'[c].state = "unborn" => inbox'[c] = <<>> /\ outbox'[c] = <<>>
    BY <1>6
  <2>3. ASSUME NEW c \in Runs!Bridges
        PROVE  /\ procs'[c].busy # None \/ procs'[c].joins # 0 => procs'[c].thread # 0
               /\ procs'[c].busy # None => procs'[c].busy = prompts'[procs'[c].thread].session
    <3>1. /\ procs'[c].busy = procs[c].busy /\ procs'[c].thread = procs[c].thread
          /\ procs'[c].joins # 0 => procs[c].joins # 0
      BY <1>6
    <3> QED
      BY <1>1, <3>1 DEF LinesParts, SentKept
  <2>4. ASSUME NEW c \in Runs!Bridges
        PROVE  ~crossed' /\ c # pool' => outbox'[c] = <<>>
    BY <1>3
  <2> QED
    BY <2>1, <2>2, <2>3, <2>4
<1> QED
  BY <1>4, <1>5, <1>7, <1>8, LinesMove DEF Whole

(* The workspace was replaced: its process is told to stop, and the run fails.    *)
LEMMA ReplacedWhole ==
  ASSUME Whole, NEW n \in Runs!Prompts, Runs!Replaced(n)
  PROVE  Whole' /\ LedgerGrows
<1>1. /\ prompts \in [Runs!Prompts -> [session : Sessions, at : {"none", "verify", "done"}]]
      /\ LinesParts /\ LedgerWhole
  BY WholeParts
<1> PICK s \in Sessions : s = prompts[n].session
  BY <1>1
<1>2. /\ prompts[n].at = "verify" /\ prompts' = [prompts EXCEPT ![n].at = "done"]
      /\ Runs!Outcome(s, "failed") /\ pool' = 0
      /\ IF pool = 0 THEN UNCHANGED <<procs, threads, crossed>> ELSE Runs!Killed(pool)
      /\ runFaults' \in 0..MaxFaults
      /\ UNCHANGED <<asked, calls, inbox, outbox, finished>>
  BY RunsAssumption DEF Runs!Replaced, Runs!Fault, Whole, Runs!TypeOK
<1>3. SentKept
  BY <1>1, <1>2 DEF SentKept, Runs!Sent
<1>4. crossed => crossed'
  BY <1>2 DEF Runs!Killed
<1>5. /\ LedgerWhole' /\ LedgerGrows /\ LedgerOnce'
      /\ ledger' \in Seq(Records) /\ running' \subseteq Sessions
  BY <1>2, <1>3, <1>4, OutcomeWhole DEF Outcomes
<1>6. /\ procs' \in [Runs!Bridges -> ProcRows]
      /\ threads' \in [Runs!Bridges -> SUBSET ThreadRows]
      /\ Runs!ProcsAreWhole' /\ Runs!LinesAreOfPrompts' /\ crossed' \in BOOLEAN
  <2>1. CASE pool = 0
    <3>1. OldOrGood
      BY <1>2, <1>3, <1>5, <2>1 DEF OldOrGood
    <3>2. Runs!ProcsAreWhole'
      BY <1>1, <1>2, <1>3, <2>1 DEF Whole, Runs!ProcsAreWhole, LinesParts, SentKept
    <3> QED
      BY <1>2, <2>1, <3>1, <3>2, LinesMove DEF Whole, Runs!TypeOK, ProcRows, ThreadRows
  <2>2. CASE pool # 0
    <3> PICK b \in Runs!Bridges : b = pool
      BY <2>2 DEF Whole, Runs!TypeOK, Runs!Bridges
    <3> QED
      BY <1>2, <1>3, <1>5, <2>2, KilledWhole
  <2> QED
    BY <2>1, <2>2
<1>7. Runs!TypeOK'
  <2>1. prompts' \in [Runs!Prompts -> [session : Sessions, at : {"none", "verify", "done"}]]
    BY <1>1, <1>2
  <2> QED
    <3>1. pool' \in 0..MaxBridges
      BY <1>2, RunsAssumption
    <3>2. UNCHANGED <<asked, calls, inbox, outbox, finished>> /\ runFaults' \in 0..MaxFaults
      BY <1>2
    <3> QED
      BY <1>5, <1>6, <2>1, <3>1, <3>2 DEF Whole, Runs!TypeOK, Records, Outcomes, ProcRows, ThreadRows
<1> QED
  BY <1>5, <1>6, <1>7 DEF Whole

(* A request waited too long: its process is told to stop, and the run fails.     *)
LEMMA TimesOutWhole ==
  ASSUME Whole, NEW b \in Runs!Bridges, NEW x \in calls[b], Runs!TimesOut(b, x)
  PROVE  Whole' /\ LedgerGrows
<1>1. LinesParts /\ LedgerWhole /\ calls \in [Runs!Bridges -> SUBSET InRows]
  BY WholeParts
<1>2. /\ Runs!Outcome(x.session, "failed") /\ pool' = pool /\ Runs!Killed(b)
      /\ calls' = [calls EXCEPT ![b] = @ \ {x}]
      /\ runFaults' \in 0..MaxFaults
      /\ UNCHANGED <<prompts, asked, pool, inbox, outbox, finished>>
  BY RunsAssumption DEF Runs!TimesOut, Runs!Fault, Whole, Runs!TypeOK
<1>3. /\ calls' \in [Runs!Bridges -> SUBSET InRows] /\ x.session \in Sessions
      /\ \A c \in Runs!Bridges : calls'[c] \subseteq calls[c]
  BY <1>1, <1>2 DEF InRows
<1>4. SentKept /\ (crossed => crossed')
  BY <1>2 DEF Runs!Killed, SentKept, Runs!Sent
<1>5. /\ LedgerWhole' /\ LedgerGrows /\ LedgerOnce'
      /\ ledger' \in Seq(Records) /\ running' \subseteq Sessions
  BY <1>2, <1>3, <1>4, OutcomeWhole DEF Outcomes
<1>6. /\ procs' \in [Runs!Bridges -> ProcRows]
      /\ threads' \in [Runs!Bridges -> SUBSET ThreadRows]
      /\ Runs!ProcsAreWhole' /\ Runs!LinesAreOfPrompts' /\ crossed' \in BOOLEAN
  BY <1>2, <1>3, <1>4, <1>5, KilledWhole
<1>7. Runs!TypeOK'
  BY <1>2, <1>3, <1>5, <1>6 DEF Whole, Runs!TypeOK, Records, Outcomes, ProcRows, ThreadRows, InRows
<1> QED
  BY <1>5, <1>6, <1>7 DEF Whole

(* There is nobody to ask to cancel a run, which fails.                           *)
LEMMA CancelFailsWhole ==
  ASSUME Whole, NEW s \in Sessions, Runs!CancelFails(s)
  PROVE  Whole' /\ LedgerGrows /\ SentKept
<1>1. LinesParts /\ LedgerWhole /\ asked \in 0..MaxCancels /\ MaxCancels \in Nat
  BY WholeParts, RunsAssumption
<1>2. /\ asked < MaxCancels /\ asked' = asked + 1 /\ Runs!Outcome(s, "failed")
      /\ runFaults' \in 0..MaxFaults
      /\ UNCHANGED <<prompts, calls, pool, procs, inbox, outbox, threads, finished, crossed>>
  BY RunsAssumption DEF Runs!CancelFails, Runs!Fault, Whole, Runs!TypeOK
<1>3. asked' \in 0..MaxCancels /\ 1..asked \subseteq 1..asked'
  BY <1>1, <1>2
<1>4. SentKept
  BY <1>2, <1>3 DEF SentKept, Runs!Sent
<1>5. /\ LedgerWhole' /\ LedgerGrows /\ LedgerOnce'
      /\ ledger' \in Seq(Records) /\ running' \subseteq Sessions
  BY <1>2, <1>4, OutcomeWhole DEF Outcomes
<1>6. OldOrGood
  BY <1>2, <1>4, <1>5 DEF OldOrGood
<1>7. Runs!ProcsAreWhole'
  BY <1>2 DEF Whole, Runs!ProcsAreWhole
<1>8. Runs!TypeOK'
  BY <1>2, <1>3, <1>5 DEF Whole, Runs!TypeOK, Records, Outcomes
<1> QED
  BY <1>4, <1>5, <1>6, <1>7, <1>8, LinesMove DEF Whole

\* What a process that is up may do to itself, its lines and its threads.
ProcessStep(b, p, i, o, T) ==
  /\ procs[b].state = "up"
  /\ procs' = [procs EXCEPT ![b] = p] /\ inbox' = [inbox EXCEPT ![b] = i]
  /\ outbox' = [outbox EXCEPT ![b] = o] /\ threads' = [threads EXCEPT ![b] = T]
  /\ UNCHANGED <<prompts, asked, calls, running, ledger, pool>> /\ (crossed => crossed') /\ crossed' \in BOOLEAN
  /\ finished \subseteq finished' /\ finished' \subseteq Runs!Prompts /\ runFaults' \in 0..MaxFaults
  /\ i = inbox[b] \/ (inbox[b] # <<>> /\ i = Tail(inbox[b]))
  /\ \A k \in DOMAIN o : (\E j \in DOMAIN outbox[b] : o[k] = outbox[b][j]) \/ OutLine(o[k])'
  /\ \A t \in T : t \in threads[b] \/ ThreadOK(t)'
  /\ p.thread = procs[b].thread \/ Runs!Sent(p.thread)
  /\ p.state \in {"up", "dying"} /\ (p.state = "dying" => T = {} /\ p.joins = 0 /\ p.owes = 0)
  /\ p.busy # None \/ p.joins # 0 => p.thread # 0
  /\ p.busy # None => p.busy = prompts[p.thread].session

(* After it the whole is whole.                                                   *)
LEMMA ProcessWhole ==
  ASSUME Whole, NEW b \in Runs!Bridges,
         NEW p \in ProcRows, NEW i \in Seq(InRows), NEW o \in Seq(OutRows), NEW T \in SUBSET ThreadRows,
         ProcessStep(b, p, i, o, T)
  PROVE  Whole' /\ LedgerGrows /\ SentKept
<1> USE DEF ProcessStep
<1>1. /\ LinesParts /\ LedgerWhole /\ procs \in [Runs!Bridges -> ProcRows]
      /\ threads \in [Runs!Bridges -> SUBSET ThreadRows]
      /\ inbox \in [Runs!Bridges -> Seq(InRows)] /\ outbox \in [Runs!Bridges -> Seq(OutRows)]
  BY WholeParts DEF Whole, Runs!TypeOK, InRows, OutRows
<1>2. /\ procs' \in [Runs!Bridges -> ProcRows] /\ threads' \in [Runs!Bridges -> SUBSET ThreadRows]
      /\ inbox' \in [Runs!Bridges -> Seq(InRows)] /\ outbox' \in [Runs!Bridges -> Seq(OutRows)]
  BY <1>1
<1>3. /\ procs'[b] = p /\ inbox'[b] = i /\ outbox'[b] = o /\ threads'[b] = T
      /\ \A c \in Runs!Bridges \ {b} : /\ procs'[c] = procs[c] /\ inbox'[c] = inbox[c]
                                       /\ outbox'[c] = outbox[c] /\ threads'[c] = threads[c]
  BY <1>1
<1>4. Runs!TypeOK'
  BY <1>2 DEF Whole, Runs!TypeOK, ProcRows, ThreadRows, InRows, OutRows
<1>5. SentKept
  BY DEF SentKept, Runs!Sent
<1>6. LedgerWhole' /\ LedgerGrows
  BY <1>1, LedgerRests
<1>7. OldOrGood
  <2>1. \A k \in DOMAIN i : \E j \in DOMAIN inbox[b] : i[k] = inbox[b][j]
    <3>1. CASE i = inbox[b]
      BY <3>1
    <3>2. CASE inbox[b] # <<>> /\ i = Tail(inbox[b])
      <4>1. inbox[b] \in Seq(InRows)
        BY <1>1
      <4> QED
        BY <3>2, <4>1, Tails
    <3> QED
      BY <3>1, <3>2
  <2>2. \A c \in Runs!Bridges : \A k \in DOMAIN inbox'[c] :
          (\E j \in DOMAIN inbox[c] : inbox'[c][k] = inbox[c][j]) \/ InLine(inbox[c][k])'
    BY <1>3, <2>1
  <2>3. ASSUME NEW k \in DOMAIN o, OutLine(o[k])' PROVE OutLine(outbox[b][k])'
    BY <1>3, <2>3 DEF OutLine
  <2>4. \A c \in Runs!Bridges : \A k \in DOMAIN outbox'[c] :
          (\E j \in DOMAIN outbox[c] : outbox'[c][k] = outbox[c][j]) \/ OutLine(outbox[c][k])'
    <3>1. \A k \in DOMAIN outbox'[b] :
          (\E j \in DOMAIN outbox[b] : outbox'[b][k] = outbox[b][j]) \/ OutLine(outbox[b][k])'
      BY <1>3, <2>3
    <3> QED
      BY <1>3, <3>1
  <2>5. \A c \in Runs!Bridges : \A t \in threads'[c] : t \in threads[c] \/ ThreadOK(t)'
    BY <1>3
  <2>6. ASSUME NEW c \in Runs!Bridges
        PROVE  procs'[c].thread \in {0, procs[c].thread} \/ Runs!Sent(procs[c].thread)'
    <3>1. CASE c = b
      BY <1>3, <3>1 DEF Runs!Sent
    <3>2. CASE c # b
      BY <1>3, <3>2
    <3> QED
      BY <3>1, <3>2
  <2>7. LedgerOnce'
    BY <1>1, <1>5, <1>6, OnceStays DEF LinesParts
  <2> QED
    BY <1>5, <2>2, <2>4, <2>5, <2>6, <2>7 DEF OldOrGood
<1>8. Runs!ProcsAreWhole'
  <2>1. b = pool
    BY DEF Whole, Runs!ProcsAreWhole
  <2>2. p.state # "up" => p.state = "dying"
    OBVIOUS
  <2> QED
    BY <1>3, <2>1, <2>2 DEF Whole, Runs!ProcsAreWhole
<1> QED
  BY <1>4, <1>5, <1>6, <1>7, <1>8, LinesMove DEF Whole

(* What is known of the process that moves.                                       *)
LEMMA ProcessParts ==
  ASSUME Whole, NEW b \in Runs!Bridges
  PROVE  /\ procs[b] \in ProcRows /\ inbox[b] \in Seq(InRows) /\ outbox[b] \in Seq(OutRows)
         /\ threads[b] \in SUBSET ThreadRows
         /\ procs = [procs EXCEPT ![b] = procs[b]] /\ inbox = [inbox EXCEPT ![b] = inbox[b]]
         /\ outbox = [outbox EXCEPT ![b] = outbox[b]] /\ threads = [threads EXCEPT ![b] = threads[b]]
         /\ procs[b].busy # None \/ procs[b].joins # 0 => procs[b].thread # 0
         /\ procs[b].busy # None => procs[b].busy = prompts[procs[b].thread].session
         /\ procs[b].thread # 0 => /\ Runs!Sent(procs[b].thread) /\ procs[b].thread \in Runs!Prompts
                                   /\ prompts[procs[b].thread].session \in Sessions
         /\ \A t \in threads[b] : ThreadOK(t) /\ procs[b].state = "up" /\ t \in ThreadRows
         /\ finished \subseteq Runs!Prompts /\ runFaults \in 0..MaxFaults
         /\ procs[b].state = "up" => b = pool
         /\ crossed \in BOOLEAN
         /\ procs[b].owes # 0 => procs[b].owes \in Runs!Prompts /\ prompts[procs[b].owes].session \in Sessions
<1>1. /\ LinesParts /\ procs \in [Runs!Bridges -> ProcRows]
      /\ threads \in [Runs!Bridges -> SUBSET ThreadRows]
      /\ inbox \in [Runs!Bridges -> Seq(InRows)] /\ outbox \in [Runs!Bridges -> Seq(OutRows)]
      /\ finished \subseteq Runs!Prompts /\ runFaults \in 0..MaxFaults
      /\ prompts \in [Runs!Prompts -> [session : Sessions, at : {"none", "verify", "done"}]]
  BY WholeParts DEF Whole, Runs!TypeOK, InRows, OutRows
<1>2. /\ procs[b] \in ProcRows /\ inbox[b] \in Seq(InRows) /\ outbox[b] \in Seq(OutRows)
      /\ threads[b] \in SUBSET ThreadRows
      /\ procs = [procs EXCEPT ![b] = procs[b]] /\ inbox = [inbox EXCEPT ![b] = inbox[b]]
      /\ outbox = [outbox EXCEPT ![b] = outbox[b]] /\ threads = [threads EXCEPT ![b] = threads[b]]
  BY <1>1
<1>3. /\ procs[b].busy # None \/ procs[b].joins # 0 => procs[b].thread # 0
      /\ procs[b].busy # None => procs[b].busy = prompts[procs[b].thread].session
      /\ procs[b].state = "up" => b = pool
  BY DEF Whole, Runs!ProcsAreWhole
<1>4. procs[b].thread # 0 => /\ Runs!Sent(procs[b].thread) /\ procs[b].thread \in Runs!Prompts
                             /\ prompts[procs[b].thread].session \in Sessions
  BY <1>1 DEF LinesParts, Runs!Sent
<1>5. \A t \in threads[b] : ThreadOK(t) /\ procs[b].state = "up" /\ t \in ThreadRows
  <2>1. \A t \in threads[b] : procs[b].state = "up"
    BY DEF Whole, Runs!ProcsAreWhole
  <2> QED
    BY <1>1, <2>1 DEF LinesParts
<1>6. procs[b].owes # 0 => procs[b].owes \in Runs!Prompts /\ prompts[procs[b].owes].session \in Sessions
  <2>1. procs[b].owes \in 0..MaxPrompts
    BY <1>1 DEF ProcRows
  <2> QED
    BY <1>1, <2>1, RunsAssumption DEF Runs!Prompts
<1>7. crossed \in BOOLEAN
  BY DEF Whole, Runs!TypeOK
<1> QED
  BY <1>1, <1>2, <1>3, <1>4, <1>5, <1>6, <1>7

\* An answer is written to the end of the process's lines.
Wire(kind_, s, n) == [kind |-> kind_, session |-> s, id |-> n]

(* A prompt is taken: it gets a thread, or is refused.                            *)
LEMMA TakePromptWhole ==
  ASSUME Whole, NEW b \in Runs!Bridges, Runs!TakePrompt(b)
  PROVE  Whole' /\ LedgerGrows /\ SentKept
<1> PICK x \in InRows : x = inbox[b][1] /\ x = Head(inbox[b])
  BY ProcessParts, Tails DEF Runs!TakePrompt
<1>1. /\ procs[b].state = "up" /\ procs[b].joins = 0 /\ procs[b].owes = 0 /\ inbox[b] # <<>> /\ x.kind = "prompt"
      /\ inbox' = [inbox EXCEPT ![b] = Tail(inbox[b])]
      /\ UNCHANGED <<prompts, asked, calls, running, ledger, pool, finished, crossed, runFaults>>
  BY DEF Runs!TakePrompt, Runs!Idle
<1>2. Runs!Sent(x.id) /\ x.session = prompts[x.id].session /\ x.id \in Runs!Prompts /\ x.session \in Sessions
  BY <1>1, WholeParts, ProcessParts, Tails DEF LinesParts, InLine, Runs!Sent, InRows
<1>3. Tail(inbox[b]) \in Seq(InRows) /\ finished \subseteq Runs!Prompts /\ runFaults \in 0..MaxFaults
  BY <1>1, ProcessParts, Tails
<1> PICK i \in Seq(InRows) : i = Tail(inbox[b])
  BY <1>3
<1>4. CASE procs[b].busy = None
  <2> DEFINE t == [prompt |-> x.id, session |-> x.session, at |-> "run"]
  <2>1. /\ procs' = [procs EXCEPT ![b].busy = x.session, ![b].thread = x.id, ![b].owes = x.id]
        /\ threads' = [threads EXCEPT ![b] = @ \cup {t}]
        /\ outbox' = outbox
    BY <1>4 DEF Runs!TakePrompt
  <2>2. t \in ThreadRows /\ ThreadOK(t)'
    BY <1>1, <1>2 DEF ThreadOK, ThreadRows, InRows, Runs!Sent, Runs!Prompts
  <2> HIDE DEF t
  <2> PICK p \in ProcRows : p = [procs[b] EXCEPT !.busy = x.session, !.thread = x.id, !.owes = x.id]
    BY <1>2, ProcessParts, EditedRows
  <2> PICK o \in Seq(OutRows) : o = outbox[b]
    BY ProcessParts
  <2> PICK T \in SUBSET ThreadRows : T = threads[b] \cup {t}
    BY <2>2, ProcessParts
  <2>3. /\ procs' = [procs EXCEPT ![b] = p] /\ outbox' = [outbox EXCEPT ![b] = o]
        /\ threads' = [threads EXCEPT ![b] = T] /\ inbox' = [inbox EXCEPT ![b] = i]
    BY <1>1, <2>1, ProcessParts
  <2>4. p.busy = x.session /\ p.thread = x.id /\ p.state = "up" /\ p.joins = 0 /\ x.id # 0
    BY <1>1, <1>2, ProcessParts DEF ProcRows, Runs!Prompts
  <2>5. \A k \in DOMAIN o : (\E j \in DOMAIN outbox[b] : o[k] = outbox[b][j]) \/ OutLine(o[k])'
    OBVIOUS
  <2> QED
    <3>1. \A u \in T : u \in threads[b] \/ ThreadOK(u)'
      BY <2>2
    <3>2. /\ p.thread = procs[b].thread \/ Runs!Sent(p.thread)
          /\ p.state \in {"up", "dying"}
          /\ p.state = "dying" => T = {} /\ p.joins = 0 /\ p.owes = 0
          /\ p.busy # None \/ p.joins # 0 => p.thread # 0
          /\ p.busy # None => p.busy = prompts[p.thread].session
      BY <1>2, <2>4
    <3>3. /\ finished \subseteq finished' /\ finished' \subseteq Runs!Prompts /\ runFaults' \in 0..MaxFaults
          /\ i = inbox[b] \/ (inbox[b] # <<>> /\ i = Tail(inbox[b]))
      BY <1>1, <1>3
    <3>4. ProcessStep(b, p, i, o, T)
      BY <1>1, <2>3, <2>5, <3>1, <3>2, <3>3, ProcessParts DEF ProcessStep
    <3> QED
      BY <3>4, ProcessWhole
<1>5. CASE procs[b].busy # None
  <2> DEFINE y == Wire("refused", x.session, x.id)
  <2>1. procs' = procs /\ threads' = threads /\ outbox' = [outbox EXCEPT ![b] = Append(@, y)]
    BY <1>5 DEF Runs!TakePrompt, Runs!Writes, Wire, Runs!Line
  <2>2. y \in OutRows /\ OutLine(y)'
    BY <1>1, <1>2 DEF Wire, OutRows, OutLine, InRows, Runs!Answers, Runs!Prompts
  <2> HIDE DEF y
  <2> PICK p \in ProcRows : p = procs[b]
    BY ProcessParts
  <2> PICK o \in Seq(OutRows) : o = Append(outbox[b], y)
    BY <2>2, ProcessParts, Appends
  <2> PICK T \in SUBSET ThreadRows : T = threads[b]
    BY ProcessParts
  <2>3. /\ procs' = [procs EXCEPT ![b] = p] /\ outbox' = [outbox EXCEPT ![b] = o]
        /\ threads' = [threads EXCEPT ![b] = T] /\ inbox' = [inbox EXCEPT ![b] = i]
    BY <1>1, <2>1, ProcessParts
  <2>5. \A k \in DOMAIN o : (\E j \in DOMAIN outbox[b] : o[k] = outbox[b][j]) \/ OutLine(o[k])'
    BY <2>2, ProcessParts, Appends
  <2> QED
    <3>1. \A u \in T : u \in threads[b] \/ ThreadOK(u)'
      OBVIOUS
    <3>2. /\ p.thread = procs[b].thread \/ Runs!Sent(p.thread)
          /\ p.state \in {"up", "dying"}
          /\ p.state = "dying" => T = {} /\ p.joins = 0 /\ p.owes = 0
          /\ p.busy # None \/ p.joins # 0 => p.thread # 0
          /\ p.busy # None => p.busy = prompts[p.thread].session
      BY <1>1, ProcessParts
    <3>3. /\ finished \subseteq finished' /\ finished' \subseteq Runs!Prompts /\ runFaults' \in 0..MaxFaults
          /\ i = inbox[b] \/ (inbox[b] # <<>> /\ i = Tail(inbox[b]))
      BY <1>1, <1>3
    <3>4. ProcessStep(b, p, i, o, T)
      BY <1>1, <2>3, <2>5, <3>1, <3>2, <3>3, ProcessParts DEF ProcessStep
    <3> QED
      BY <3>4, ProcessWhole
<1> QED
  BY <1>4, <1>5

(* A cancel is taken: the loop waits for the thread, or keeps what there is.      *)
LEMMA TakeCancelWhole ==
  ASSUME Whole, NEW b \in Runs!Bridges, Runs!TakeCancel(b)
  PROVE  Whole' /\ LedgerGrows /\ SentKept
<1> PICK x \in InRows : x = inbox[b][1] /\ x = Head(inbox[b])
  BY ProcessParts, Tails DEF Runs!TakeCancel, Runs!CancelTaken
<1>1. /\ procs[b].state = "up" /\ procs[b].joins = 0 /\ procs[b].owes = 0 /\ inbox[b] # <<>> /\ x.kind = "cancel"
      /\ inbox' = [inbox EXCEPT ![b] = Tail(inbox[b])]
      /\ UNCHANGED <<prompts, asked, calls, running, ledger, pool, threads, finished, crossed, runFaults>>
  BY DEF Runs!TakeCancel, Runs!CancelTaken, Runs!Idle
<1>2. x.id \in 1..MaxCancels /\ x.session \in Sessions /\ None # x.session
  BY <1>1, WholeParts, ProcessParts, Tails, RunsAssumption DEF LinesParts, InLine, InRows
<1>3. Tail(inbox[b]) \in Seq(InRows) /\ finished \subseteq Runs!Prompts /\ runFaults \in 0..MaxFaults
  BY <1>1, ProcessParts, Tails
<1> PICK i \in Seq(InRows) : i = Tail(inbox[b])
  BY <1>3
<1> PICK T \in SUBSET ThreadRows : T = threads[b] /\ threads' = [threads EXCEPT ![b] = T]
  BY <1>1, ProcessParts
<1>6. /\ finished \subseteq finished' /\ finished' \subseteq Runs!Prompts /\ runFaults' \in 0..MaxFaults
      /\ i = inbox[b] \/ (inbox[b] # <<>> /\ i = Tail(inbox[b]))
  BY <1>1, <1>3
<1>4. CASE procs[b].busy = x.session
  <2>1. procs' = [procs EXCEPT ![b].cancelled = @ \cup {x.session}, ![b].joins = x.id] /\ outbox' = outbox
    BY <1>4 DEF Runs!TakeCancel
  <2> PICK p \in ProcRows : p = [procs[b] EXCEPT !.cancelled = @ \cup {x.session}, !.joins = x.id]
    <3>1. x.id \in 0..MaxCancels /\ procs[b] \in ProcRows
      BY <1>2, ProcessParts, RunsAssumption
    <3>2. [procs[b] EXCEPT !.cancelled = @ \cup {x.session}, !.joins = x.id] \in ProcRows
      BY <1>2, <3>1, EditedRows
    <3> QED
      BY <3>2
  <2> PICK o \in Seq(OutRows) : o = outbox[b]
    BY ProcessParts
  <2>3. /\ procs' = [procs EXCEPT ![b] = p] /\ outbox' = [outbox EXCEPT ![b] = o]
        /\ inbox' = [inbox EXCEPT ![b] = i]
    BY <1>1, <2>1, ProcessParts
  <2>4. /\ p.busy = procs[b].busy /\ p.thread = procs[b].thread /\ p.state = "up"
        /\ p.joins = x.id /\ procs[b].busy # None
    BY <1>1, <1>2, <1>4, ProcessParts DEF ProcRows
  <2>5. /\ p.thread = procs[b].thread \/ Runs!Sent(p.thread)
        /\ p.state \in {"up", "dying"}
        /\ p.state = "dying" => T = {} /\ p.joins = 0 /\ p.owes = 0
        /\ p.busy # None \/ p.joins # 0 => p.thread # 0
        /\ p.busy # None => p.busy = prompts[p.thread].session
    BY <2>4, ProcessParts
  <2>6. ProcessStep(b, p, i, o, T)
    BY <1>1, <1>6, <2>3, <2>5, ProcessParts DEF ProcessStep
  <2> QED
    BY <2>6, ProcessWhole
<1>5. CASE procs[b].busy # x.session
  <2> DEFINE y == Wire("kept", x.session, x.id)
  <2>1. procs' = procs /\ outbox' = [outbox EXCEPT ![b] = Append(@, y)]
    BY <1>5 DEF Runs!TakeCancel, Runs!Writes, Wire, Runs!Line
  <2>2. y \in OutRows /\ OutLine(y)'
    BY <1>1, <1>2 DEF Wire, OutRows, OutLine, InRows, Runs!Answers
  <2> HIDE DEF y
  <2> PICK p \in ProcRows : p = procs[b]
    BY ProcessParts
  <2> PICK o \in Seq(OutRows) : o = Append(outbox[b], y)
    BY <2>2, ProcessParts, Appends
  <2>3. /\ procs' = [procs EXCEPT ![b] = p] /\ outbox' = [outbox EXCEPT ![b] = o]
        /\ inbox' = [inbox EXCEPT ![b] = i]
    BY <1>1, <2>1, ProcessParts
  <2>4. \A k \in DOMAIN o : (\E j \in DOMAIN outbox[b] : o[k] = outbox[b][j]) \/ OutLine(o[k])'
    BY <2>2, ProcessParts, Appends
  <2>5. /\ p.thread = procs[b].thread \/ Runs!Sent(p.thread)
        /\ p.state \in {"up", "dying"}
        /\ p.state = "dying" => T = {} /\ p.joins = 0 /\ p.owes = 0
        /\ p.busy # None \/ p.joins # 0 => p.thread # 0
        /\ p.busy # None => p.busy = prompts[p.thread].session
    BY <1>1, ProcessParts
  <2>6. ProcessStep(b, p, i, o, T)
    BY <1>1, <1>6, <2>3, <2>4, <2>5, ProcessParts DEF ProcessStep
  <2> QED
    BY <2>6, ProcessWhole
<1> QED
  BY <1>4, <1>5

(* Its harness cannot be closed: the cancel is answered with the error.           *)
LEMMA CloseRaisesWhole ==
  ASSUME Whole, NEW b \in Runs!Bridges, Runs!CloseRaises(b)
  PROVE  Whole' /\ LedgerGrows /\ SentKept
<1> PICK x \in InRows : x = inbox[b][1] /\ x = Head(inbox[b])
  BY ProcessParts, Tails DEF Runs!CloseRaises, Runs!CancelTaken
<1> DEFINE y == Wire("uncancelled", x.session, x.id)
<1>1. /\ procs[b].state = "up" /\ procs[b].joins = 0 /\ procs[b].owes = 0 /\ inbox[b] # <<>>
      /\ inbox' = [inbox EXCEPT ![b] = Tail(inbox[b])]
      /\ procs' = [procs EXCEPT ![b].cancelled = @ \cup {x.session}, ![b].broken = TRUE]
      /\ outbox' = [outbox EXCEPT ![b] = Append(@, y)]
      /\ UNCHANGED <<prompts, asked, calls, running, ledger, pool, threads, finished>>
  BY DEF Runs!CloseRaises, Runs!CancelTaken, Runs!Idle, Runs!Writes, Wire, Runs!Line
<1>2. runFaults' \in 0..MaxFaults /\ (crossed => crossed') /\ crossed' \in BOOLEAN
  BY RunsAssumption, ProcessParts DEF Runs!CloseRaises, Runs!Fault
<1>3. Tail(inbox[b]) \in Seq(InRows) /\ finished \subseteq Runs!Prompts /\ x.session \in Sessions
  BY <1>1, ProcessParts, Tails DEF InRows
<1>4. y \in OutRows /\ OutLine(y)'
  BY <1>3 DEF Wire, OutRows, OutLine, InRows, Runs!Answers
<1> HIDE DEF y
<1> PICK i \in Seq(InRows) : i = Tail(inbox[b])
  BY <1>3
<1> PICK T \in SUBSET ThreadRows : T = threads[b] /\ threads' = [threads EXCEPT ![b] = T]
  BY <1>1, ProcessParts
<1> PICK p \in ProcRows : p = [procs[b] EXCEPT !.cancelled = @ \cup {x.session}, !.broken = TRUE]
  BY <1>3, ProcessParts, EditedRows
<1> PICK o \in Seq(OutRows) : o = Append(outbox[b], y)
  BY <1>4, ProcessParts, Appends
<1>5. /\ procs' = [procs EXCEPT ![b] = p] /\ outbox' = [outbox EXCEPT ![b] = o]
      /\ inbox' = [inbox EXCEPT ![b] = i]
  BY <1>1, ProcessParts
<1>6. \A k \in DOMAIN o : (\E j \in DOMAIN outbox[b] : o[k] = outbox[b][j]) \/ OutLine(o[k])'
  BY <1>4, ProcessParts, Appends
<1>7. p.busy = procs[b].busy /\ p.thread = procs[b].thread /\ p.state = "up" /\ p.joins = procs[b].joins
  BY <1>1, ProcessParts DEF ProcRows
<1>8. /\ p.thread = procs[b].thread \/ Runs!Sent(p.thread)
      /\ p.state \in {"up", "dying"}
      /\ p.state = "dying" => T = {} /\ p.joins = 0 /\ p.owes = 0
      /\ p.busy # None \/ p.joins # 0 => p.thread # 0
      /\ p.busy # None => p.busy = prompts[p.thread].session
  BY <1>7, ProcessParts
<1>9. ProcessStep(b, p, i, o, T)
  BY <1>1, <1>2, <1>3, <1>5, <1>6, <1>8 DEF ProcessStep
<1> QED
  BY <1>9, ProcessWhole

(* The prompt that was taken is accepted.                                         *)
LEMMA AcceptsWhole ==
  ASSUME Whole, NEW b \in Runs!Bridges, Runs!Accepts(b)
  PROVE  Whole' /\ LedgerGrows /\ SentKept
<1> PICK s \in Sessions : s = prompts[procs[b].owes].session
  BY ProcessParts DEF Runs!Accepts
<1>1. /\ procs[b].state = "up" /\ procs[b].owes \in Runs!Prompts
      /\ outbox' = [outbox EXCEPT ![b] = Append(@, Wire("accepted", s, procs[b].owes))]
      /\ procs' = [procs EXCEPT ![b].owes = 0]
      /\ UNCHANGED <<prompts, asked, calls, running, ledger, pool, inbox, threads, finished,
                 crossed, runFaults>>
  BY ProcessParts DEF Runs!Accepts, Runs!Writes, Wire, Runs!Line
<1> PICK y \in OutRows : y = Wire("accepted", s, procs[b].owes)
  BY <1>1 DEF Wire, OutRows, Runs!Answers, Runs!Prompts
<1>2. OutLine(y)'
  BY DEF OutLine, Wire
<1> PICK p \in ProcRows : p = [procs[b] EXCEPT !.owes = 0]
  BY ProcessParts, EditedRows
<1> PICK o \in Seq(OutRows) : o = Append(outbox[b], y)
  <2>1. outbox[b] \in Seq(OutRows)
    BY ProcessParts
  <2>2. Append(outbox[b], y) \in Seq(OutRows)
    BY <2>1
  <2> QED
    BY <2>2
<1> PICK i \in Seq(InRows) : i = inbox[b] /\ inbox' = [inbox EXCEPT ![b] = i]
  BY <1>1, ProcessParts
<1> PICK T \in SUBSET ThreadRows : T = threads[b] /\ threads' = [threads EXCEPT ![b] = T]
  BY <1>1, ProcessParts
<1>4. procs' = [procs EXCEPT ![b] = p] /\ outbox' = [outbox EXCEPT ![b] = o]
  BY <1>1, ProcessParts
<1>5. \A k \in DOMAIN o : (\E j \in DOMAIN outbox[b] : o[k] = outbox[b][j]) \/ OutLine(o[k])'
  <2>1. outbox[b] \in Seq(OutRows)
    BY ProcessParts
  <2>2. \A k \in DOMAIN o : (k \in DOMAIN outbox[b] /\ o[k] = outbox[b][k]) \/ o[k] = y
    BY <2>1, Appends
  <2> QED
    BY <1>2, <2>2
<1>6. p.busy = procs[b].busy /\ p.thread = procs[b].thread /\ p.state = "up" /\ p.joins = procs[b].joins
  BY <1>1, ProcessParts DEF ProcRows
<1>7. /\ p.thread = procs[b].thread \/ Runs!Sent(p.thread)
      /\ p.state \in {"up", "dying"}
      /\ p.state = "dying" => T = {} /\ p.joins = 0 /\ p.owes = 0
      /\ p.busy # None \/ p.joins # 0 => p.thread # 0
      /\ p.busy # None => p.busy = prompts[p.thread].session
  BY <1>6, ProcessParts
<1>8. /\ finished \subseteq finished' /\ finished' \subseteq Runs!Prompts /\ runFaults' \in 0..MaxFaults
      /\ (crossed => crossed') /\ crossed' \in BOOLEAN
  BY <1>1, ProcessParts
<1>9. ProcessStep(b, p, i, o, T)
  BY <1>1, <1>4, <1>5, <1>7, <1>8 DEF ProcessStep
<1> QED
  BY <1>9, ProcessWhole

(* The cancel the loop stopped for is answered.                                   *)
LEMMA JoinedWhole ==
  ASSUME Whole, NEW b \in Runs!Bridges, Runs!Joined(b)
  PROVE  Whole' /\ LedgerGrows /\ SentKept
<1>1. /\ procs[b].state = "up" /\ procs[b].joins # 0
      /\ outbox' = [outbox EXCEPT ![b] = Append(@, Wire("cancelled", Runs!JoinedFor(b), procs[b].joins))]
      /\ procs' = [procs EXCEPT ![b].joins = 0]
      /\ UNCHANGED <<prompts, asked, calls, running, ledger, pool, inbox, threads, finished,
                 crossed, runFaults>>
  BY DEF Runs!Joined, Runs!Writes, Wire, Runs!Line
<1>2. Runs!JoinedFor(b) \in Sessions /\ procs[b].joins \in Nat /\ MaxCancels \in Nat
  BY <1>1, ProcessParts, RunsAssumption DEF Runs!JoinedFor, ProcRows
<1> PICK y \in OutRows : y = Wire("cancelled", Runs!JoinedFor(b), procs[b].joins)
  BY <1>2 DEF Wire, OutRows, Runs!Answers
<1>3. OutLine(y)'
  BY DEF OutLine, Wire
<1> PICK p \in ProcRows : p = [procs[b] EXCEPT !.joins = 0]
  BY ProcessParts, EditedRows
<1> PICK o \in Seq(OutRows) : o = Append(outbox[b], y)
  <2>1. outbox[b] \in Seq(OutRows)
    BY ProcessParts
  <2>2. Append(outbox[b], y) \in Seq(OutRows)
    BY <2>1
  <2> QED
    BY <2>2
<1> PICK i \in Seq(InRows) : i = inbox[b] /\ inbox' = [inbox EXCEPT ![b] = i]
  BY <1>1, ProcessParts
<1> PICK T \in SUBSET ThreadRows : T = threads[b] /\ threads' = [threads EXCEPT ![b] = T]
  BY <1>1, ProcessParts
<1>4. procs' = [procs EXCEPT ![b] = p] /\ outbox' = [outbox EXCEPT ![b] = o]
  BY <1>1, ProcessParts
<1>5. \A k \in DOMAIN o : (\E j \in DOMAIN outbox[b] : o[k] = outbox[b][j]) \/ OutLine(o[k])'
  BY <1>3, ProcessParts, Appends
<1>6. p.busy = procs[b].busy /\ p.thread = procs[b].thread /\ p.state = "up" /\ p.joins = 0
  BY <1>1, ProcessParts DEF ProcRows
<1>7. /\ p.thread = procs[b].thread \/ Runs!Sent(p.thread)
      /\ p.state \in {"up", "dying"}
      /\ p.state = "dying" => T = {} /\ p.joins = 0 /\ p.owes = 0
      /\ p.busy # None \/ p.joins # 0 => p.thread # 0
      /\ p.busy # None => p.busy = prompts[p.thread].session
  BY <1>6, ProcessParts
<1>8. finished \subseteq finished' /\ finished' \subseteq Runs!Prompts /\ runFaults' \in 0..MaxFaults
      /\ (crossed => crossed') /\ crossed' \in BOOLEAN
  BY <1>1, ProcessParts
<1>9. ProcessStep(b, p, i, o, T)
  BY <1>1, <1>4, <1>5, <1>7, <1>8 DEF ProcessStep
<1> QED
  BY <1>9, ProcessWhole

(* It takes too long: the process says so, answers, and exits.                    *)
LEMMA ForcedExitWhole ==
  ASSUME Whole, NEW b \in Runs!Bridges, Runs!ForcedExit(b)
  PROVE  Whole' /\ LedgerGrows /\ SentKept
<1>1. /\ procs[b].state = "up" /\ procs[b].joins # 0
      /\ outbox' = [outbox EXCEPT ![b] = @ \o <<Wire("failed", Runs!JoinedFor(b), 0),
                                               Wire("cancelled", Runs!JoinedFor(b), procs[b].joins)>>]
      /\ procs' = [procs EXCEPT ![b].state = "dying", ![b].joins = 0, ![b].owes = 0]
      /\ threads' = [threads EXCEPT ![b] = {}] /\ runFaults' \in 0..MaxFaults
      /\ UNCHANGED <<prompts, asked, calls, running, ledger, pool, inbox, finished, crossed>>
  BY RunsAssumption DEF Runs!ForcedExit, Runs!Fault, Wire, Runs!Line, Whole, Runs!TypeOK
<1>2. Runs!JoinedFor(b) \in Sessions /\ procs[b].joins \in Nat /\ MaxCancels \in Nat
  BY <1>1, ProcessParts, RunsAssumption DEF Runs!JoinedFor, ProcRows
<1> PICK y \in OutRows : y = Wire("failed", Runs!JoinedFor(b), 0)
  BY <1>2 DEF Wire, OutRows, Runs!Answers
<1> PICK z \in OutRows : z = Wire("cancelled", Runs!JoinedFor(b), procs[b].joins)
  BY <1>2 DEF Wire, OutRows, Runs!Answers
<1>3. OutLine(y)' /\ OutLine(z)'
  <2>1. OutLine(y)'
    BY DEF OutLine, Wire
  <2>2. OutLine(z)'
    BY <1>1 DEF OutLine, Wire
  <2> QED
    BY <2>1, <2>2
<1> PICK p \in ProcRows : p = [procs[b] EXCEPT !.state = "dying", !.joins = 0, !.owes = 0]
  BY ProcessParts, EditedRows
<1>10. /\ outbox[b] \o <<y, z>> \in Seq(OutRows)
       /\ \A k \in DOMAIN (outbox[b] \o <<y, z>>) :
            \/ k \in DOMAIN outbox[b] /\ (outbox[b] \o <<y, z>>)[k] = outbox[b][k]
            \/ (outbox[b] \o <<y, z>>)[k] \in {y, z}
  <2>1. outbox[b] \in Seq(OutRows) /\ <<y, z>> \in Seq(OutRows) /\ Len(<<y, z>>) = 2
    BY ProcessParts
  <2> QED
    BY <2>1
<1> PICK o \in Seq(OutRows) : o = outbox[b] \o <<y, z>>
  BY <1>10
<1> PICK i \in Seq(InRows) : i = inbox[b] /\ inbox' = [inbox EXCEPT ![b] = i]
  BY <1>1, ProcessParts
<1> PICK T \in SUBSET ThreadRows : T = {} /\ threads' = [threads EXCEPT ![b] = T]
  BY <1>1, ProcessParts
<1>4. procs' = [procs EXCEPT ![b] = p] /\ outbox' = [outbox EXCEPT ![b] = o]
  <2>1. procs' = [procs EXCEPT ![b] = p]
    BY <1>1
  <2>2. outbox' = [outbox EXCEPT ![b] = o]
    BY <1>1
  <2> QED
    BY <2>1, <2>2
<1>5. \A k \in DOMAIN o : (\E j \in DOMAIN outbox[b] : o[k] = outbox[b][j]) \/ OutLine(o[k])'
  BY <1>3, <1>10
<1>6. p.busy = procs[b].busy /\ p.thread = procs[b].thread /\ p.state = "dying" /\ p.joins = 0 /\ p.owes = 0
  BY <1>1, ProcessParts DEF ProcRows
<1>7. /\ p.thread = procs[b].thread \/ Runs!Sent(p.thread)
      /\ p.state \in {"up", "dying"}
      /\ p.state = "dying" => T = {} /\ p.joins = 0 /\ p.owes = 0
      /\ p.busy # None \/ p.joins # 0 => p.thread # 0
      /\ p.busy # None => p.busy = prompts[p.thread].session
  BY <1>6, ProcessParts
<1>8. finished \subseteq finished' /\ finished' \subseteq Runs!Prompts /\ runFaults' \in 0..MaxFaults
      /\ (crossed => crossed') /\ crossed' \in BOOLEAN
  BY <1>1, ProcessParts
<1>9. ProcessStep(b, p, i, o, T)
  BY <1>1, <1>4, <1>5, <1>7, <1>8 DEF ProcessStep
<1> QED
  BY <1>9, ProcessWhole

(* A thread, and what it becomes.                                                 *)
LEMMA TurnParts ==
  ASSUME Whole, NEW b \in Runs!Bridges, NEW t \in threads[b]
  PROVE  /\ procs[b].state = "up" /\ t \in ThreadRows /\ Runs!Sent(t.prompt)
         /\ t.prompt \in Runs!Prompts /\ t.session \in Sessions /\ t.session = prompts[t.prompt].session
         /\ t.at = "finish" => t.prompt \in finished
         /\ \A a \in {"run", "finish", "abort", "fail", "last"} :
              /\ [t EXCEPT !.at = a] \in ThreadRows /\ [t EXCEPT !.at = a].prompt = t.prompt
              /\ [t EXCEPT !.at = a].session = t.session /\ [t EXCEPT !.at = a].at = a
<1>1. t \in ThreadRows /\ ThreadOK(t) /\ procs[b].state = "up"
  BY ProcessParts
<1>2. \A a \in {"run", "finish", "abort", "fail", "last"} :
              /\ [t EXCEPT !.at = a] \in ThreadRows /\ [t EXCEPT !.at = a].prompt = t.prompt
              /\ [t EXCEPT !.at = a].session = t.session /\ [t EXCEPT !.at = a].at = a
  BY <1>1 DEF ThreadRows
<1> QED
  BY <1>1, <1>2 DEF ThreadOK, ThreadRows

\* A thread goes on: the process and its lines stay, or one is written.
TurnStep(b, t, a, p, o) ==
  /\ Runs!Moves(b, t, a) /\ procs' = [procs EXCEPT ![b] = p]
  /\ p.state = "up" /\ p.thread = procs[b].thread /\ p.joins = procs[b].joins
  /\ p.busy \in {procs[b].busy, None}
  /\ outbox' = [outbox EXCEPT ![b] = o]
  /\ \A k \in DOMAIN o : (\E j \in DOMAIN outbox[b] : o[k] = outbox[b][j]) \/ OutLine(o[k])'
  /\ UNCHANGED <<prompts, asked, calls, running, ledger, pool, inbox, crossed>>
  /\ finished \subseteq finished' /\ finished' \subseteq Runs!Prompts /\ runFaults' \in 0..MaxFaults
  /\ a = "finish" => t.prompt \in finished'

(* That is a step of the process.                                                 *)
LEMMA TurnWhole ==
  ASSUME Whole, NEW b \in Runs!Bridges, NEW t \in threads[b],
         NEW a \in {"finish", "abort", "fail", "last"}, NEW p \in ProcRows, NEW o \in Seq(OutRows),
         TurnStep(b, t, a, p, o)
  PROVE  Whole' /\ LedgerGrows /\ SentKept
<1> USE DEF TurnStep
<1> PICK u \in ThreadRows : u = [t EXCEPT !.at = a] /\ u.prompt = t.prompt /\ u.session = t.session /\ u.at = a
  <2>1. /\ [t EXCEPT !.at = a] \in ThreadRows /\ [t EXCEPT !.at = a].prompt = t.prompt
        /\ [t EXCEPT !.at = a].session = t.session /\ [t EXCEPT !.at = a].at = a
    <3>1. t \in ThreadRows /\ a \in {"run", "finish", "abort", "fail", "last"}
      BY TurnParts
    <3> QED
      BY <3>1 DEF ThreadRows
  <2> QED
    BY <2>1
<1> PICK T \in SUBSET ThreadRows : T = (threads[b] \ {t}) \cup {u} /\ threads' = [threads EXCEPT ![b] = T]
  BY ProcessParts DEF Runs!Moves
<1> PICK i \in Seq(InRows) : i = inbox[b] /\ inbox' = [inbox EXCEPT ![b] = i]
  BY ProcessParts
<1>1. procs[b].state = "up" /\ Runs!Sent(t.prompt) /\ t.session = prompts[t.prompt].session
  BY TurnParts
<1>2. ThreadOK(u)'
  BY <1>1 DEF ThreadOK, Runs!Sent
<1>3. \A v \in T : v \in threads[b] \/ ThreadOK(v)'
  BY <1>2
<1>4. /\ p.state \in {"up", "dying"} /\ (p.state = "dying" => T = {} /\ p.joins = 0 /\ p.owes = 0)
      /\ p.busy # None \/ p.joins # 0 => p.thread # 0
      /\ p.busy # None => p.busy = prompts[p.thread].session
  BY ProcessParts
<1>5. ProcessStep(b, p, i, o, T)
  BY <1>1, <1>3, <1>4, ProcessParts DEF ProcessStep
<1> QED
  BY <1>5, ProcessWhole

(* The turn is over, and the bridge free for another.                             *)
LEMMA TurnEndsWhole ==
  ASSUME Whole, NEW b \in Runs!Bridges, NEW t \in threads[b], Runs!TurnEnds(b, t)
  PROVE  Whole' /\ LedgerGrows /\ SentKept
<1>1. /\ procs' = [procs EXCEPT ![b].busy = IF @ = t.session THEN None ELSE @]
      /\ UNCHANGED <<prompts, asked, calls, running, ledger, pool, inbox, outbox, crossed>>
  BY DEF Runs!TurnEnds
<1> PICK a \in {"finish", "abort", "fail", "last"} :
      /\ Runs!Moves(b, t, a) /\ finished' \in {finished, finished \cup {t.prompt}}
      /\ a = "finish" => finished' = finished \cup {t.prompt}
  BY DEF Runs!TurnEnds
<1>7. runFaults' \in 0..MaxFaults
  BY RunsAssumption, ProcessParts DEF Runs!TurnEnds, Runs!Fault
<1>2. procs[b] \in ProcRows /\ procs[b].busy \in Sessions \cup {None} /\ procs[b].state = "up"
  BY ProcessParts, TurnParts DEF ProcRows
<1> PICK r \in Sessions \cup {None} : r = IF procs[b].busy = t.session THEN None ELSE procs[b].busy
  BY <1>2
<1> PICK p \in ProcRows : p = [procs[b] EXCEPT !.busy = r]
  BY <1>2, EditedRows
<1>3. p.state = "up" /\ p.thread = procs[b].thread /\ p.joins = procs[b].joins /\ p.busy \in {procs[b].busy, None}
  BY <1>2 DEF ProcRows
<1>4. procs' = [procs EXCEPT ![b] = p]
  BY <1>1
<1> PICK o \in Seq(OutRows) : o = outbox[b] /\ outbox' = [outbox EXCEPT ![b] = o]
  BY <1>1, ProcessParts
<1>5. finished' \subseteq Runs!Prompts /\ runFaults' \in 0..MaxFaults
  <2>1. finished \subseteq Runs!Prompts /\ runFaults \in 0..MaxFaults
    BY ProcessParts
  <2>2. t.prompt \in Runs!Prompts
    BY TurnParts
  <2> QED
    BY <1>1, <1>7, <2>1, <2>2
<1>6. TurnStep(b, t, a, p, o)
  BY <1>1, <1>3, <1>4, <1>5 DEF TurnStep
<1> QED
  BY <1>6, TurnWhole

(* It raises instead.                                                             *)
LEMMA TurnRaisesWhole ==
  ASSUME Whole, NEW b \in Runs!Bridges, NEW t \in threads[b], Runs!TurnRaises(b, t)
  PROVE  Whole' /\ LedgerGrows /\ SentKept
<1>1. /\ UNCHANGED <<prompts, asked, calls, running, ledger, pool, procs, inbox, outbox, finished, crossed>>
      /\ runFaults' \in 0..MaxFaults
  BY RunsAssumption, ProcessParts DEF Runs!TurnRaises, Runs!Fault
<1> PICK a \in {"fail", "last"} : Runs!Moves(b, t, a)
  BY DEF Runs!TurnRaises
<1> PICK p \in ProcRows : p = procs[b] /\ procs' = [procs EXCEPT ![b] = p]
  BY <1>1, ProcessParts
<1> PICK o \in Seq(OutRows) : o = outbox[b] /\ outbox' = [outbox EXCEPT ![b] = o]
  BY <1>1, ProcessParts
<1>2. p.state = "up" /\ finished' \subseteq Runs!Prompts
  BY <1>1, ProcessParts, TurnParts
<1> QED
  <2>1. TurnStep(b, t, a, p, o)
    BY <1>1, <1>2 DEF TurnStep
  <2>2. a \in {"finish", "abort", "fail", "last"}
    OBVIOUS
  <2> QED
    BY <2>1, <2>2, TurnWhole

(* It says how it ended.                                                          *)
LEMMA SaysWhole ==
  ASSUME Whole, NEW b \in Runs!Bridges, NEW t \in threads[b], Runs!Says(b, t)
  PROVE  Whole' /\ LedgerGrows /\ SentKept
<1> PICK kk \in {"finished", "aborted", "failed"} :
      kk = Runs!Words[t.at] /\ t.at \in {"finish", "abort", "fail"} /\ (kk = "finished" => t.at = "finish")
  BY DEF Runs!Says, Runs!Words
<1>1. /\ Runs!Moves(b, t, "last")
      /\ outbox' = [outbox EXCEPT ![b] = Append(@, Wire(kk, t.session, t.prompt))]
      /\ UNCHANGED <<prompts, asked, calls, running, ledger, pool, procs, inbox, finished, crossed, runFaults>>
  BY DEF Runs!Says, Runs!Writes, Wire, Runs!Line
<1>2. t.prompt \in Runs!Prompts /\ t.session \in Sessions /\ (t.at = "finish" => t.prompt \in finished)
  BY TurnParts
<1> PICK y \in OutRows : y = Wire(kk, t.session, t.prompt)
  <2>1. t.prompt \in Nat /\ kk \in Runs!Answers
    BY <1>2 DEF Runs!Prompts, Runs!Answers
  <2> QED
    BY <1>2, <2>1 DEF Wire, OutRows
<1>3. OutLine(y)'
  BY <1>1, <1>2 DEF OutLine, Wire
<1> PICK o \in Seq(OutRows) : o = Append(outbox[b], y)
  <2>1. outbox[b] \in Seq(OutRows)
    BY ProcessParts
  <2>2. Append(outbox[b], y) \in Seq(OutRows)
    BY <2>1
  <2> QED
    BY <2>2
<1>4. outbox' = [outbox EXCEPT ![b] = o]
  BY <1>1
<1>5. \A k \in DOMAIN o : (\E j \in DOMAIN outbox[b] : o[k] = outbox[b][j]) \/ OutLine(o[k])'
  BY <1>3, ProcessParts, Appends
<1> PICK p \in ProcRows : p = procs[b] /\ procs' = [procs EXCEPT ![b] = p]
  BY <1>1, ProcessParts
<1>6. p.state = "up" /\ finished' \subseteq Runs!Prompts /\ runFaults' \in 0..MaxFaults
  BY <1>1, ProcessParts, TurnParts
<1> QED
  <2>1. TurnStep(b, t, "last", p, o)
    BY <1>1, <1>4, <1>5, <1>6 DEF TurnStep
  <2> QED
    BY <2>1, TurnWhole

(* It is gone, with its mark.                                                     *)
LEMMA EndsWhole ==
  ASSUME Whole, NEW b \in Runs!Bridges, NEW t \in threads[b], Runs!Ends(b, t)
  PROVE  Whole' /\ LedgerGrows /\ SentKept
<1>1. /\ procs' = [procs EXCEPT ![b].busy = IF @ = t.session THEN None ELSE @,
                                ![b].cancelled = @ \ {t.session}]
      /\ threads' = [threads EXCEPT ![b] = @ \ {t}]
      /\ UNCHANGED <<prompts, asked, calls, running, ledger, pool, inbox, outbox, finished, crossed, runFaults>>
  BY DEF Runs!Ends
<1>2. procs[b] \in ProcRows /\ procs[b].busy \in Sessions \cup {None} /\ procs[b].state = "up" /\ t.session \in Sessions
  BY ProcessParts, TurnParts DEF ProcRows
<1> PICK r \in Sessions \cup {None} : r = IF procs[b].busy = t.session THEN None ELSE procs[b].busy
  BY <1>2
<1>9. [procs[b] EXCEPT !.busy = r, !.cancelled = @ \ {t.session}] \in ProcRows
  BY <1>2, EditedRows
<1> PICK p \in ProcRows : p = [procs[b] EXCEPT !.busy = r, !.cancelled = @ \ {t.session}]
  BY <1>9
<1>3. p.state = "up" /\ p.thread = procs[b].thread /\ p.joins = procs[b].joins /\ p.busy \in {procs[b].busy, None}
  BY <1>2 DEF ProcRows
<1>4. procs' = [procs EXCEPT ![b] = p]
  BY <1>1
<1> PICK o \in Seq(OutRows) : o = outbox[b] /\ outbox' = [outbox EXCEPT ![b] = o]
  BY <1>1, ProcessParts
<1> PICK i \in Seq(InRows) : i = inbox[b] /\ inbox' = [inbox EXCEPT ![b] = i]
  BY <1>1, ProcessParts
<1> PICK T \in SUBSET ThreadRows : T = threads[b] \ {t} /\ threads' = [threads EXCEPT ![b] = T]
  BY <1>1, ProcessParts
<1>5. finished \subseteq finished' /\ finished' \subseteq Runs!Prompts /\ runFaults' \in 0..MaxFaults
      /\ (crossed => crossed') /\ crossed' \in BOOLEAN
  BY <1>1, ProcessParts
<1>6. /\ p.state \in {"up", "dying"} /\ (p.state = "dying" => T = {} /\ p.joins = 0 /\ p.owes = 0)
      /\ p.busy # None \/ p.joins # 0 => p.thread # 0
      /\ p.busy # None => p.busy = prompts[p.thread].session
  BY <1>3, ProcessParts
<1>7. ProcessStep(b, p, i, o, T)
  BY <1>1, <1>2, <1>3, <1>4, <1>5, <1>6 DEF ProcessStep
<1> QED
  BY <1>7, ProcessWhole

(* A line is read.                                                                *)
LEMMA ReadsWhole ==
  ASSUME Whole, NEW b \in Runs!Bridges, Runs!Reads(b)
  PROVE  Whole' /\ LedgerGrows /\ SentKept
<1> PICK x \in OutRows : x = outbox[b][1] /\ x = Head(outbox[b])
  BY ProcessParts, Tails DEF Runs!Reads
<1>1. /\ outbox[b] # <<>> /\ outbox' = [outbox EXCEPT ![b] = Tail(outbox[b])]
      /\ UNCHANGED <<prompts, asked, pool, procs, inbox, threads, finished, crossed, runFaults>>
  BY DEF Runs!Reads
<1>2. /\ LinesParts /\ LedgerWhole /\ calls \in [Runs!Bridges -> SUBSET InRows]
      /\ prompts \in [Runs!Prompts -> [session : Sessions, at : {"none", "verify", "done"}]]
      /\ outbox \in [Runs!Bridges -> Seq(OutRows)]
  BY WholeParts DEF Whole, Runs!TypeOK, OutRows
<1>3. x.session \in Sessions /\ OutLine(x)
  BY <1>1, <1>2, ProcessParts, Tails DEF LinesParts, OutRows
<1>4. /\ calls' \in [Runs!Bridges -> SUBSET InRows] /\ SentKept
      /\ \A c \in Runs!Bridges : calls'[c] \subseteq calls[c]
  <2>1. calls' = calls \/ \E y : calls' = [calls EXCEPT ![b] = @ \ {y}]
    BY DEF Runs!Reads, Runs!Answered
  <2>2. SentKept
    BY <1>1 DEF SentKept, Runs!Sent
  <2> QED
    BY <1>2, <2>1, <2>2
<1>5. (\E o \in Outcomes \ {"running"} : Runs!Outcome(x.session, o)) \/ Runs!NoOutcome
  <2>1. \A w \in DOMAIN Runs!Ended : Runs!Ended[w] \in Outcomes \ {"running"}
    BY DEF Runs!Ended, Outcomes
  <2> QED
    BY <2>1 DEF Runs!Reads, Outcomes
<1>6. /\ LedgerWhole' /\ LedgerGrows /\ LedgerOnce'
      /\ ledger' \in Seq(Records) /\ running' \subseteq Sessions
  <2>1. CASE Runs!NoOutcome
    <3>1. LedgerWhole' /\ LedgerGrows /\ DOMAIN ledger' = DOMAIN ledger
      BY <1>1, <1>2, <2>1, LedgerRests DEF Runs!NoOutcome
    <3> QED
      BY <1>2, <1>4, <3>1, OnceStays DEF LinesParts, LedgerWhole, LedgerTyped
  <2>2. CASE \E o \in Outcomes \ {"running"} : Runs!Outcome(x.session, o)
    <3>1. PICK o \in Outcomes \ {"running"} : Runs!Outcome(x.session, o)
      BY <2>2
    <3> QED
      BY <1>1, <1>3, <1>4, <3>1, OutcomeWhole
  <2> QED
    BY <1>5, <2>1, <2>2
<1>7. Tail(outbox[b]) \in Seq(OutRows) /\ outbox' \in [Runs!Bridges -> Seq(OutRows)]
  <2>1. Tail(outbox[b]) \in Seq(OutRows)
    BY <1>1, ProcessParts, Tails
  <2> QED
    BY <1>1, <1>2, <2>1
<1>8. outbox'[b] = Tail(outbox[b]) /\ \A c \in Runs!Bridges \ {b} : outbox'[c] = outbox[c]
  BY <1>1, <1>2
<1>9. OldOrGood
  <2>1. \A k \in DOMAIN outbox'[b] : \E j \in DOMAIN outbox[b] : outbox'[b][k] = outbox[b][j]
    BY <1>1, <1>8, ProcessParts, Tails
  <2>2. \A c \in Runs!Bridges : \A k \in DOMAIN outbox'[c] :
          (\E j \in DOMAIN outbox[c] : outbox'[c][k] = outbox[c][j]) \/ OutLine(outbox[c][k])'
    BY <1>8, <2>1
  <2> QED
    BY <1>1, <1>4, <1>6, <2>2 DEF OldOrGood
<1>10. Runs!ProcsAreWhole'
  <2> USE DEF Whole, Runs!ProcsAreWhole
  <2>1. ASSUME NEW c \in Runs!Bridges
        PROVE  procs[c].busy # None => procs[c].busy = prompts'[procs[c].thread].session
    BY <1>2, <1>4 DEF LinesParts, SentKept
  <2>2. ASSUME NEW c \in Runs!Bridges
        PROVE  /\ procs[c].state = "unborn" => outbox'[c] = <<>>
               /\ ~crossed /\ c # pool => outbox'[c] = <<>>
    BY <1>1, <1>8
  <2> QED
    BY <1>1, <2>1, <2>2
<1>11. Runs!TypeOK'
  BY <1>1, <1>4, <1>6, <1>7 DEF Whole, Runs!TypeOK, InRows, OutRows, Records, Outcomes
<1> QED
  BY <1>4, <1>6, <1>9, <1>10, <1>11, LinesMove DEF Whole

(* A process is gone: its lines to read and its threads with it.                  *)
LEMMA ExitsWhole ==
  ASSUME Whole, NEW b \in Runs!Bridges, Runs!Exits(b)
  PROVE  Whole' /\ LedgerGrows
<1> DEFINE p == Runs!NewProcess("gone")
<1>1. /\ procs' = [procs EXCEPT ![b] = p] /\ pool' = IF pool = b THEN 0 ELSE pool
      /\ inbox' = [inbox EXCEPT ![b] = <<>>] /\ threads' = [threads EXCEPT ![b] = {}]
      /\ crossed' = (crossed \/ outbox[b] # <<>> \/ pool # b)
      /\ calls' = [calls EXCEPT ![b] = {}]
      /\ UNCHANGED <<prompts, asked, outbox, finished>> /\ runFaults' \in 0..MaxFaults
  BY RunsAssumption, ProcessParts DEF Runs!Exits, Runs!Fault
<1>2. /\ LinesParts /\ LedgerWhole /\ calls \in [Runs!Bridges -> SUBSET InRows]
      /\ prompts \in [Runs!Prompts -> [session : Sessions, at : {"none", "verify", "done"}]]
      /\ procs \in [Runs!Bridges -> ProcRows] /\ threads \in [Runs!Bridges -> SUBSET ThreadRows]
      /\ inbox \in [Runs!Bridges -> Seq(InRows)] /\ MaxCancels \in Nat /\ MaxPrompts \in Nat
  BY WholeParts, RunsAssumption DEF Whole, Runs!TypeOK, InRows
<1>3. p \in ProcRows
  BY <1>2 DEF ProcRows, Runs!NewProcess
<1>5. calls' \in [Runs!Bridges -> SUBSET InRows] /\ \A c \in Runs!Bridges : calls'[c] \subseteq calls[c]
  BY <1>1, <1>2
<1>6. SentKept
  BY <1>1, <1>2 DEF SentKept, Runs!Sent
<1>7. Closing(Sessions, "failed") /\ (crossed => crossed')
  BY <1>1, <1>2, ExitCloses
<1>8. LedgerWhole' /\ LedgerGrows /\ DOMAIN ledger' = DOMAIN ledger
  BY <1>2, <1>7, ClosingKeeps DEF Outcomes
<1>9. LedgerOnce'
  BY <1>2, <1>6, <1>8, OnceStays DEF LinesParts
<1>10. /\ procs' \in [Runs!Bridges -> ProcRows] /\ threads' \in [Runs!Bridges -> SUBSET ThreadRows]
       /\ inbox' \in [Runs!Bridges -> Seq(InRows)]
  BY <1>1, <1>2, <1>3
<1>11. /\ procs'[b] = p /\ inbox'[b] = <<>> /\ threads'[b] = {}
       /\ \A c \in Runs!Bridges \ {b} : procs'[c] = procs[c] /\ inbox'[c] = inbox[c] /\ threads'[c] = threads[c]
  BY <1>1, <1>2
<1>12. p.state = "gone" /\ p.busy = None /\ p.joins = 0 /\ p.thread = 0 /\ p.owes = 0
  BY DEF Runs!NewProcess
<1> HIDE DEF p
<1>13. OldOrGood
  <2>1. \A c \in Runs!Bridges : \A k \in DOMAIN inbox'[c] :
          \E j \in DOMAIN inbox[c] : inbox'[c][k] = inbox[c][j]
    BY <1>11
  <2>2. \A c \in Runs!Bridges : \A t \in threads'[c] : t \in threads[c]
    BY <1>11
  <2>3. \A c \in Runs!Bridges : procs'[c].thread \in {0, procs[c].thread}
    BY <1>11, <1>12
  <2> QED
    BY <1>1, <1>5, <1>6, <1>9, <2>1, <2>2, <2>3 DEF OldOrGood
<1>14. Runs!ProcsAreWhole'
  <2> USE DEF Whole, Runs!ProcsAreWhole
  <2>1. pool' # 0 => procs'[pool'].state \in {"up", "dying"}
    <3>1. ASSUME pool' # 0 PROVE pool \in Runs!Bridges \ {b} /\ pool' = pool
      BY <1>1, <3>1 DEF Runs!TypeOK, Runs!Bridges
    <3> QED
      BY <1>11, <3>1
  <2>2. ASSUME NEW c \in Runs!Bridges
        PROVE  /\ procs'[c].state = "up" => c = pool'
               /\ procs'[c].state # "up" => threads'[c] = {} /\ procs'[c].joins = 0 /\ procs'[c].owes = 0
               /\ procs'[c].state = "unborn" => inbox'[c] = <<>> /\ outbox'[c] = <<>>
               /\ procs'[c].busy # None \/ procs'[c].joins # 0 => procs'[c].thread # 0
    BY <1>1, <1>11, <1>12
  <2>3. ASSUME NEW c \in Runs!Bridges
        PROVE  procs'[c].busy # None => procs'[c].busy = prompts'[procs'[c].thread].session
    BY <1>2, <1>6, <1>11, <1>12 DEF LinesParts, SentKept
  <2>4. ASSUME NEW c \in Runs!Bridges
        PROVE  ~crossed' /\ c # pool' => outbox'[c] = <<>>
    BY <1>1
  <2> QED
    BY <2>1, <2>2, <2>3, <2>4
<1>15. Runs!TypeOK'
  <2>1. pool' \in 0..MaxBridges /\ crossed' \in BOOLEAN
    BY <1>1, RunsAssumption DEF Whole, Runs!TypeOK
  <2> QED
    BY <1>1, <1>5, <1>8, <1>10, <2>1
    DEF Whole, Runs!TypeOK, InRows, ProcRows, ThreadRows, Records, Outcomes, LedgerWhole, LedgerTyped
<1> QED
  BY <1>8, <1>13, <1>14, <1>15, LinesMove DEF Whole

(* Every step leaves the whole whole.                                             *)
LEMMA NextWhole ==
  ASSUME Whole, Runs!Next
  PROVE  Whole' /\ LedgerGrows
<1>1. CASE \E n \in Runs!Prompts : \/ \E s \in Sessions : Runs!Prompt(n, s)
                                   \/ Runs!Start(n) \/ Runs!StartFails(n) \/ Runs!Replaced(n)
  BY <1>1, PromptWhole, StartWhole, StartFailsWhole, ReplacedWhole
<1>2. CASE \E s \in Sessions : Runs!Cancel(s) \/ Runs!CancelFails(s)
  BY <1>2, CancelWhole, CancelFailsWhole
<1>3. CASE \E b \in Runs!Bridges : \/ Runs!TakePrompt(b) \/ Runs!Accepts(b) \/ Runs!TakeCancel(b)
                                   \/ Runs!CloseRaises(b) \/ Runs!Joined(b) \/ Runs!ForcedExit(b)
  BY <1>3, TakePromptWhole, AcceptsWhole, TakeCancelWhole, CloseRaisesWhole, JoinedWhole, ForcedExitWhole
<1>4. CASE \E b \in Runs!Bridges : Runs!Turn(b)
  <2>1. PICK b \in Runs!Bridges : Runs!Turn(b)
    BY <1>4
  <2>2. PICK t \in threads[b] : \/ Runs!TurnEnds(b, t) \/ Runs!TurnRaises(b, t)
                                \/ Runs!Says(b, t) \/ Runs!Ends(b, t)
    BY <2>1 DEF Runs!Turn
  <2> QED
    BY <2>2, TurnEndsWhole, TurnRaisesWhole, SaysWhole, EndsWhole
<1>5. CASE \E b \in Runs!Bridges : Runs!Reads(b) \/ Runs!Exits(b)
  BY <1>5, ReadsWhole, ExitsWhole
<1>6. CASE \E b \in Runs!Bridges : \E line \in calls[b] : Runs!TimesOut(b, line)
  BY <1>6, TimesOutWhole
<1> QED
  BY <1>1, <1>2, <1>3, <1>4, <1>5, <1>6 DEF Runs!Next

(* It is whole at first, whatever moves.                                          *)
LEMMA InitWhole ==
  ASSUME Runs!Init
  PROVE  Whole
<1>1. Runs!TypeOK
  <2>1. Runs!Somebody \in Sessions
    BY RunsAssumption DEF Runs!Somebody
  <2>2. <<>> \in Seq(Records)
    OBVIOUS
  <2> QED
    <3> USE DEF Runs!Init
    <3>1. prompts \in [Runs!Prompts -> [session : Sessions, at : {"none", "verify", "done"}]]
      BY <2>1
    <3>2. asked \in 0..MaxCancels /\ calls \in [Runs!Bridges -> SUBSET InRows] /\ running \subseteq Sessions
      BY RunsAssumption
    <3>3. pool \in 0..MaxBridges /\ runFaults \in 0..MaxFaults /\ finished \subseteq Runs!Prompts
      BY RunsAssumption
    <3>4. procs \in [Runs!Bridges -> ProcRows]
      BY RunsAssumption DEF ProcRows, Runs!NewProcess
    <3>5. inbox \in [Runs!Bridges -> Seq(InRows)] /\ outbox \in [Runs!Bridges -> Seq(OutRows)]
      OBVIOUS
    <3>6. threads \in [Runs!Bridges -> SUBSET ThreadRows] /\ crossed \in BOOLEAN
      OBVIOUS
    <3>7. ledger \in Seq(Records)
      BY <2>2
    <3> HIDE DEF Runs!Init
    <3> QED
      BY <3>1, <3>2, <3>3, <3>4, <3>5, <3>6, <3>7
      DEF Runs!TypeOK, Records, Outcomes, ProcRows, InRows, OutRows, ThreadRows
<1>2. Runs!ProcsAreWhole
  BY DEF Runs!Init, Runs!ProcsAreWhole, Runs!NewProcess
<1>3. Runs!LinesAreOfPrompts
  BY DEF Runs!Init, Runs!LinesAreOfPrompts, Runs!NewProcess
<1>4. LedgerWhole
  BY <1>1 DEF Runs!Init, LedgerWhole, LedgerTyped, Runs!TypeOK, Runs!OpenRunIsNewest, Runs!OneOpenRun, Records, Outcomes
<1> QED
  BY <1>1, <1>2, <1>3, <1>4 DEF Whole

(* A step of something else leaves it alone.                                      *)
LEMMA RestWhole ==
  ASSUME Whole, UNCHANGED runsVars
  PROVE  Whole'
<1> USE DEF runsVars
<1>1. Runs!TypeOK'
  BY DEF Whole, Runs!TypeOK
<1>2. Runs!ProcsAreWhole'
  BY DEF Whole, Runs!ProcsAreWhole
<1>3. Runs!LinesAreOfPrompts'
  BY DEF Whole, Runs!LinesAreOfPrompts, Runs!Sent
<1>4. LedgerWhole'
  BY LedgerRests DEF Whole
<1> QED
  BY <1>1, <1>2, <1>3, <1>4 DEF Whole

-------------------------------------------------------------------------------
(* Where a run and a cancel are                                                   *)

\* NothingIsMixedUp of one process.
InPlaces(b) ==
  /\ \A t, u \in threads[b] : t.prompt = u.prompt => t = u
  /\ \A s \in Sessions : Runs!RunInOnePlace(b, s) /\ Runs!CancelInOnePlace(b, s)

\* CancelInOnePlace has two parts: who waits for an answer, and what an answer means.
AnswerIsDue(b, s) ==
  /\ \A k \in DOMAIN inbox[b] : Runs!Asked(b, k, s, "cancel") =>
       /\ inbox[b][k] \in calls[b]
       /\ \A j \in DOMAIN inbox[b] :
            /\ Runs!Asked(b, j, s, "prompt") => j < k
            /\ Runs!Asked(b, j, s, "cancel") /\ inbox[b][j].id = inbox[b][k].id => j = k
       /\ Runs!Joins(b, s) => procs[b].joins # inbox[b][k].id
       /\ \A j \in DOMAIN outbox[b] : Runs!Replies(b, j, s) => outbox[b][j].id # inbox[b][k].id
  /\ procs[b].busy = s \/ Runs!Joins(b, s) =>
       \A t \in threads[b] : Runs!Active(b, t, s) => t.prompt = procs[b].thread
  /\ Runs!Joins(b, s) =>
       /\ Runs!Line("cancel", s, procs[b].joins) \in calls[b]
       /\ \A k \in DOMAIN inbox[b] : ~Runs!Asked(b, k, s, "prompt")
       /\ \A k \in DOMAIN outbox[b] : Runs!Replies(b, k, s) => outbox[b][k].id # procs[b].joins
  /\ \A k \in DOMAIN outbox[b] : Runs!Replies(b, k, s) =>
       /\ Runs!Line("cancel", s, outbox[b][k].id) \in calls[b]
       /\ \A j \in DOMAIN outbox[b] :
            Runs!Replies(b, j, s) /\ outbox[b][j].id = outbox[b][k].id => j = k
Settles(b, k, s) == Runs!Grants(b, k, s) \/ Runs!Denies(b, k, s) \/ Runs!Forced(b, k, s)
AnswerIsLast(b, s) ==
  /\ \A k \in DOMAIN outbox[b] : Settles(b, k, s) =>
       /\ \A j \in DOMAIN inbox[b] : ~Runs!Asked(b, j, s, "prompt")
       /\ \A j \in DOMAIN outbox[b] : Runs!Closes(b, j, s) => j < k
       /\ \A t \in threads[b] : Runs!Active(b, t, s) => Runs!Denies(b, k, s) /\ Runs!Silenced(b, t, s)
  /\ \A k \in DOMAIN outbox[b] : Runs!Forced(b, k, s) =>
       \E j \in DOMAIN outbox[b] : k < j /\ Runs!Grants(b, j, s)

(* The two parts are the whole.                                                   *)
LEMMA CancelParts ==
  ASSUME NEW b, NEW s
  PROVE  Runs!CancelInOnePlace(b, s) <=> AnswerIsDue(b, s) /\ AnswerIsLast(b, s)
<1>1. Runs!CancelInOnePlace(b, s) => AnswerIsDue(b, s)
  BY DEF Runs!CancelInOnePlace, AnswerIsDue
<1>2. Runs!CancelInOnePlace(b, s) => AnswerIsLast(b, s)
  BY DEF Runs!CancelInOnePlace, AnswerIsLast, Settles
<1>3. AnswerIsDue(b, s) /\ AnswerIsLast(b, s) => Runs!CancelInOnePlace(b, s)
  BY DEF Runs!CancelInOnePlace, AnswerIsDue, AnswerIsLast, Settles
<1> QED
  BY <1>1, <1>2, <1>3

\* Lines of session s after a step are the ones before it, d or e places further back.
Ending == {"finished", "aborted", "failed", "refused"}
Replying == {"kept", "cancelled", "uncancelled"}
AskedKept(b, s, d, kind_) == \A k \in DOMAIN inbox'[b] : Runs!Asked(b, k, s, kind_)' =>
  k \in Nat /\ k + d \in DOMAIN inbox[b] /\ Runs!Asked(b, k + d, s, kind_) /\ inbox'[b][k] = inbox[b][k + d]
ToldKept(b, s, e, kinds) == \A k \in DOMAIN outbox'[b] : Runs!Told(b, k, s, kinds)' =>
  k \in Nat /\ k + e \in DOMAIN outbox[b] /\ Runs!Told(b, k + e, s, kinds) /\ outbox'[b][k] = outbox[b][k + e]
GrantsKept(b, s, e) == \A k \in DOMAIN outbox[b] : k > e /\ Runs!Grants(b, k, s) =>
  k - e \in Nat /\ k - e \in DOMAIN outbox'[b] /\ outbox'[b][k - e] = outbox[b][k]
\* Its turns are of the same prompts, no more of them on, and as silent as before.
TurnsKept(b, s) ==
  /\ \A t \in threads'[b] : t.session = s =>
       \E u \in threads[b] : u.session = s /\ u.prompt = t.prompt /\ (t.at # "last" => u.at # "last")
  /\ \A t \in threads'[b] : Runs!Active(b, t, s)' =>
       \E u \in threads[b] : /\ Runs!Active(b, u, s) /\ u.prompt = t.prompt
                             /\ Runs!Silenced(b, u, s) => Runs!Silenced(b, t, s)'
\* Its open run stays open, and its cancels go on waiting.
OpenKept(s) == \A n : Runs!IsOpen(s, n) => Runs!IsOpen(s, n)'
CallsKept(b, s) == \A x \in calls[b] : x.kind = "cancel" /\ x.session = s => x \in calls'[b]
JoinKept(b, s) ==
  /\ Runs!Joins(b, s)' => Runs!Joins(b, s) /\ procs'[b].joins = procs[b].joins
  /\ procs'[b].busy = s \/ Runs!Joins(b, s)' =>
       (procs[b].busy = s \/ Runs!Joins(b, s)) /\ procs'[b].thread = procs[b].thread

(* Closing and forced lines are of the kinds that end, replies of those that answer. *)
LEMMA KindsOfLines ==
  ASSUME NEW b, NEW s, NEW e, ToldKept(b, s, e, Ending)
  PROVE  /\ \A k \in DOMAIN outbox'[b] : Runs!Closes(b, k, s)' =>
              k \in Nat /\ k + e \in DOMAIN outbox[b] /\ Runs!Closes(b, k + e, s) /\ outbox'[b][k] = outbox[b][k + e]
         /\ \A k \in DOMAIN outbox'[b] : Runs!Forced(b, k, s)' =>
              k \in Nat /\ k + e \in DOMAIN outbox[b] /\ Runs!Forced(b, k + e, s) /\ outbox'[b][k] = outbox[b][k + e]
BY DEF ToldKept, Ending, Runs!Closes, Runs!Forced, Runs!Told

(* Likewise of answers.                                                           *)
LEMMA KindsOfReplies ==
  ASSUME NEW b, NEW s, NEW e, ToldKept(b, s, e, Replying)
  PROVE  /\ \A k \in DOMAIN outbox'[b] : Runs!Replies(b, k, s)' =>
              k \in Nat /\ k + e \in DOMAIN outbox[b] /\ Runs!Replies(b, k + e, s) /\ outbox'[b][k] = outbox[b][k + e]
         /\ \A k \in DOMAIN outbox'[b] : Runs!Grants(b, k, s)' =>
              k \in Nat /\ k + e \in DOMAIN outbox[b] /\ Runs!Grants(b, k + e, s) /\ outbox'[b][k] = outbox[b][k + e]
         /\ \A k \in DOMAIN outbox'[b] : Runs!Denies(b, k, s)' =>
              k \in Nat /\ k + e \in DOMAIN outbox[b] /\ Runs!Denies(b, k + e, s) /\ outbox'[b][k] = outbox[b][k + e]
BY DEF ToldKept, Replying, Runs!Replies, Runs!Grants, Runs!Denies, Runs!Told

\* The three clauses of RunInOnePlace.
PromptAhead(b, s) == \A k \in DOMAIN inbox[b] : Runs!Asked(b, k, s, "prompt") =>
  /\ Runs!IsOpen(s, inbox[b][k].id)
  /\ \A j \in DOMAIN inbox[b] : Runs!Asked(b, j, s, "prompt") => j = k
  /\ \A t \in threads[b] : t.session = s => t.at = "last" /\ t.prompt # inbox[b][k].id
  /\ \A j \in DOMAIN outbox[b] : ~Runs!Closes(b, j, s)
TurnIsOn(b, s) == \A t \in threads[b] : Runs!Active(b, t, s) =>
  /\ \A k \in DOMAIN outbox[b] : ~Runs!Closes(b, k, s)
  /\ Runs!IsOpen(s, t.prompt) \/ Runs!Silenced(b, t, s)
EndIsTold(b, s) == \A k \in DOMAIN outbox[b] : Runs!Closes(b, k, s) =>
  Runs!IsOpen(s, outbox[b][k].id) /\ \A j \in DOMAIN outbox[b] : Runs!Closes(b, j, s) => j = k

(* They are the whole of it.                                                      *)
LEMMA RunParts ==
  ASSUME NEW b, NEW s
  PROVE  Runs!RunInOnePlace(b, s) <=> PromptAhead(b, s) /\ TurnIsOn(b, s) /\ EndIsTold(b, s)
BY DEF Runs!RunInOnePlace, PromptAhead, TurnIsOn, EndIsTold

(* A run whose pieces are kept is in one place.                                   *)
LEMMA RunStays ==
  ASSUME NEW b, NEW s, NEW d \in {0, 1}, NEW e \in {0, 1}, Runs!RunInOnePlace(b, s),
         AskedKept(b, s, d, "prompt"), ToldKept(b, s, e, Ending), TurnsKept(b, s), OpenKept(s)
  PROVE  Runs!RunInOnePlace(b, s)'
<1>0. PromptAhead(b, s) /\ TurnIsOn(b, s) /\ EndIsTold(b, s)
  BY RunParts
<1>c. \A k \in DOMAIN outbox'[b] : Runs!Closes(b, k, s)' =>
        k \in Nat /\ k + e \in DOMAIN outbox[b] /\ Runs!Closes(b, k + e, s) /\ outbox'[b][k] = outbox[b][k + e]
  BY KindsOfLines
<1>o. \A n : Runs!IsOpen(s, n) => Runs!IsOpen(s, n)'
  BY DEF OpenKept
<1>1. ASSUME NEW k \in DOMAIN inbox'[b], Runs!Asked(b, k, s, "prompt")'
      PROVE  /\ Runs!IsOpen(s, inbox[b][k].id)'
             /\ \A j \in DOMAIN inbox'[b] : Runs!Asked(b, j, s, "prompt")' => j = k
             /\ \A t \in threads'[b] : t.session = s => t.at = "last" /\ t.prompt # inbox'[b][k].id
             /\ \A j \in DOMAIN outbox'[b] : ~Runs!Closes(b, j, s)'
  <2>1. /\ k \in Nat /\ k + d \in DOMAIN inbox[b] /\ Runs!Asked(b, k + d, s, "prompt")
        /\ inbox'[b][k] = inbox[b][k + d]
    BY <1>1 DEF AskedKept
  <2>2. /\ Runs!IsOpen(s, inbox[b][k + d].id)
        /\ \A j \in DOMAIN inbox[b] : Runs!Asked(b, j, s, "prompt") => j = k + d
        /\ \A t \in threads[b] : t.session = s => t.at = "last" /\ t.prompt # inbox[b][k + d].id
        /\ \A j \in DOMAIN outbox[b] : ~Runs!Closes(b, j, s)
    BY <1>0, <2>1 DEF PromptAhead
  <2>3. Runs!IsOpen(s, inbox[b][k].id)'
    <3>1. PICK n : n = inbox[b][k + d].id /\ n = inbox'[b][k].id
      BY <2>1
    <3>2. Runs!IsOpen(s, n)
      BY <2>2, <3>1
    <3>3. Runs!IsOpen(s, n)'
      BY <1>o, <3>2
    <3> QED
      BY <3>1, <3>3 DEF Runs!IsOpen
  <2>4. ASSUME NEW j \in DOMAIN inbox'[b], Runs!Asked(b, j, s, "prompt")' PROVE j = k
    <3>1. j \in Nat /\ Runs!Asked(b, j + d, s, "prompt") /\ j + d \in DOMAIN inbox[b]
      BY <2>4 DEF AskedKept
    <3> QED
      BY <2>1, <2>2, <3>1
  <2>5. \A t \in threads'[b] : t.session = s => t.at = "last" /\ t.prompt # inbox'[b][k].id
    BY <2>1, <2>2 DEF TurnsKept
  <2>6. \A j \in DOMAIN outbox'[b] : ~Runs!Closes(b, j, s)'
    BY <1>c, <2>2
  <2> QED
    BY <2>3, <2>4, <2>5, <2>6
<1>2. ASSUME NEW t \in threads'[b], Runs!Active(b, t, s)'
      PROVE  /\ \A k \in DOMAIN outbox'[b] : ~Runs!Closes(b, k, s)'
             /\ Runs!IsOpen(s, t.prompt)' \/ Runs!Silenced(b, t, s)'
  <2>1. PICK u \in threads[b] : /\ Runs!Active(b, u, s) /\ u.prompt = t.prompt
                                /\ Runs!Silenced(b, u, s) => Runs!Silenced(b, t, s)'
    BY <1>2 DEF TurnsKept
  <2>2. /\ \A k \in DOMAIN outbox[b] : ~Runs!Closes(b, k, s)
        /\ Runs!IsOpen(s, u.prompt) \/ Runs!Silenced(b, u, s)
    BY <1>0, <2>1 DEF TurnIsOn
  <2>3. \A j \in DOMAIN outbox'[b] : ~Runs!Closes(b, j, s)'
    BY <1>c, <2>2
  <2>4. Runs!IsOpen(s, u.prompt) => Runs!IsOpen(s, u.prompt)'
    BY <1>o
  <2> QED
    BY <2>1, <2>2, <2>3, <2>4
<1>3. ASSUME NEW k \in DOMAIN outbox'[b], Runs!Closes(b, k, s)'
      PROVE  /\ Runs!IsOpen(s, outbox[b][k].id)'
             /\ \A j \in DOMAIN outbox'[b] : Runs!Closes(b, j, s)' => j = k
  <2>1. k \in Nat /\ k + e \in DOMAIN outbox[b] /\ Runs!Closes(b, k + e, s) /\ outbox'[b][k] = outbox[b][k + e]
    BY <1>3, <1>c
  <2>2. /\ Runs!IsOpen(s, outbox[b][k + e].id)
        /\ \A j \in DOMAIN outbox[b] : Runs!Closes(b, j, s) => j = k + e
    BY <1>0, <2>1 DEF EndIsTold
  <2>3. Runs!IsOpen(s, outbox[b][k].id)'
    <3>1. PICK n : n = outbox[b][k + e].id /\ n = outbox'[b][k].id
      BY <2>1
    <3>2. Runs!IsOpen(s, n)
      BY <2>2, <3>1
    <3>3. Runs!IsOpen(s, n)'
      BY <1>o, <3>2
    <3> QED
      BY <3>1, <3>3 DEF Runs!IsOpen
  <2>4. ASSUME NEW j \in DOMAIN outbox'[b], Runs!Closes(b, j, s)' PROVE j = k
    <3>1. j \in Nat /\ j + e \in DOMAIN outbox[b] /\ Runs!Closes(b, j + e, s)
      BY <1>c, <2>4
    <3> QED
      BY <2>1, <2>2, <3>1
  <2> QED
    BY <2>3, <2>4
<1>4. PromptAhead(b, s)' /\ TurnIsOn(b, s)' /\ EndIsTold(b, s)'
  BY <1>1, <1>2, <1>3 DEF PromptAhead, TurnIsOn, EndIsTold
<1> QED
  BY <1>4 DEF Runs!RunInOnePlace, PromptAhead, TurnIsOn, EndIsTold

\* The answers of session s after a step were there before, or are a new one to cancel c.
RepliesGain(b, s, e, l, c, new_) == \A k \in DOMAIN outbox'[b] : Runs!Replies(b, k, s)' => k \in Nat /\
  \/ k + e \in DOMAIN outbox[b] /\ Runs!Replies(b, k + e, s) /\ outbox'[b][k] = outbox[b][k + e]
  \/ new_ = 1 /\ k = l /\ outbox'[b][k].id = c
\* Cancel c still waits, and is nowhere else.
AnswersOne(b, s, c) ==
  /\ Runs!Line("cancel", s, c) \in calls[b]
  /\ \A j \in DOMAIN outbox[b] : Runs!Replies(b, j, s) => outbox[b][j].id # c
  /\ \A k \in DOMAIN inbox'[b] : Runs!Asked(b, k, s, "cancel")' => inbox'[b][k].id # c
  /\ Runs!Joins(b, s)' => procs'[b].joins # c

\* Who waits for a turn's end waited before, and the turn that is on is the last thread.
JoinStays(b, s) ==
  /\ Runs!Joins(b, s)' => Runs!Joins(b, s) /\ procs'[b].joins = procs[b].joins
  /\ procs'[b].busy = s \/ Runs!Joins(b, s)' =>
       \A t \in threads'[b] : Runs!Active(b, t, s)' => t.prompt = procs'[b].thread

(* So it is where the turns and the wait are kept.                                *)
LEMMA JoinAndTurns ==
  ASSUME NEW b, NEW s, AnswerIsDue(b, s), TurnsKept(b, s), JoinKept(b, s)
  PROVE  JoinStays(b, s)
<1>1. ASSUME procs'[b].busy = s \/ Runs!Joins(b, s)', NEW t \in threads'[b], Runs!Active(b, t, s)'
      PROVE  t.prompt = procs'[b].thread
  <2>1. PICK u \in threads[b] : Runs!Active(b, u, s) /\ u.prompt = t.prompt
    BY <1>1 DEF TurnsKept
  <2>2. (procs[b].busy = s \/ Runs!Joins(b, s)) /\ procs'[b].thread = procs[b].thread
    BY <1>1 DEF JoinKept
  <2> QED
    BY <2>1, <2>2 DEF AnswerIsDue
<1> QED
  BY <1>1 DEF JoinStays, JoinKept

(* Cancels whose pieces are kept are in one place, and so is one that is answered. *)
LEMMA DueStays ==
  ASSUME NEW b, NEW s, NEW d \in {0, 1}, NEW e \in {0, 1}, NEW l, NEW c, NEW new_ \in {0, 1},
         AnswerIsDue(b, s), AskedKept(b, s, d, "prompt"), AskedKept(b, s, d, "cancel"),
         RepliesGain(b, s, e, l, c, new_), new_ = 1 => AnswersOne(b, s, c),
         \A k \in DOMAIN inbox'[b] : Runs!Asked(b, k, s, "cancel")' => inbox'[b][k] \in calls'[b],
         Runs!Joins(b, s)' => Runs!Line("cancel", s, procs'[b].joins) \in calls'[b],
         \A k \in DOMAIN outbox'[b] : Runs!Replies(b, k, s)' =>
           Runs!Line("cancel", s, outbox'[b][k].id) \in calls'[b],
         JoinStays(b, s)
  PROVE  AnswerIsDue(b, s)'
<1>r. ASSUME NEW k \in DOMAIN outbox'[b], Runs!Replies(b, k, s)'
      PROVE  k \in Nat /\ (\/ k + e \in DOMAIN outbox[b] /\ Runs!Replies(b, k + e, s) /\ outbox'[b][k] = outbox[b][k + e]
                           \/ new_ = 1 /\ k = l /\ outbox'[b][k].id = c /\ AnswersOne(b, s, c))
  BY <1>r DEF RepliesGain
<1>a. \A kk \in {"prompt", "cancel"} : \A k \in DOMAIN inbox'[b] : Runs!Asked(b, k, s, kk)' =>
        k \in Nat /\ k + d \in DOMAIN inbox[b] /\ Runs!Asked(b, k + d, s, kk) /\ inbox'[b][k] = inbox[b][k + d]
  BY DEF AskedKept
<1>j. Runs!Joins(b, s)' => Runs!Joins(b, s) /\ procs'[b].joins = procs[b].joins
  BY DEF JoinStays
<1>1. ASSUME NEW k \in DOMAIN inbox'[b], Runs!Asked(b, k, s, "cancel")'
      PROVE  /\ \A j \in DOMAIN inbox'[b] :
                  /\ Runs!Asked(b, j, s, "prompt")' => j < k
                  /\ Runs!Asked(b, j, s, "cancel")' /\ inbox'[b][j].id = inbox'[b][k].id => j = k
             /\ Runs!Joins(b, s)' => procs'[b].joins # inbox'[b][k].id
             /\ \A j \in DOMAIN outbox'[b] : Runs!Replies(b, j, s)' => outbox'[b][j].id # inbox'[b][k].id
  <2>1. /\ k \in Nat /\ k + d \in DOMAIN inbox[b] /\ Runs!Asked(b, k + d, s, "cancel")
        /\ inbox'[b][k] = inbox[b][k + d]
    BY <1>1, <1>a
  <2>2. /\ \A j \in DOMAIN inbox[b] :
             /\ Runs!Asked(b, j, s, "prompt") => j < k + d
             /\ Runs!Asked(b, j, s, "cancel") /\ inbox[b][j].id = inbox[b][k + d].id => j = k + d
        /\ Runs!Joins(b, s) => procs[b].joins # inbox[b][k + d].id
        /\ \A j \in DOMAIN outbox[b] : Runs!Replies(b, j, s) => outbox[b][j].id # inbox[b][k + d].id
    BY <2>1 DEF AnswerIsDue
  <2>3. ASSUME NEW j \in DOMAIN inbox'[b], Runs!Asked(b, j, s, "prompt")' PROVE j < k
    <3>1. j \in Nat /\ Runs!Asked(b, j + d, s, "prompt") /\ j + d \in DOMAIN inbox[b]
      BY <1>a, <2>3
    <3> QED
      BY <2>1, <2>2, <3>1
  <2>4. ASSUME NEW j \in DOMAIN inbox'[b], Runs!Asked(b, j, s, "cancel")', inbox'[b][j].id = inbox'[b][k].id
        PROVE  j = k
    <3>1. /\ j \in Nat /\ Runs!Asked(b, j + d, s, "cancel") /\ j + d \in DOMAIN inbox[b]
          /\ inbox'[b][j] = inbox[b][j + d]
      BY <1>a, <2>4
    <3>2. inbox[b][j + d].id = inbox[b][k + d].id
      BY <2>1, <2>4, <3>1
    <3>3. j + d = k + d
      BY <2>2, <3>1, <3>2
    <3> QED
      BY <2>1, <3>1, <3>3
  <2>5. ASSUME NEW j \in DOMAIN outbox'[b], Runs!Replies(b, j, s)' PROVE outbox'[b][j].id # inbox'[b][k].id
    <3>1. CASE j + e \in DOMAIN outbox[b] /\ Runs!Replies(b, j + e, s) /\ outbox'[b][j] = outbox[b][j + e]
      BY <2>1, <2>2, <3>1
    <3>2. CASE outbox'[b][j].id = c /\ AnswersOne(b, s, c)
      BY <1>1, <3>2 DEF AnswersOne
    <3> QED
      BY <1>r, <2>5, <3>1, <3>2
  <2>6. Runs!Joins(b, s)' => procs'[b].joins # inbox'[b][k].id
    BY <1>j, <2>1, <2>2
  <2> QED
    BY <2>3, <2>4, <2>5, <2>6
<1>2. ASSUME procs'[b].busy = s \/ Runs!Joins(b, s)', NEW t \in threads'[b], Runs!Active(b, t, s)'
      PROVE  t.prompt = procs'[b].thread
  BY <1>2 DEF JoinStays
<1>3. ASSUME Runs!Joins(b, s)'
      PROVE  /\ \A k \in DOMAIN inbox'[b] : ~Runs!Asked(b, k, s, "prompt")'
             /\ \A k \in DOMAIN outbox'[b] : Runs!Replies(b, k, s)' => outbox'[b][k].id # procs'[b].joins
  <2>1. Runs!Joins(b, s) /\ procs'[b].joins = procs[b].joins
    BY <1>3, <1>j
  <2>2. /\ \A k \in DOMAIN inbox[b] : ~Runs!Asked(b, k, s, "prompt")
        /\ \A k \in DOMAIN outbox[b] : Runs!Replies(b, k, s) => outbox[b][k].id # procs[b].joins
    BY <2>1 DEF AnswerIsDue
  <2>3. ASSUME NEW k \in DOMAIN outbox'[b], Runs!Replies(b, k, s)' PROVE outbox'[b][k].id # procs'[b].joins
    <3>1. CASE k + e \in DOMAIN outbox[b] /\ Runs!Replies(b, k + e, s) /\ outbox'[b][k] = outbox[b][k + e]
      BY <2>1, <2>2, <3>1
    <3>2. CASE outbox'[b][k].id = c /\ AnswersOne(b, s, c)
      BY <1>3, <3>2 DEF AnswersOne
    <3> QED
      BY <1>r, <2>3, <3>1, <3>2
  <2>4. \A k \in DOMAIN inbox'[b] : ~Runs!Asked(b, k, s, "prompt")'
    BY <1>a, <2>2
  <2> QED
    BY <2>3, <2>4
<1>4. ASSUME NEW k \in DOMAIN outbox'[b], Runs!Replies(b, k, s)', NEW j \in DOMAIN outbox'[b],
             Runs!Replies(b, j, s)', outbox'[b][j].id = outbox'[b][k].id
      PROVE  j = k
  <2> DEFINE Old(m) == m + e \in DOMAIN outbox[b] /\ Runs!Replies(b, m + e, s) /\ outbox'[b][m] = outbox[b][m + e]
             New(m) == new_ = 1 /\ m = l /\ outbox'[b][m].id = c /\ AnswersOne(b, s, c)
  <2>1. k \in Nat /\ j \in Nat /\ (Old(k) \/ New(k)) /\ (Old(j) \/ New(j))
    BY <1>r, <1>4
  <2>2. CASE Old(k) /\ Old(j)
    <3>1. outbox[b][j + e].id = outbox[b][k + e].id
      BY <1>4, <2>2
    <3>2. j + e = k + e
      BY <2>2, <3>1 DEF AnswerIsDue
    <3> QED
      BY <2>1, <3>2
  <2>3. \A m, n : Old(m) /\ New(n) => outbox'[b][m].id # c
    BY DEF AnswersOne
  <2>4. CASE Old(k) /\ New(j)
    BY <1>4, <2>3, <2>4
  <2>5. CASE New(k) /\ Old(j)
    BY <1>4, <2>3, <2>5
  <2>6. CASE New(k) /\ New(j)
    BY <2>6
  <2> QED
    BY <2>1, <2>2, <2>4, <2>5, <2>6
<1> QED
  BY <1>1, <1>2, <1>3, <1>4 DEF AnswerIsDue

(* What an answer means stays, where the pieces are kept.                         *)
LEMMA LastStays ==
  ASSUME NEW b, NEW s, NEW d \in {0, 1}, NEW e \in {0, 1}, AnswerIsLast(b, s),
         AskedKept(b, s, d, "prompt"), ToldKept(b, s, e, Ending), ToldKept(b, s, e, Replying),
         GrantsKept(b, s, e), TurnsKept(b, s), DOMAIN outbox[b] \subseteq Nat
  PROVE  AnswerIsLast(b, s)'
<1>c. /\ \A k \in DOMAIN outbox'[b] : Runs!Closes(b, k, s)' =>
           k \in Nat /\ k + e \in DOMAIN outbox[b] /\ Runs!Closes(b, k + e, s) /\ outbox'[b][k] = outbox[b][k + e]
      /\ \A k \in DOMAIN outbox'[b] : Runs!Forced(b, k, s)' =>
           k \in Nat /\ k + e \in DOMAIN outbox[b] /\ Runs!Forced(b, k + e, s) /\ outbox'[b][k] = outbox[b][k + e]
  BY KindsOfLines
<1>g. /\ \A k \in DOMAIN outbox'[b] : Runs!Grants(b, k, s)' =>
           k \in Nat /\ k + e \in DOMAIN outbox[b] /\ Runs!Grants(b, k + e, s) /\ outbox'[b][k] = outbox[b][k + e]
      /\ \A k \in DOMAIN outbox'[b] : Runs!Denies(b, k, s)' =>
           k \in Nat /\ k + e \in DOMAIN outbox[b] /\ Runs!Denies(b, k + e, s) /\ outbox'[b][k] = outbox[b][k + e]
  BY KindsOfReplies
<1>1. ASSUME NEW k \in DOMAIN outbox'[b], Settles(b, k, s)'
      PROVE  /\ \A j \in DOMAIN inbox'[b] : ~Runs!Asked(b, j, s, "prompt")'
             /\ \A j \in DOMAIN outbox'[b] : Runs!Closes(b, j, s)' => j < k
             /\ \A t \in threads'[b] : Runs!Active(b, t, s)' => Runs!Denies(b, k, s)' /\ Runs!Silenced(b, t, s)'
  <2>1. k \in Nat /\ k + e \in DOMAIN outbox[b] /\ Settles(b, k + e, s) /\ outbox'[b][k] = outbox[b][k + e]
    BY <1>1, <1>c, <1>g DEF Settles
  <2>2. /\ \A j \in DOMAIN inbox[b] : ~Runs!Asked(b, j, s, "prompt")
        /\ \A j \in DOMAIN outbox[b] : Runs!Closes(b, j, s) => j < k + e
        /\ \A t \in threads[b] : Runs!Active(b, t, s) => Runs!Denies(b, k + e, s) /\ Runs!Silenced(b, t, s)
    BY <2>1 DEF AnswerIsLast
  <2>3. \A j \in DOMAIN inbox'[b] : ~Runs!Asked(b, j, s, "prompt")'
    BY <2>2 DEF AskedKept
  <2>4. ASSUME NEW j \in DOMAIN outbox'[b], Runs!Closes(b, j, s)' PROVE j < k
    <3>1. j \in Nat /\ j + e \in DOMAIN outbox[b] /\ Runs!Closes(b, j + e, s)
      BY <1>c, <2>4
    <3> QED
      BY <2>1, <2>2, <3>1
  <2>5. ASSUME NEW t \in threads'[b], Runs!Active(b, t, s)'
        PROVE  Runs!Denies(b, k, s)' /\ Runs!Silenced(b, t, s)'
    <3>1. PICK u \in threads[b] : Runs!Active(b, u, s) /\ (Runs!Silenced(b, u, s) => Runs!Silenced(b, t, s)')
      BY <2>5 DEF TurnsKept
    <3>2. Runs!Denies(b, k + e, s) /\ Runs!Silenced(b, t, s)'
      BY <2>2, <3>1
    <3> QED
      BY <2>1, <3>2 DEF Runs!Denies, Runs!Told
  <2> QED
    BY <2>3, <2>4, <2>5
<1>2. ASSUME NEW k \in DOMAIN outbox'[b], Runs!Forced(b, k, s)'
      PROVE  \E j \in DOMAIN outbox'[b] : k < j /\ Runs!Grants(b, j, s)'
  <2>1. k \in Nat /\ k + e \in DOMAIN outbox[b] /\ Runs!Forced(b, k + e, s)
    BY <1>2, <1>c
  <2>2. PICK j \in DOMAIN outbox[b] : k + e < j /\ Runs!Grants(b, j, s)
    BY <2>1 DEF AnswerIsLast
  <2>3. j \in Nat /\ j > e
    BY <2>1, <2>2
  <2>4. j - e \in Nat /\ j - e \in DOMAIN outbox'[b] /\ outbox'[b][j - e] = outbox[b][j]
    BY <2>2, <2>3 DEF GrantsKept
  <2>5. k < j - e
    BY <2>1, <2>2, <2>3
  <2>6. Runs!Grants(b, j - e, s)'
    BY <2>2, <2>4 DEF Runs!Grants, Runs!Told
  <2> QED
    BY <2>4, <2>5, <2>6
<1> QED
  BY <1>1, <1>2 DEF AnswerIsLast

(* What an answer means stays, where lines are only added behind the others.      *)
LEMMA LastGains ==
  ASSUME NEW b, NEW s, NEW d \in {0, 1}, outbox[b] \in Seq(OutRows), AnswerIsLast(b, s),
         AskedKept(b, s, d, "prompt"), TurnsKept(b, s),
         \A k \in DOMAIN outbox'[b] : Runs!Closes(b, k, s)' =>
           k \in DOMAIN outbox[b] /\ outbox'[b][k] = outbox[b][k],
         \A k \in DOMAIN outbox[b] : k \in DOMAIN outbox'[b] /\ outbox'[b][k] = outbox[b][k],
         \A k \in DOMAIN outbox'[b] : Settles(b, k, s)' /\ k \notin DOMAIN outbox[b] =>
           /\ k \in Nat /\ k > Len(outbox[b])
           /\ \A j \in DOMAIN inbox'[b] : ~Runs!Asked(b, j, s, "prompt")'
           /\ \A t \in threads'[b] : Runs!Active(b, t, s)' => Runs!Denies(b, k, s)' /\ Runs!Silenced(b, t, s)',
         \A k \in DOMAIN outbox'[b] : Runs!Forced(b, k, s)' /\ k \notin DOMAIN outbox[b] =>
           \E j \in DOMAIN outbox'[b] : k < j /\ Runs!Grants(b, j, s)'
  PROVE  AnswerIsLast(b, s)'
<1>0. \A j \in DOMAIN outbox[b] : j \in Nat /\ j <= Len(outbox[b])
  OBVIOUS
<1>l. Len(outbox[b]) \in Nat
  OBVIOUS
<1>c. \A k \in DOMAIN outbox'[b] : Runs!Closes(b, k, s)' => k \in DOMAIN outbox[b] /\ Runs!Closes(b, k, s)
  BY DEF Runs!Closes, Runs!Forced, Runs!Told
<1>1. ASSUME NEW k \in DOMAIN outbox'[b], Settles(b, k, s)'
      PROVE  /\ \A j \in DOMAIN inbox'[b] : ~Runs!Asked(b, j, s, "prompt")'
             /\ \A j \in DOMAIN outbox'[b] : Runs!Closes(b, j, s)' => j < k
             /\ \A t \in threads'[b] : Runs!Active(b, t, s)' => Runs!Denies(b, k, s)' /\ Runs!Silenced(b, t, s)'
  <2>1. CASE k \in DOMAIN outbox[b]
    <3>0. outbox'[b][k] = outbox[b][k]
      BY <2>1
    <3>1. Settles(b, k, s)
      BY <1>1, <2>1, <3>0 DEF Settles, Runs!Grants, Runs!Denies, Runs!Forced, Runs!Told
    <3>2. /\ \A j \in DOMAIN inbox[b] : ~Runs!Asked(b, j, s, "prompt")
          /\ \A j \in DOMAIN outbox[b] : Runs!Closes(b, j, s) => j < k
          /\ \A t \in threads[b] : Runs!Active(b, t, s) => Runs!Denies(b, k, s) /\ Runs!Silenced(b, t, s)
      BY <2>1, <3>1 DEF AnswerIsLast
    <3>3. \A j \in DOMAIN inbox'[b] : ~Runs!Asked(b, j, s, "prompt")'
      BY <3>2 DEF AskedKept
    <3>4. \A j \in DOMAIN outbox'[b] : Runs!Closes(b, j, s)' => j < k
      BY <1>c, <3>2
    <3>5. ASSUME NEW t \in threads'[b], Runs!Active(b, t, s)'
          PROVE  Runs!Denies(b, k, s)' /\ Runs!Silenced(b, t, s)'
      <4>1. PICK u \in threads[b] : Runs!Active(b, u, s) /\ (Runs!Silenced(b, u, s) => Runs!Silenced(b, t, s)')
        BY <3>5 DEF TurnsKept
      <4>2. Runs!Denies(b, k, s) /\ Runs!Silenced(b, t, s)'
        BY <3>2, <4>1
      <4> QED
        BY <1>1, <3>0, <4>2 DEF Runs!Denies, Runs!Told
    <3> QED
      BY <3>3, <3>4, <3>5
  <2>2. CASE k \notin DOMAIN outbox[b]
    <3>1. /\ k \in Nat /\ k > Len(outbox[b])
          /\ \A j \in DOMAIN inbox'[b] : ~Runs!Asked(b, j, s, "prompt")'
          /\ \A t \in threads'[b] : Runs!Active(b, t, s)' => Runs!Denies(b, k, s)' /\ Runs!Silenced(b, t, s)'
      BY <1>1, <2>2
    <3>2. \A j \in DOMAIN outbox'[b] : Runs!Closes(b, j, s)' => j < k
      BY <1>0, <1>c, <1>l, <3>1
    <3> QED
      BY <3>1, <3>2
  <2> QED
    BY <2>1, <2>2
<1>2. ASSUME NEW k \in DOMAIN outbox'[b], Runs!Forced(b, k, s)', k \in DOMAIN outbox[b]
      PROVE  \E j \in DOMAIN outbox'[b] : k < j /\ Runs!Grants(b, j, s)'
  <2>1. Runs!Forced(b, k, s)
    BY <1>2 DEF Runs!Forced, Runs!Told
  <2>2. PICK j \in DOMAIN outbox[b] : k < j /\ Runs!Grants(b, j, s)
    BY <1>2, <2>1 DEF AnswerIsLast
  <2>3. j \in DOMAIN outbox'[b] /\ Runs!Grants(b, j, s)'
    BY <2>2 DEF Runs!Grants, Runs!Told
  <2> QED
    BY <2>2, <2>3
<1> QED
  BY <1>1, <1>2 DEF AnswerIsLast

\* Of session s nothing happens to the lines, but that lines of others go or come.
Apart(b, s, d, e) ==
  /\ \A k \in DOMAIN inbox'[b] : k \in Nat /\
       (inbox'[b][k].session = s => k + d \in DOMAIN inbox[b] /\ inbox'[b][k] = inbox[b][k + d])
  /\ \A k \in DOMAIN outbox'[b] : k \in Nat /\
       (outbox'[b][k].session = s /\ outbox'[b][k].kind # "accepted" =>
          k + e \in DOMAIN outbox[b] /\ outbox'[b][k] = outbox[b][k + e])
  /\ \A k \in DOMAIN outbox[b] : k \in Nat /\
       (k > e => k - e \in DOMAIN outbox'[b] /\ outbox'[b][k - e] = outbox[b][k])
  /\ procs'[b].state = "up" => procs[b].state = "up" \/ inbox[b] = <<>>
\* Nor to its turns.
SameTurns(b, s) ==
  /\ \A t \in threads'[b] : t.session = s => t \in threads[b]
  /\ s \in procs[b].cancelled => s \in procs'[b].cancelled

(* Then its lines are kept,                                                       *)
LEMMA ApartKept ==
  ASSUME NEW b, NEW s, NEW d \in {0, 1}, NEW e \in {0, 1}, Apart(b, s, d, e)
  PROVE  /\ AskedKept(b, s, d, "prompt") /\ AskedKept(b, s, d, "cancel")
         /\ ToldKept(b, s, e, Ending) /\ ToldKept(b, s, e, Replying) /\ GrantsKept(b, s, e)
<1>1. ASSUME NEW kk \in {"prompt", "cancel"}, NEW k \in DOMAIN inbox'[b], Runs!Asked(b, k, s, kk)'
      PROVE  /\ k \in Nat /\ k + d \in DOMAIN inbox[b] /\ Runs!Asked(b, k + d, s, kk)
             /\ inbox'[b][k] = inbox[b][k + d]
  <2>1. inbox'[b][k].session = s /\ inbox'[b][k].kind = kk /\ procs'[b].state = "up"
    BY <1>1 DEF Runs!Asked
  <2>2. k \in Nat /\ k + d \in DOMAIN inbox[b] /\ inbox'[b][k] = inbox[b][k + d]
    BY <2>1 DEF Apart
  <2>3. procs[b].state = "up"
    <3>1. CASE inbox[b] = <<>>
      BY <2>2, <3>1
    <3> QED
      BY <2>1, <3>1 DEF Apart
  <2> QED
    BY <2>1, <2>2, <2>3 DEF Runs!Asked
<1>2. ASSUME NEW kinds \in {Ending, Replying}, NEW k \in DOMAIN outbox'[b], Runs!Told(b, k, s, kinds)'
      PROVE  /\ k \in Nat /\ k + e \in DOMAIN outbox[b] /\ Runs!Told(b, k + e, s, kinds)
             /\ outbox'[b][k] = outbox[b][k + e]
  <2>1. outbox'[b][k].session = s /\ outbox'[b][k].kind \in kinds /\ outbox'[b][k].kind # "accepted"
    BY <1>2 DEF Runs!Told, Ending, Replying
  <2>2. k \in Nat /\ k + e \in DOMAIN outbox[b] /\ outbox'[b][k] = outbox[b][k + e]
    BY <2>1 DEF Apart
  <2> QED
    BY <2>1, <2>2 DEF Runs!Told
<1>3. GrantsKept(b, s, e)
  <2> SUFFICES ASSUME NEW k \in DOMAIN outbox[b], k > e
               PROVE  k - e \in Nat /\ k - e \in DOMAIN outbox'[b] /\ outbox'[b][k - e] = outbox[b][k]
    BY DEF GrantsKept
  <2>1. k \in Nat /\ k - e \in DOMAIN outbox'[b] /\ outbox'[b][k - e] = outbox[b][k]
    BY DEF Apart
  <2> QED
    BY <2>1
<1> QED
  BY <1>1, <1>2, <1>3 DEF AskedKept, ToldKept

(* its turns are,                                                                 *)
LEMMA SameTurnsKept ==
  ASSUME NEW b, NEW s, SameTurns(b, s)
  PROVE  TurnsKept(b, s)
<1>1. ASSUME NEW t \in threads'[b], Runs!Active(b, t, s)'
      PROVE  t \in threads[b] /\ Runs!Active(b, t, s) /\ (Runs!Silenced(b, t, s) => Runs!Silenced(b, t, s)')
  <2>1. t.session = s /\ t \in threads[b] /\ Runs!Active(b, t, s)
    BY <1>1 DEF Runs!Active, SameTurns
  <2>2. Runs!Silenced(b, t, s) => Runs!Silenced(b, t, s)'
    BY DEF Runs!Silenced, SameTurns
  <2> QED
    BY <2>1, <2>2
<1> QED
  BY <1>1 DEF SameTurns, TurnsKept

(* and it is as much in place as it was.                                          *)
LEMMA Elsewhere ==
  ASSUME NEW b, NEW s, NEW d \in {0, 1}, NEW e \in {0, 1}, Apart(b, s, d, e), TurnsKept(b, s),
         OpenKept(s), CallsKept(b, s), JoinKept(b, s),
         Runs!RunInOnePlace(b, s), Runs!CancelInOnePlace(b, s)
  PROVE  Runs!RunInOnePlace(b, s)' /\ Runs!CancelInOnePlace(b, s)'
<1>1. /\ AskedKept(b, s, d, "prompt") /\ AskedKept(b, s, d, "cancel")
      /\ ToldKept(b, s, e, Ending) /\ ToldKept(b, s, e, Replying) /\ GrantsKept(b, s, e)
  BY ApartKept
<1>2. AnswerIsDue(b, s) /\ AnswerIsLast(b, s)
  BY CancelParts
<1>3. Runs!RunInOnePlace(b, s)'
  BY <1>1, RunStays
<1>4. DOMAIN outbox[b] \subseteq Nat
  BY DEF Apart
<1>5. AnswerIsLast(b, s)'
  BY <1>1, <1>2, <1>4, LastStays
<1>6. RepliesGain(b, s, e, 0, 0, 0)
  BY <1>1, KindsOfReplies DEF RepliesGain
<1>7. \A n : Runs!Line("cancel", s, n) \in calls[b] => Runs!Line("cancel", s, n) \in calls'[b]
  BY DEF CallsKept, Runs!Line
<1>8. ASSUME NEW k \in DOMAIN inbox'[b], Runs!Asked(b, k, s, "cancel")' PROVE inbox'[b][k] \in calls'[b]
  <2>1. k + d \in DOMAIN inbox[b] /\ Runs!Asked(b, k + d, s, "cancel") /\ inbox'[b][k] = inbox[b][k + d]
    BY <1>1, <1>8 DEF AskedKept
  <2>2. inbox[b][k + d] \in calls[b]
    BY <1>2, <2>1 DEF AnswerIsDue
  <2> QED
    BY <2>1, <2>2 DEF CallsKept, Runs!Asked
<1>9. Runs!Joins(b, s)' => Runs!Line("cancel", s, procs'[b].joins) \in calls'[b]
  BY <1>2, <1>7 DEF JoinKept, AnswerIsDue
<1>10. ASSUME NEW k \in DOMAIN outbox'[b], Runs!Replies(b, k, s)'
       PROVE  Runs!Line("cancel", s, outbox'[b][k].id) \in calls'[b]
  <2>1. k + e \in DOMAIN outbox[b] /\ Runs!Replies(b, k + e, s) /\ outbox'[b][k] = outbox[b][k + e]
    BY <1>1, <1>10, KindsOfReplies
  <2>2. Runs!Line("cancel", s, outbox[b][k + e].id) \in calls[b]
    BY <1>2, <2>1 DEF AnswerIsDue
  <2> QED
    BY <1>7, <2>1, <2>2
<1>11. AnswerIsDue(b, s)'
  BY <1>1, <1>2, <1>6, <1>8, <1>9, <1>10, DueStays, JoinAndTurns
<1> QED
  BY <1>3, <1>5, <1>11, CancelParts, PTL

-------------------------------------------------------------------------------
(* Each step keeps a run and a cancel where they are                              *)

\* Of its lines to read, a process takes none or the first; it writes behind the others,
\* and to session s nothing that matters.
Heads(b, d) == \/ d = 0 /\ inbox'[b] = inbox[b]
               \/ d = 1 /\ inbox[b] # <<>> /\ inbox'[b] = Tail(inbox[b])
WritesBehind(b) ==
  /\ \A k \in DOMAIN outbox'[b] : k \in Nat /\
       ((k \in DOMAIN outbox[b] /\ outbox'[b][k] = outbox[b][k]) \/ k > Len(outbox[b]))
  /\ \A k \in DOMAIN outbox[b] : k \in Nat /\ k <= Len(outbox[b]) /\ k \in DOMAIN outbox'[b]
                                 /\ outbox'[b][k] = outbox[b][k]
SaysNothing(b, s) == \A k \in DOMAIN outbox'[b] :
  k > Len(outbox[b]) => outbox'[b][k].session # s \/ outbox'[b][k].kind = "accepted"

(* The lines that are left are those behind it.                                   *)
LEMMA HeadsKeep ==
  ASSUME NEW b, NEW d \in {0, 1}, inbox[b] \in Seq(InRows), Heads(b, d)
  PROVE  \A k \in DOMAIN inbox'[b] : /\ k \in Nat /\ k >= 1 /\ k + d \in DOMAIN inbox[b]
                                     /\ inbox'[b][k] = inbox[b][k + d]
<1>1. CASE d = 0
  <2>1. inbox'[b] = inbox[b] /\ \A k \in DOMAIN inbox[b] : k \in Nat /\ k >= 1 /\ k + 0 = k
    BY <1>1 DEF Heads
  <2> QED
    BY <1>1, <2>1
<1>2. CASE d = 1
  <2>1. inbox[b] # <<>> /\ inbox'[b] = Tail(inbox[b])
    BY <1>2 DEF Heads
  <2>2. \A k \in DOMAIN Tail(inbox[b]) : k \in Nat /\ k >= 1 /\ k + 1 \in DOMAIN inbox[b]
                                          /\ Tail(inbox[b])[k] = inbox[b][k + 1]
    BY <2>1, Tails
  <2> QED
    BY <1>2, <2>1, <2>2
<1> QED
  BY <1>1, <1>2

(* One line is written, or none.                                                  *)
LEMMA OneBehind ==
  ASSUME NEW b, outbox[b] \in Seq(OutRows), NEW y \in OutRows, outbox'[b] = Append(outbox[b], y)
  PROVE  /\ WritesBehind(b) /\ Len(outbox[b]) \in Nat
         /\ \A k \in DOMAIN outbox'[b] : k \notin DOMAIN outbox[b] =>
              k = Len(outbox[b]) + 1 /\ outbox'[b][k] = y
         /\ \A k \in DOMAIN outbox'[b] : k > Len(outbox[b]) => outbox'[b][k] = y
         /\ \A s : y.session # s \/ y.kind = "accepted" => SaysNothing(b, s)
<1>1. /\ Len(outbox[b]) \in Nat /\ \A k \in DOMAIN outbox[b] : k \in Nat /\ k <= Len(outbox[b])
      /\ \A k \in DOMAIN outbox'[b] : \/ k \in DOMAIN outbox[b] /\ outbox'[b][k] = outbox[b][k]
                                      \/ k = Len(outbox[b]) + 1 /\ outbox'[b][k] = y
  BY Appends
<1>2. \A k \in DOMAIN outbox[b] : k \in DOMAIN outbox'[b] /\ outbox'[b][k] = outbox[b][k]
  OBVIOUS
<1>3. WritesBehind(b)
  BY <1>1, <1>2 DEF WritesBehind
<1>4. \A k \in DOMAIN outbox'[b] : k > Len(outbox[b]) => outbox'[b][k] = y
  BY <1>1
<1> QED
  BY <1>1, <1>3, <1>4 DEF SaysNothing

(* None.                                                                          *)
LEMMA NoneBehind ==
  ASSUME NEW b, outbox[b] \in Seq(OutRows), outbox'[b] = outbox[b]
  PROVE  /\ WritesBehind(b) /\ \A s : SaysNothing(b, s)
         /\ \A k \in DOMAIN outbox'[b] : k \in DOMAIN outbox[b]
<1>1. Len(outbox[b]) \in Nat /\ \A k \in DOMAIN outbox[b] : k \in Nat /\ k <= Len(outbox[b])
  OBVIOUS
<1> QED
  BY <1>1 DEF WritesBehind, SaysNothing

(* What a session waits for is kept, where the loop goes on or stops waiting.     *)
LEMMA JoinIsKept ==
  ASSUME NEW b, NEW s \in Sessions, procs'[b].thread = procs[b].thread,
         procs'[b].joins \in {0, procs[b].joins}, procs'[b].busy \in {None, procs[b].busy},
         procs[b].joins # 0 => prompts'[procs[b].thread].session = prompts[procs[b].thread].session
  PROVE  JoinKept(b, s)
<1>1. Runs!Joins(b, s)' => Runs!Joins(b, s) /\ procs'[b].joins = procs[b].joins
  BY DEF Runs!Joins, Runs!JoinedFor
<1>2. procs'[b].busy = s => procs[b].busy = s
  BY RunsAssumption
<1> QED
  BY <1>1, <1>2 DEF JoinKept

(* What a process does for another session leaves this one alone.                 *)
LEMMA StepApart ==
  ASSUME Whole, NEW b \in Runs!Bridges, NEW s \in Sessions, NEW d \in {0, 1}, Heads(b, d),
         WritesBehind(b), SaysNothing(b, s), procs[b].state = "up",
         UNCHANGED <<calls, ledger>>, TurnsKept(b, s), JoinKept(b, s),
         Runs!RunInOnePlace(b, s), Runs!CancelInOnePlace(b, s)
  PROVE  Runs!RunInOnePlace(b, s)' /\ Runs!CancelInOnePlace(b, s)'
<1>1. inbox[b] \in Seq(InRows)
  BY ProcessParts
<1>2. \A k \in DOMAIN inbox'[b] : k \in Nat /\ k + d \in DOMAIN inbox[b] /\ inbox'[b][k] = inbox[b][k + d]
  BY <1>1, HeadsKeep
<1>3. ASSUME NEW k \in DOMAIN outbox'[b], outbox'[b][k].session = s, outbox'[b][k].kind # "accepted"
      PROVE  k \in Nat /\ k + 0 \in DOMAIN outbox[b] /\ outbox'[b][k] = outbox[b][k + 0]
  <2>1. k \in Nat /\ ~(k > Len(outbox[b]))
    BY <1>3 DEF SaysNothing, WritesBehind
  <2>2. k \in DOMAIN outbox[b] /\ outbox'[b][k] = outbox[b][k] /\ k + 0 = k
    BY <1>3, <2>1 DEF WritesBehind
  <2> QED
    BY <2>1, <2>2
<1>4. \A k \in DOMAIN outbox[b] : k \in Nat /\
        (k > 0 => k - 0 \in DOMAIN outbox'[b] /\ outbox'[b][k - 0] = outbox[b][k])
  <2>1. \A k \in DOMAIN outbox[b] : k \in Nat /\ k - 0 = k /\ k \in DOMAIN outbox'[b]
                                    /\ outbox'[b][k] = outbox[b][k]
    BY DEF WritesBehind
  <2> QED
    BY <2>1
<1>5. Apart(b, s, d, 0)
  BY <1>2, <1>3, <1>4 DEF Apart, WritesBehind
<1>6. OpenKept(s) /\ CallsKept(b, s)
  BY DEF OpenKept, CallsKept, Runs!IsOpen
<1> QED
  BY <1>5, <1>6, Elsewhere

(* One run of a session is open at most.                                          *)
LEMMA OneIsOpen ==
  ASSUME LedgerWhole, ~crossed, NEW s, NEW m, NEW n, Runs!IsOpen(s, m), Runs!IsOpen(s, n)
  PROVE  m = n
<1>1. PICK i \in DOMAIN ledger : ledger[i] = [session |-> s, prompt |-> m, outcome |-> "running"]
  BY DEF Runs!IsOpen
<1>2. PICK j \in DOMAIN ledger : ledger[j] = [session |-> s, prompt |-> n, outcome |-> "running"]
  BY DEF Runs!IsOpen
<1>3. i \in Nat /\ j \in Nat
  BY DEF LedgerWhole, LedgerTyped
<1>4. j <= i /\ i <= j
  BY <1>1, <1>2 DEF LedgerWhole, Runs!OneOpenRun
<1>5. i = j
  BY <1>3, <1>4
<1> QED
  BY <1>1, <1>2, <1>5

(* A session that does not run has no open run.                                   *)
LEMMA NoneIsOpen ==
  ASSUME LedgerWhole, ~crossed, NEW s \in Sessions, s \notin running
  PROVE  \A n : ~Runs!IsOpen(s, n)
<1>1. {i \in {k \in DOMAIN ledger : ledger[k].session = s} : ledger[i].outcome = "running"} = {}
  BY DEF LedgerWhole, Runs!OpenRunIsNewest
<1> QED
  BY <1>1 DEF Runs!IsOpen

\* Turn t becomes v, which is no more on than it was; or it goes.
TurnMoves(b, t, v) ==
  /\ threads'[b] \subseteq (threads[b] \ {t}) \union {v}
  /\ v.prompt = t.prompt /\ v.session = t.session /\ v.at # "run"
  /\ v.at # "last" => t.at # "last" /\ t.session \notin procs[b].cancelled
  /\ \A s : s # t.session /\ s \in procs[b].cancelled => s \in procs'[b].cancelled

(* Then the turns are kept,                                                       *)
LEMMA TurnMovesKept ==
  ASSUME NEW b, NEW t \in threads[b], NEW v, TurnMoves(b, t, v), NEW s
  PROVE  TurnsKept(b, s)
<1>1. ASSUME NEW u \in threads'[b], u.session = s
      PROVE  \E w \in threads[b] : w.session = s /\ w.prompt = u.prompt /\ (u.at # "last" => w.at # "last")
  <2>1. CASE u \in threads[b]
    BY <1>1, <2>1
  <2>2. CASE u = v
    BY <1>1, <2>2 DEF TurnMoves
  <2> QED
    BY <1>1, <2>1, <2>2 DEF TurnMoves
<1>2. ASSUME NEW u \in threads'[b], Runs!Active(b, u, s)'
      PROVE  \E w \in threads[b] : /\ Runs!Active(b, w, s) /\ w.prompt = u.prompt
                                   /\ Runs!Silenced(b, w, s) => Runs!Silenced(b, u, s)'
  <2>0. u.at # "last" /\ u.session = s
    BY <1>2 DEF Runs!Active
  <2>1. CASE u \in threads[b] \ {t}
    <3>1. Runs!Active(b, u, s)
      BY <2>0, <2>1 DEF Runs!Active
    <3>2. ASSUME Runs!Silenced(b, u, s) PROVE Runs!Silenced(b, u, s)'
      <4>1. /\ u.at = "run" /\ s \in procs[b].cancelled /\ t.session # s
            /\ \A w \in threads[b] : w.session = s => w = u
        BY <2>1, <3>2 DEF Runs!Silenced
      <4>2. s \in procs'[b].cancelled /\ \A w \in threads'[b] : w.session = s => w = u
        BY <4>1 DEF TurnMoves
      <4> QED
        BY <4>1, <4>2 DEF Runs!Silenced
    <3> QED
      BY <2>1, <3>1, <3>2
  <2>2. CASE u = v
    <3>1. t.at # "last" /\ t.session = s /\ u.prompt = t.prompt /\ s \notin procs[b].cancelled
      BY <2>0, <2>2 DEF TurnMoves
    <3>2. Runs!Active(b, t, s) /\ ~Runs!Silenced(b, t, s)
      BY <3>1 DEF Runs!Active, Runs!Silenced
    <3> QED
      BY <3>1, <3>2
  <2> QED
    BY <1>2, <2>1, <2>2 DEF TurnMoves
<1> QED
  BY <1>1, <1>2 DEF TurnsKept

(* and no prompt has two.                                                         *)
LEMMA TurnMovesOne ==
  ASSUME NEW b, NEW t \in threads[b], NEW v, TurnMoves(b, t, v),
         \A x, y \in threads[b] : x.prompt = y.prompt => x = y
  PROVE  \A x, y \in threads'[b] : x.prompt = y.prompt => x = y
BY DEF TurnMoves

(* The two parts of a cancel's place make the whole after a step as well.         *)
LEMMA CancelPartsNext ==
  ASSUME NEW b, NEW s, AnswerIsDue(b, s)', AnswerIsLast(b, s)'
  PROVE  Runs!CancelInOnePlace(b, s)'
BY CancelParts, PTL

(* A process that has stopped, and has nothing unread, has nothing in two places. *)
LEMMA StoppedPlaces ==
  ASSUME NEW b, threads'[b] = {}, outbox'[b] = <<>>, procs'[b].state # "up", procs'[b].joins = 0
  PROVE  InPlaces(b)'
<1>1. ASSUME NEW s PROVE Runs!RunInOnePlace(b, s)'
  BY DEF Runs!RunInOnePlace, Runs!Asked, Runs!Closes, Runs!Told
<1>2. ASSUME NEW s PROVE AnswerIsDue(b, s)'
  BY DEF AnswerIsDue, Runs!Asked, Runs!Joins, Runs!Replies, Runs!Told
<1>3. ASSUME NEW s PROVE AnswerIsLast(b, s)'
  BY DEF AnswerIsLast, Settles, Runs!Grants, Runs!Denies, Runs!Forced, Runs!Told
<1>4. ASSUME NEW s PROVE Runs!CancelInOnePlace(b, s)'
  BY <1>2, <1>3, CancelPartsNext
<1> QED
  BY <1>1, <1>4 DEF InPlaces

(* A prompt that is asked for is none the process knows.                          *)
LEMMA PromptPlaces ==
  ASSUME Whole, NEW n \in Runs!Prompts, NEW r \in Sessions, Runs!Prompt(n, r),
         NEW b \in Runs!Bridges, InPlaces(b)
  PROVE  InPlaces(b)'
<1>1. UNCHANGED <<asked, calls, running, ledger, pool, procs, inbox, outbox, threads, finished, crossed>>
      /\ prompts' = [prompts EXCEPT ![n] = [session |-> r, at |-> "verify"]] /\ prompts[n].at = "none"
  BY DEF Runs!Prompt
<1>2. inbox[b] \in Seq(InRows) /\ outbox[b] \in Seq(OutRows)
  BY ProcessParts
<1>3. procs[b].joins # 0 => prompts'[procs[b].thread].session = prompts[procs[b].thread].session
  BY <1>1, ProcessParts DEF Runs!Sent
<1>4. ASSUME NEW s \in Sessions PROVE Runs!RunInOnePlace(b, s)' /\ Runs!CancelInOnePlace(b, s)'
  <2>1. JoinKept(b, s)
    BY <1>1, <1>3, JoinIsKept
  <2>2. TurnsKept(b, s)
    BY <1>1, SameTurnsKept DEF SameTurns
  <2>3. OpenKept(s) /\ CallsKept(b, s)
    BY <1>1 DEF OpenKept, CallsKept, Runs!IsOpen
  <2>4. Apart(b, s, 0, 0)
    <3>1. \A k \in DOMAIN inbox[b] : k \in Nat /\ k + 0 = k
      BY <1>2
    <3>2. \A k \in DOMAIN outbox[b] : k \in Nat /\ k + 0 = k /\ k - 0 = k
      BY <1>2
    <3> QED
      BY <1>1, <3>1, <3>2 DEF Apart
  <2> QED
    BY <2>1, <2>2, <2>3, <2>4, Elsewhere DEF InPlaces
<1> QED
  BY <1>1, <1>4 DEF InPlaces

(* A prompt is accepted: nobody's run or cancel moves.                            *)
LEMMA AcceptsPlaces ==
  ASSUME Whole, NEW b \in Runs!Bridges, Runs!Accepts(b), InPlaces(b)
  PROVE  InPlaces(b)'
<1> PICK r \in Sessions : r = prompts[procs[b].owes].session
  BY ProcessParts DEF Runs!Accepts
<1>1. /\ procs[b].state = "up" /\ procs[b].owes \in Runs!Prompts
      /\ outbox' = [outbox EXCEPT ![b] = Append(@, Wire("accepted", r, procs[b].owes))]
      /\ procs' = [procs EXCEPT ![b].owes = 0]
      /\ UNCHANGED <<prompts, asked, calls, running, ledger, pool, inbox, threads, finished, crossed>>
  BY ProcessParts DEF Runs!Accepts, Runs!Writes, Wire, Runs!Line
<1> PICK y \in OutRows : y = Wire("accepted", r, procs[b].owes)
  BY <1>1 DEF Wire, OutRows, Runs!Answers, Runs!Prompts
<1>2. outbox[b] \in Seq(OutRows) /\ DOMAIN outbox = Runs!Bridges /\ procs \in [Runs!Bridges -> ProcRows]
  BY WholeParts
<1>3. outbox'[b] = Append(outbox[b], y) /\ y.kind = "accepted"
  BY <1>1, <1>2 DEF Wire
<1>4. WritesBehind(b) /\ \A s : SaysNothing(b, s)
  BY <1>2, <1>3, OneBehind
<1>5. /\ procs'[b].thread = procs[b].thread /\ procs'[b].joins = procs[b].joins
      /\ procs'[b].busy = procs[b].busy /\ procs'[b].cancelled = procs[b].cancelled
  BY <1>1, <1>2 DEF ProcRows
<1>6. ASSUME NEW s \in Sessions PROVE Runs!RunInOnePlace(b, s)' /\ Runs!CancelInOnePlace(b, s)'
  <2>1. JoinKept(b, s)
    BY <1>1, <1>5, JoinIsKept
  <2>2. TurnsKept(b, s)
    BY <1>1, <1>5, SameTurnsKept DEF SameTurns
  <2>3. Heads(b, 0)
    BY <1>1 DEF Heads
  <2> QED
    BY <1>1, <1>4, <2>1, <2>2, <2>3, StepApart DEF InPlaces
<1> QED
  BY <1>1, <1>6 DEF InPlaces

(* A turn goes on, and says nothing: nobody's run or cancel moves.                *)
LEMMA TurnPlaces ==
  ASSUME Whole, NEW b \in Runs!Bridges, NEW t \in threads[b], NEW v, TurnMoves(b, t, v), InPlaces(b),
         procs'[b].thread = procs[b].thread, procs'[b].joins = procs[b].joins,
         procs'[b].busy \in {None, procs[b].busy},
         UNCHANGED <<prompts, calls, ledger, inbox, outbox>>
  PROVE  InPlaces(b)'
<1>1. procs[b].state = "up" /\ outbox[b] \in Seq(OutRows)
  BY ProcessParts
<1>2. WritesBehind(b) /\ \A s : SaysNothing(b, s)
  BY <1>1, NoneBehind
<1>3. ASSUME NEW s \in Sessions PROVE Runs!RunInOnePlace(b, s)' /\ Runs!CancelInOnePlace(b, s)'
  <2>1. JoinKept(b, s)
    BY JoinIsKept
  <2>2. TurnsKept(b, s)
    BY TurnMovesKept
  <2>3. Heads(b, 0)
    BY DEF Heads
  <2> QED
    BY <1>1, <1>2, <2>1, <2>2, <2>3, StepApart DEF InPlaces
<1>4. \A x, y \in threads'[b] : x.prompt = y.prompt => x = y
  BY TurnMovesOne DEF InPlaces
<1> QED
  BY <1>3, <1>4 DEF InPlaces

(* It returns.                                                                    *)
LEMMA TurnEndsPlaces ==
  ASSUME Whole, NEW b \in Runs!Bridges, NEW t \in threads[b], Runs!TurnEnds(b, t), InPlaces(b)
  PROVE  InPlaces(b)'
<1>1. /\ t.at = "run" /\ procs' = [procs EXCEPT ![b].busy = IF @ = t.session THEN None ELSE @]
      /\ UNCHANGED <<prompts, calls, ledger, inbox, outbox>>
  BY DEF Runs!TurnEnds
<1>2. \E a \in {"finish", "abort", "fail", "last"} :
        /\ threads' = [threads EXCEPT ![b] = (@ \ {t}) \cup {[t EXCEPT !.at = a]}]
        /\ a # "last" => t.session \notin procs[b].cancelled
  BY DEF Runs!TurnEnds, Runs!Moves
<1> PICK a \in {"finish", "abort", "fail", "last"} :
        /\ threads' = [threads EXCEPT ![b] = (@ \ {t}) \cup {[t EXCEPT !.at = a]}]
        /\ a # "last" => t.session \notin procs[b].cancelled
  BY <1>2
<1> DEFINE v == [t EXCEPT !.at = a]
<1>3. v.prompt = t.prompt /\ v.session = t.session /\ v.at = a
  BY TurnParts
<1>4. /\ DOMAIN threads = Runs!Bridges /\ procs \in [Runs!Bridges -> ProcRows]
  BY WholeParts
<1>5. /\ procs'[b].thread = procs[b].thread /\ procs'[b].joins = procs[b].joins
      /\ procs'[b].busy \in {None, procs[b].busy} /\ procs'[b].cancelled = procs[b].cancelled
  BY <1>1, <1>4 DEF ProcRows
<1>6. threads'[b] = (threads[b] \ {t}) \union {v}
  BY <1>4
<1> HIDE DEF v
<1>7. TurnMoves(b, t, v)
  BY <1>1, <1>3, <1>5, <1>6 DEF TurnMoves
<1> QED
  BY <1>1, <1>5, <1>7, TurnPlaces

(* It raises.                                                                     *)
LEMMA TurnRaisesPlaces ==
  ASSUME Whole, NEW b \in Runs!Bridges, NEW t \in threads[b], Runs!TurnRaises(b, t), InPlaces(b)
  PROVE  InPlaces(b)'
<1>1. /\ t.at = "run" /\ UNCHANGED <<prompts, calls, ledger, inbox, outbox, procs>>
  BY DEF Runs!TurnRaises
<1>2. \E a \in {"fail", "last"} :
        /\ threads' = [threads EXCEPT ![b] = (@ \ {t}) \cup {[t EXCEPT !.at = a]}]
        /\ a # "last" => t.session \notin procs[b].cancelled
  BY DEF Runs!TurnRaises, Runs!Moves
<1> PICK a \in {"fail", "last"} :
        /\ threads' = [threads EXCEPT ![b] = (@ \ {t}) \cup {[t EXCEPT !.at = a]}]
        /\ a # "last" => t.session \notin procs[b].cancelled
  BY <1>2
<1> DEFINE v == [t EXCEPT !.at = a]
<1>3. v.prompt = t.prompt /\ v.session = t.session /\ v.at = a
  BY TurnParts
<1>4. DOMAIN threads = Runs!Bridges
  BY WholeParts
<1>5. threads'[b] = (threads[b] \ {t}) \union {v}
  BY <1>4
<1> HIDE DEF v
<1>6. TurnMoves(b, t, v)
  BY <1>1, <1>3, <1>5 DEF TurnMoves
<1> QED
  BY <1>1, <1>6, TurnPlaces

(* It is over, and its session's mark goes.                                       *)
LEMMA EndsPlaces ==
  ASSUME Whole, NEW b \in Runs!Bridges, NEW t \in threads[b], Runs!Ends(b, t), InPlaces(b)
  PROVE  InPlaces(b)'
<1>1. /\ t.at = "last" /\ threads' = [threads EXCEPT ![b] = @ \ {t}]
      /\ procs' = [procs EXCEPT ![b].busy = IF @ = t.session THEN None ELSE @,
                                ![b].cancelled = @ \ {t.session}]
      /\ UNCHANGED <<prompts, calls, ledger, inbox, outbox>>
  BY DEF Runs!Ends
<1>2. DOMAIN threads = Runs!Bridges /\ procs \in [Runs!Bridges -> ProcRows]
  BY WholeParts
<1>3. /\ procs'[b].thread = procs[b].thread /\ procs'[b].joins = procs[b].joins
      /\ procs'[b].busy \in {None, procs[b].busy} /\ procs'[b].cancelled = procs[b].cancelled \ {t.session}
  BY <1>1, <1>2 DEF ProcRows
<1>4. threads'[b] = threads[b] \ {t}
  BY <1>1, <1>2
<1>5. TurnMoves(b, t, t)
  BY <1>1, <1>3, <1>4 DEF TurnMoves
<1> QED
  BY <1>1, <1>3, <1>5, TurnPlaces

(* It says how it ended: its run's end is told, once.                             *)
LEMMA SaysPlaces ==
  ASSUME Whole, ~crossed, NEW b \in Runs!Bridges, NEW t \in threads[b], Runs!Says(b, t), InPlaces(b)
  PROVE  InPlaces(b)'
<1> PICK r \in Sessions : r = t.session
  BY TurnParts
<1>1. /\ t.at \in {"finish", "abort", "fail"}
      /\ outbox' = [outbox EXCEPT ![b] = Append(@, Wire(Runs!Words[t.at], r, t.prompt))]
      /\ threads' = [threads EXCEPT ![b] = (@ \ {t}) \cup {[t EXCEPT !.at = "last"]}]
      /\ UNCHANGED <<prompts, calls, ledger, inbox, procs>>
  BY DEF Runs!Says, Runs!Writes, Runs!Moves, Wire, Runs!Line, Runs!Words
<1>2. Runs!Words[t.at] \in {"finished", "aborted", "failed"}
  BY <1>1 DEF Runs!Words
<1>3. t.prompt \in Nat /\ t.prompt # 0
  <2>1. t.prompt \in Runs!Prompts
    BY TurnParts
  <2> QED
    BY <2>1, RunsAssumption DEF Runs!Prompts
<1> PICK y \in OutRows : y = Wire(Runs!Words[t.at], r, t.prompt)
  BY <1>2, <1>3 DEF Wire, OutRows, Runs!Answers, Runs!Prompts
<1>4. y.kind \in {"finished", "aborted", "failed"} /\ y.session = r /\ y.id = t.prompt
  BY <1>2 DEF Wire
<1> DEFINE v == [t EXCEPT !.at = "last"]
<1>5. v.prompt = t.prompt /\ v.session = t.session /\ v.at = "last"
  BY TurnParts
<1>6. /\ outbox[b] \in Seq(OutRows) /\ DOMAIN outbox = Runs!Bridges /\ DOMAIN threads = Runs!Bridges
      /\ inbox[b] \in Seq(InRows) /\ procs[b].state = "up" /\ LedgerWhole
  BY WholeParts, ProcessParts
<1>7. outbox'[b] = Append(outbox[b], y) /\ threads'[b] = (threads[b] \ {t}) \union {v}
  BY <1>1, <1>6
<1> HIDE DEF v
<1>8. TurnMoves(b, t, v)
  BY <1>1, <1>5, <1>7 DEF TurnMoves
<1>9. /\ WritesBehind(b) /\ Len(outbox[b]) \in Nat
      /\ \A k \in DOMAIN outbox'[b] : k \notin DOMAIN outbox[b] => k = Len(outbox[b]) + 1 /\ outbox'[b][k] = y
      /\ \A k \in DOMAIN outbox'[b] : k > Len(outbox[b]) => outbox'[b][k] = y
      /\ \A s : y.session # s \/ y.kind = "accepted" => SaysNothing(b, s)
  BY <1>6, <1>7, OneBehind
<1>10. ASSUME NEW s \in Sessions PROVE JoinKept(b, s) /\ TurnsKept(b, s) /\ Heads(b, 0)
  BY <1>1, <1>8, JoinIsKept, TurnMovesKept DEF Heads
<1>11. ASSUME NEW s \in Sessions, s # r PROVE Runs!RunInOnePlace(b, s)' /\ Runs!CancelInOnePlace(b, s)'
  BY <1>1, <1>4, <1>6, <1>9, <1>10, <1>11, StepApart DEF InPlaces
<1>12. Runs!RunInOnePlace(b, r) /\ AnswerIsDue(b, r) /\ AnswerIsLast(b, r)
  BY CancelParts DEF InPlaces
<1>13. PromptAhead(b, r) /\ TurnIsOn(b, r)
  BY <1>12, RunParts
<1>14. Runs!Active(b, t, r) /\ ~Runs!Silenced(b, t, r)
  BY <1>1 DEF Runs!Active, Runs!Silenced
<1>15. Runs!IsOpen(r, t.prompt) /\ \A k \in DOMAIN outbox[b] : ~Runs!Closes(b, k, r)
  BY <1>13, <1>14 DEF TurnIsOn
<1>16. \A k \in DOMAIN inbox[b] : ~Runs!Asked(b, k, r, "prompt")
  BY <1>1, <1>13 DEF PromptAhead
<1>17. ASSUME NEW u \in threads[b], Runs!Active(b, u, r) PROVE u = t
  <2>1. CASE Runs!Silenced(b, u, r)
    BY <2>1 DEF Runs!Silenced
  <2>2. CASE Runs!IsOpen(r, u.prompt)
    <3>1. u.prompt = t.prompt
      BY <1>6, <1>15, <2>2, OneIsOpen
    <3> QED
      BY <3>1 DEF InPlaces
  <2> QED
    BY <1>13, <1>17, <2>1, <2>2 DEF TurnIsOn
<1>18. \A u \in threads'[b] : ~Runs!Active(b, u, r)'
  BY <1>5, <1>7, <1>17 DEF Runs!Active
<1>19. \A k \in DOMAIN outbox'[b] : Runs!Closes(b, k, r)' => k = Len(outbox[b]) + 1 /\ outbox'[b][k] = y
  <2> SUFFICES ASSUME NEW k \in DOMAIN outbox'[b], Runs!Closes(b, k, r)', k \in DOMAIN outbox[b] PROVE FALSE
    BY <1>9
  <2>1. outbox'[b][k] = outbox[b][k]
    BY <1>9 DEF WritesBehind
  <2> QED
    BY <1>15, <2>1 DEF Runs!Closes, Runs!Forced, Runs!Told
<1>20. \A k \in DOMAIN inbox'[b] : ~Runs!Asked(b, k, r, "prompt")'
  BY <1>1, <1>16 DEF Runs!Asked
<1>21. Runs!RunInOnePlace(b, r)'
  <2>1. ASSUME NEW k \in DOMAIN outbox'[b], Runs!Closes(b, k, r)' PROVE Runs!IsOpen(r, outbox[b][k].id)'
    <3>1. outbox'[b][k].id = t.prompt
      BY <1>4, <1>19, <2>1
    <3> QED
      BY <1>1, <1>15, <3>1 DEF Runs!IsOpen
  <2> QED
    BY <1>18, <1>19, <1>20, <2>1 DEF Runs!RunInOnePlace
<1>22. AskedKept(b, r, 0, "prompt") /\ AskedKept(b, r, 0, "cancel")
  <2>1. \A k \in DOMAIN inbox[b] : k \in Nat /\ k + 0 = k
    BY <1>6
  <2> QED
    BY <1>1, <2>1 DEF AskedKept, Runs!Asked
<1>23. ASSUME NEW k \in DOMAIN outbox'[b], Runs!Replies(b, k, r)'
       PROVE  k \in Nat /\ k \in DOMAIN outbox[b] /\ k + 0 = k /\ Runs!Replies(b, k, r) /\ outbox'[b][k] = outbox[b][k]
  <2>1. k \in DOMAIN outbox[b]
    BY <1>4, <1>9, <1>23 DEF Runs!Replies, Runs!Told
  <2>2. k \in Nat /\ outbox'[b][k] = outbox[b][k]
    BY <1>9, <2>1 DEF WritesBehind
  <2> QED
    BY <1>23, <2>1, <2>2 DEF Runs!Replies, Runs!Told
<1>24. AnswerIsDue(b, r)'
  <2>1. RepliesGain(b, r, 0, 0, 0, 0)
    BY <1>23 DEF RepliesGain
  <2>2. JoinStays(b, r)
    BY <1>10, <1>12, JoinAndTurns
  <2>3. \A k \in DOMAIN inbox'[b] : Runs!Asked(b, k, r, "cancel")' => inbox'[b][k] \in calls'[b]
    BY <1>1, <1>12 DEF AnswerIsDue, Runs!Asked
  <2>4. Runs!Joins(b, r)' => Runs!Line("cancel", r, procs'[b].joins) \in calls'[b]
    BY <1>1, <1>12 DEF AnswerIsDue, Runs!Joins, Runs!JoinedFor
  <2>5. \A k \in DOMAIN outbox'[b] : Runs!Replies(b, k, r)' => Runs!Line("cancel", r, outbox'[b][k].id) \in calls'[b]
    BY <1>1, <1>12, <1>23 DEF AnswerIsDue
  <2> QED
    BY <1>12, <1>22, <2>1, <2>2, <2>3, <2>4, <2>5, DueStays
<1>25. \A k \in DOMAIN outbox'[b] : ~Settles(b, k, r)'
  <2> SUFFICES ASSUME NEW k \in DOMAIN outbox'[b], Settles(b, k, r)' PROVE FALSE
    OBVIOUS
  <2>1. k \in DOMAIN outbox[b]
    BY <1>3, <1>4, <1>9 DEF Settles, Runs!Grants, Runs!Denies, Runs!Forced, Runs!Told
  <2>2. outbox'[b][k] = outbox[b][k]
    BY <1>9, <2>1 DEF WritesBehind
  <2>3. Settles(b, k, r)
    BY <2>1, <2>2 DEF Settles, Runs!Grants, Runs!Denies, Runs!Forced, Runs!Told
  <2> QED
    BY <1>12, <1>14, <2>1, <2>3 DEF AnswerIsLast
<1>26. AnswerIsLast(b, r)'
  BY <1>25 DEF AnswerIsLast, Settles
<1>27. Runs!CancelInOnePlace(b, r)'
  BY <1>24, <1>26, CancelPartsNext
<1>28. \A x, z \in threads'[b] : x.prompt = z.prompt => x = z
  BY <1>8, TurnMovesOne DEF InPlaces
<1> QED
  BY <1>11, <1>21, <1>27, <1>28 DEF InPlaces

(* What it has to read it had to read,                                            *)
LEMMA HeadsAsked ==
  ASSUME Whole, NEW b \in Runs!Bridges, NEW s, NEW d \in {0, 1}, Heads(b, d), procs[b].state = "up"
  PROVE  AskedKept(b, s, d, "prompt") /\ AskedKept(b, s, d, "cancel")
<1>1. inbox[b] \in Seq(InRows)
  BY ProcessParts
<1>2. \A k \in DOMAIN inbox'[b] : k \in Nat /\ k + d \in DOMAIN inbox[b] /\ inbox'[b][k] = inbox[b][k + d]
  BY <1>1, HeadsKeep
<1> QED
  BY <1>2 DEF AskedKept, Runs!Asked

(* and what it wrote it had written, but for what is new.                         *)
LEMMA OldLines ==
  ASSUME NEW b, NEW s, WritesBehind(b), NEW k \in DOMAIN outbox[b]
  PROVE  /\ k \in Nat /\ k \in DOMAIN outbox'[b] /\ outbox'[b][k] = outbox[b][k] /\ k <= Len(outbox[b])
         /\ Runs!Closes(b, k, s)' => Runs!Closes(b, k, s)
         /\ Runs!Replies(b, k, s)' => Runs!Replies(b, k, s)
         /\ Settles(b, k, s)' => Settles(b, k, s)
         /\ Runs!Told(b, k, s, Ending)' => Runs!Told(b, k, s, Ending)
<1>1. k \in Nat /\ k \in DOMAIN outbox'[b] /\ outbox'[b][k] = outbox[b][k] /\ k <= Len(outbox[b])
  BY DEF WritesBehind
<1>2. Settles(b, k, s)' => Settles(b, k, s)
  BY <1>1 DEF Settles, Runs!Grants, Runs!Denies, Runs!Forced, Runs!Told
<1>3. Runs!Closes(b, k, s)' => Runs!Closes(b, k, s)
  BY <1>1 DEF Runs!Closes, Runs!Forced, Runs!Told
<1> QED
  BY <1>1, <1>2, <1>3 DEF Runs!Replies, Runs!Told

(* A run stays where it is when the new lines end none.                           *)
LEMMA RunBehind ==
  ASSUME Whole, NEW b \in Runs!Bridges, NEW s, NEW d \in {0, 1}, Heads(b, d), procs[b].state = "up",
         WritesBehind(b), \A k \in DOMAIN outbox'[b] : k \notin DOMAIN outbox[b] => ~Runs!Told(b, k, s, Ending)',
         TurnsKept(b, s), UNCHANGED ledger, Runs!RunInOnePlace(b, s)
  PROVE  Runs!RunInOnePlace(b, s)'
<1>1. AskedKept(b, s, d, "prompt")
  BY HeadsAsked
<1>2. OpenKept(s)
  BY DEF OpenKept, Runs!IsOpen
<1>3. ToldKept(b, s, 0, Ending)
  <2> SUFFICES ASSUME NEW k \in DOMAIN outbox'[b], Runs!Told(b, k, s, Ending)'
               PROVE  /\ k \in Nat /\ k + 0 \in DOMAIN outbox[b] /\ Runs!Told(b, k + 0, s, Ending)
                      /\ outbox'[b][k] = outbox[b][k + 0]
    BY DEF ToldKept
  <2>1. k \in DOMAIN outbox[b]
    OBVIOUS
  <2>2. k \in Nat /\ outbox'[b][k] = outbox[b][k] /\ Runs!Told(b, k, s, Ending)
    BY <2>1, OldLines
  <2>3. k + 0 = k
    BY <2>2
  <2> QED
    BY <2>1, <2>2, <2>3
<1> QED
  BY <1>1, <1>2, <1>3, RunStays

(* Cancels do when what is new answers one that waited at most.                   *)
LEMMA DueBehind ==
  ASSUME Whole, NEW b \in Runs!Bridges, NEW s, NEW d \in {0, 1}, Heads(b, d), procs[b].state = "up",
         WritesBehind(b), NEW l, NEW c, NEW new_ \in {0, 1},
         \A k \in DOMAIN outbox'[b] : k \notin DOMAIN outbox[b] /\ Runs!Replies(b, k, s)' =>
           new_ = 1 /\ k = l /\ outbox'[b][k].id = c,
         new_ = 1 => AnswersOne(b, s, c), UNCHANGED calls, AnswerIsDue(b, s), JoinStays(b, s)
  PROVE  AnswerIsDue(b, s)'
<1>1. AskedKept(b, s, d, "prompt") /\ AskedKept(b, s, d, "cancel")
  BY HeadsAsked
<1>2. ASSUME NEW k \in DOMAIN outbox'[b], Runs!Replies(b, k, s)'
      PROVE  k \in Nat /\ (\/ k + 0 \in DOMAIN outbox[b] /\ Runs!Replies(b, k + 0, s) /\ outbox'[b][k] = outbox[b][k + 0]
                           \/ new_ = 1 /\ k = l /\ outbox'[b][k].id = c)
  <2>1. CASE k \in DOMAIN outbox[b]
    <3>1. k \in Nat /\ Runs!Replies(b, k, s) /\ outbox'[b][k] = outbox[b][k]
      BY <1>2, <2>1, OldLines
    <3>2. k + 0 = k
      BY <3>1
    <3> QED
      BY <2>1, <3>1, <3>2
  <2>2. CASE k \notin DOMAIN outbox[b]
    BY <1>2, <2>2 DEF WritesBehind
  <2> QED
    BY <2>1, <2>2
<1>3. RepliesGain(b, s, 0, l, c, new_)
  BY <1>2 DEF RepliesGain
<1>4. ASSUME NEW k \in DOMAIN inbox'[b], Runs!Asked(b, k, s, "cancel")' PROVE inbox'[b][k] \in calls'[b]
  <2>1. k + d \in DOMAIN inbox[b] /\ Runs!Asked(b, k + d, s, "cancel") /\ inbox'[b][k] = inbox[b][k + d]
    BY <1>1, <1>4 DEF AskedKept
  <2> QED
    BY <2>1 DEF AnswerIsDue
<1>5. Runs!Joins(b, s)' => Runs!Line("cancel", s, procs'[b].joins) \in calls'[b]
  BY DEF JoinStays, AnswerIsDue
<1>6. ASSUME NEW k \in DOMAIN outbox'[b], Runs!Replies(b, k, s)'
      PROVE  Runs!Line("cancel", s, outbox'[b][k].id) \in calls'[b]
  <2>1. CASE k \in DOMAIN outbox[b]
    <3>1. Runs!Replies(b, k, s) /\ outbox'[b][k] = outbox[b][k]
      BY <1>6, <2>1, OldLines
    <3> QED
      BY <2>1, <3>1 DEF AnswerIsDue
  <2>2. CASE k \notin DOMAIN outbox[b]
    BY <1>6, <2>2 DEF AnswersOne
  <2> QED
    BY <2>1, <2>2
<1> QED
  BY <1>1, <1>3, <1>4, <1>5, <1>6, DueStays

\* What is new in what a process wrote answers cancel c at most, at one place.
OnlyAnswers(b, s, l, c) == \A k \in DOMAIN outbox'[b] :
  k \notin DOMAIN outbox[b] /\ Runs!Replies(b, k, s)' => k = l /\ outbox'[b][k].id = c

(* So when the only new answer is to one that waited.                             *)
LEMMA DueAnswered ==
  ASSUME Whole, NEW b \in Runs!Bridges, NEW s, NEW d \in {0, 1}, Heads(b, d), procs[b].state = "up",
         WritesBehind(b), NEW l, NEW c,
         OnlyAnswers(b, s, l, c), AnswersOne(b, s, c), UNCHANGED calls, AnswerIsDue(b, s), JoinStays(b, s)
  PROVE  AnswerIsDue(b, s)'
<1> PICK f \in {0, 1} : f = 1
  OBVIOUS
<1>1. \A k \in DOMAIN outbox'[b] : k \notin DOMAIN outbox[b] /\ Runs!Replies(b, k, s)' =>
        f = 1 /\ k = l /\ outbox'[b][k].id = c
  BY DEF OnlyAnswers
<1>2. f = 1 => AnswersOne(b, s, c)
  OBVIOUS
<1> QED
  BY <1>1, <1>2, DueBehind

(* No session is wronged by a prompt that is refused while another turn is on.    *)
LEMMA RefusedPlaces ==
  ASSUME Whole, NEW b \in Runs!Bridges, Runs!TakePrompt(b), procs[b].busy # None, InPlaces(b)
  PROVE  InPlaces(b)'
<1> PICK x \in InRows : x = inbox[b][1] /\ x = Head(inbox[b])
  BY ProcessParts, Tails DEF Runs!TakePrompt
<1> PICK r \in Sessions : r = x.session
  BY DEF InRows
<1>1. /\ procs[b].state = "up" /\ inbox[b] # <<>> /\ x.kind = "prompt"
      /\ inbox' = [inbox EXCEPT ![b] = Tail(inbox[b])]
      /\ outbox' = [outbox EXCEPT ![b] = Append(@, Wire("refused", r, x.id))]
      /\ UNCHANGED <<prompts, calls, ledger, procs, threads>>
  BY DEF Runs!TakePrompt, Runs!Idle, Runs!Writes, Wire, Runs!Line
<1> PICK y \in OutRows : y = Wire("refused", r, x.id)
  BY DEF Wire, OutRows, InRows, Runs!Answers
<1>2. y.kind = "refused" /\ y.session = r /\ y.id = x.id
  BY DEF Wire
<1>3. /\ outbox[b] \in Seq(OutRows) /\ DOMAIN outbox = Runs!Bridges /\ DOMAIN inbox = Runs!Bridges
      /\ inbox[b] \in Seq(InRows)
  BY WholeParts
<1>4. outbox'[b] = Append(outbox[b], y) /\ inbox'[b] = Tail(inbox[b]) /\ 1 \in DOMAIN inbox[b]
  BY <1>1, <1>3
<1>5. /\ WritesBehind(b) /\ Len(outbox[b]) \in Nat
      /\ \A k \in DOMAIN outbox'[b] : k \notin DOMAIN outbox[b] => k = Len(outbox[b]) + 1 /\ outbox'[b][k] = y
      /\ \A s : y.session # s \/ y.kind = "accepted" => SaysNothing(b, s)
  BY <1>3, <1>4, OneBehind
<1>6. Heads(b, 1)
  BY <1>1, <1>4 DEF Heads
<1>7. ASSUME NEW s \in Sessions PROVE JoinKept(b, s) /\ TurnsKept(b, s)
  BY <1>1, JoinIsKept, SameTurnsKept DEF SameTurns
<1>8. ASSUME NEW s \in Sessions, s # r PROVE Runs!RunInOnePlace(b, s)' /\ Runs!CancelInOnePlace(b, s)'
  BY <1>1, <1>2, <1>5, <1>6, <1>7, <1>8, StepApart DEF InPlaces
<1>9. Runs!RunInOnePlace(b, r) /\ AnswerIsDue(b, r) /\ AnswerIsLast(b, r)
  BY CancelParts DEF InPlaces
<1>10. Runs!Asked(b, 1, r, "prompt")
  BY <1>1, <1>4 DEF Runs!Asked
<1>11. /\ Runs!IsOpen(r, x.id)
       /\ \A j \in DOMAIN inbox[b] : Runs!Asked(b, j, r, "prompt") => j = 1
       /\ \A t \in threads[b] : t.session = r => t.at = "last"
       /\ \A j \in DOMAIN outbox[b] : ~Runs!Closes(b, j, r)
  BY <1>4, <1>9, <1>10, RunParts DEF PromptAhead
<1>12. \A k \in DOMAIN inbox'[b] : k \in Nat /\ k >= 1 /\ k + 1 \in DOMAIN inbox[b] /\ inbox'[b][k] = inbox[b][k + 1]
  BY <1>3, <1>6, HeadsKeep
<1>13. \A k \in DOMAIN inbox'[b] : ~Runs!Asked(b, k, r, "prompt")'
  <2> SUFFICES ASSUME NEW k \in DOMAIN inbox'[b], Runs!Asked(b, k, r, "prompt")' PROVE FALSE
    OBVIOUS
  <2>1. k \in Nat /\ k >= 1 /\ k + 1 \in DOMAIN inbox[b] /\ Runs!Asked(b, k + 1, r, "prompt")
    BY <1>1, <1>12 DEF Runs!Asked
  <2>2. k + 1 = 1
    BY <1>11, <2>1
  <2> QED
    BY <2>1, <2>2
<1>14. \A t \in threads'[b] : ~Runs!Active(b, t, r)'
  BY <1>1, <1>11 DEF Runs!Active
<1>15. \A k \in DOMAIN outbox'[b] : Runs!Closes(b, k, r)' => k = Len(outbox[b]) + 1 /\ outbox'[b][k] = y
  BY <1>5, <1>11, OldLines
<1>16. Runs!RunInOnePlace(b, r)'
  <2>1. ASSUME NEW k \in DOMAIN outbox'[b], Runs!Closes(b, k, r)' PROVE Runs!IsOpen(r, outbox[b][k].id)'
    <3>1. outbox'[b][k].id = x.id
      BY <1>2, <1>15, <2>1
    <3> QED
      BY <1>1, <1>11, <3>1 DEF Runs!IsOpen
  <2> QED
    BY <1>13, <1>14, <1>15, <2>1 DEF Runs!RunInOnePlace
<1>17. AnswerIsDue(b, r)'
  <2>1. \A k \in DOMAIN outbox'[b] : k \notin DOMAIN outbox[b] => ~Runs!Replies(b, k, r)'
    BY <1>2, <1>5 DEF Runs!Replies, Runs!Told
  <2>2. JoinStays(b, r)
    BY <1>7, <1>9, JoinAndTurns
  <2> QED
    BY <1>1, <1>5, <1>6, <1>9, <2>1, <2>2, DueBehind
<1>18. \A k \in DOMAIN outbox'[b] : ~Settles(b, k, r)'
  <2> SUFFICES ASSUME NEW k \in DOMAIN outbox'[b], Settles(b, k, r)' PROVE FALSE
    OBVIOUS
  <2>1. k \in DOMAIN outbox[b]
    BY <1>2, <1>5 DEF Settles, Runs!Grants, Runs!Denies, Runs!Forced, Runs!Told
  <2>2. Settles(b, k, r)
    BY <1>5, <2>1, OldLines
  <2> QED
    BY <1>4, <1>9, <1>10, <2>1, <2>2 DEF AnswerIsLast
<1>19. Runs!CancelInOnePlace(b, r)'
  <2>1. AnswerIsLast(b, r)'
    BY <1>18 DEF AnswerIsLast, Settles
  <2> QED
    BY <1>17, <2>1, CancelPartsNext
<1>20. \A u, v \in threads'[b] : u.prompt = v.prompt => u = v
  BY <1>1 DEF InPlaces
<1> QED
  BY <1>8, <1>16, <1>19, <1>20 DEF InPlaces

(* A prompt that is taken becomes a turn of the run it is for.                    *)
LEMMA TakenPlaces ==
  ASSUME Whole, NEW b \in Runs!Bridges, Runs!TakePrompt(b), procs[b].busy = None, InPlaces(b)
  PROVE  InPlaces(b)'
<1> PICK x \in InRows : x = inbox[b][1] /\ x = Head(inbox[b])
  BY ProcessParts, Tails DEF Runs!TakePrompt
<1> PICK r \in Sessions : r = x.session
  BY DEF InRows
<1> DEFINE t == [prompt |-> x.id, session |-> r, at |-> "run"]
<1>1. /\ procs[b].state = "up" /\ procs[b].joins = 0 /\ inbox[b] # <<>> /\ x.kind = "prompt"
      /\ inbox' = [inbox EXCEPT ![b] = Tail(inbox[b])]
      /\ procs' = [procs EXCEPT ![b].busy = r, ![b].thread = x.id, ![b].owes = x.id]
      /\ threads' = [threads EXCEPT ![b] = @ \cup {t}]
      /\ UNCHANGED <<prompts, calls, ledger, outbox>>
  BY DEF Runs!TakePrompt, Runs!Idle
<1>2. t.prompt = x.id /\ t.session = r /\ t.at = "run"
  OBVIOUS
<1>3. /\ outbox[b] \in Seq(OutRows) /\ DOMAIN threads = Runs!Bridges /\ DOMAIN inbox = Runs!Bridges
      /\ inbox[b] \in Seq(InRows) /\ procs \in [Runs!Bridges -> ProcRows]
      /\ 1 \in DOMAIN inbox[b] /\ InLine(x)
  BY <1>1, WholeParts, Tails DEF LinesParts
<1>4. inbox'[b] = Tail(inbox[b]) /\ threads'[b] = threads[b] \union {t}
  BY <1>1, <1>3
<1>5. /\ procs'[b].busy = r /\ procs'[b].thread = x.id /\ procs'[b].joins = 0
      /\ procs'[b].cancelled = procs[b].cancelled
  BY <1>1, <1>3 DEF ProcRows
<1> HIDE DEF t
<1>6. Heads(b, 1)
  BY <1>1, <1>4 DEF Heads
<1>7. WritesBehind(b) /\ (\A s : SaysNothing(b, s)) /\ \A k \in DOMAIN outbox'[b] : k \in DOMAIN outbox[b]
  BY <1>1, <1>3, NoneBehind
<1>8. ASSUME NEW s \in Sessions, s # r PROVE Runs!RunInOnePlace(b, s)' /\ Runs!CancelInOnePlace(b, s)'
  <2>1. JoinKept(b, s)
    BY <1>5, <1>8 DEF JoinKept, Runs!Joins
  <2>2. TurnsKept(b, s)
    BY <1>2, <1>4, <1>5, <1>8, SameTurnsKept DEF SameTurns
  <2> QED
    BY <1>1, <1>6, <1>7, <2>1, <2>2, StepApart DEF InPlaces
<1>9. Runs!RunInOnePlace(b, r) /\ AnswerIsDue(b, r) /\ AnswerIsLast(b, r)
  BY CancelParts DEF InPlaces
<1>10. Runs!Asked(b, 1, r, "prompt")
  BY <1>1, <1>3 DEF Runs!Asked
<1>11. /\ Runs!IsOpen(r, x.id)
       /\ \A j \in DOMAIN inbox[b] : Runs!Asked(b, j, r, "prompt") => j = 1
       /\ \A u \in threads[b] : u.session = r => u.at = "last" /\ u.prompt # x.id
       /\ \A j \in DOMAIN outbox[b] : ~Runs!Closes(b, j, r)
  BY <1>3, <1>9, <1>10, RunParts DEF PromptAhead
<1>12. \A k \in DOMAIN inbox'[b] : k \in Nat /\ k >= 1 /\ k + 1 \in DOMAIN inbox[b] /\ inbox'[b][k] = inbox[b][k + 1]
  BY <1>3, <1>6, HeadsKeep
<1>13. \A k \in DOMAIN inbox'[b] : ~Runs!Asked(b, k, r, "prompt")'
  <2> SUFFICES ASSUME NEW k \in DOMAIN inbox'[b], Runs!Asked(b, k, r, "prompt")' PROVE FALSE
    OBVIOUS
  <2>1. k \in Nat /\ k >= 1 /\ k + 1 \in DOMAIN inbox[b] /\ Runs!Asked(b, k + 1, r, "prompt")
    BY <1>1, <1>12 DEF Runs!Asked
  <2>2. k + 1 = 1
    BY <1>11, <2>1
  <2> QED
    BY <2>1, <2>2
<1>14. \A u \in threads'[b] : Runs!Active(b, u, r)' => u = t
  BY <1>4, <1>11 DEF Runs!Active
<1>15. \A k \in DOMAIN outbox'[b] : ~Runs!Closes(b, k, r)'
  BY <1>7, <1>11, OldLines
<1>16. Runs!RunInOnePlace(b, r)'
  <2>1. Runs!IsOpen(r, t.prompt)'
    BY <1>1, <1>2, <1>11 DEF Runs!IsOpen
  <2> QED
    BY <1>13, <1>14, <1>15, <2>1 DEF Runs!RunInOnePlace
<1>17. AnswerIsDue(b, r)'
  <2>1. JoinStays(b, r)
    BY <1>2, <1>5, <1>14 DEF JoinStays, Runs!Joins
  <2> QED
    BY <1>1, <1>6, <1>7, <1>9, <2>1, DueBehind
<1>18. \A k \in DOMAIN outbox'[b] : ~Settles(b, k, r)'
  <2> SUFFICES ASSUME NEW k \in DOMAIN outbox'[b], Settles(b, k, r)' PROVE FALSE
    OBVIOUS
  <2>1. k \in DOMAIN outbox[b] /\ Settles(b, k, r)
    BY <1>7, OldLines
  <2> QED
    BY <1>3, <1>9, <1>10, <2>1 DEF AnswerIsLast
<1>19. Runs!CancelInOnePlace(b, r)'
  <2>1. AnswerIsLast(b, r)'
    BY <1>18 DEF AnswerIsLast, Settles
  <2> QED
    BY <1>17, <2>1, CancelPartsNext
<1>20. ASSUME NEW u \in threads[b], u.prompt = x.id PROVE FALSE
  <2>0. u.session = prompts[u.prompt].session
    BY TurnParts
  <2>1. u.session = prompts[x.id].session
    BY <1>20, <2>0
  <2>2. r = prompts[x.id].session
    BY <1>1, <1>3 DEF InLine
  <2> QED
    BY <1>11, <1>20, <2>1, <2>2
<1>21. \A u, v \in threads'[b] : u.prompt = v.prompt => u = v
  BY <1>2, <1>4, <1>20 DEF InPlaces
<1> QED
  BY <1>8, <1>16, <1>19, <1>21 DEF InPlaces

\* The cancel at the head of what a process has to read, which it takes.
HeadCancelFacts(b, x, r) ==
  /\ procs[b].state = "up" /\ procs[b].joins = 0 /\ inbox[b] # <<>> /\ x.kind = "cancel"
  /\ x.id \in Nat /\ x.id # 0 /\ Heads(b, 1)
  /\ UNCHANGED <<prompts, calls, ledger, threads>>
  /\ Runs!Line("cancel", r, x.id) \in calls[b]
  /\ \A j \in DOMAIN inbox[b] : ~Runs!Asked(b, j, r, "prompt")
  /\ \A j \in DOMAIN inbox'[b] : ~Runs!Asked(b, j, r, "prompt")'
  /\ \A k \in DOMAIN inbox'[b] : Runs!Asked(b, k, r, "cancel")' => inbox'[b][k].id # x.id
  /\ \A j \in DOMAIN outbox[b] : Runs!Replies(b, j, r) => outbox[b][j].id # x.id

(* It is the only one of its number, and no prompt of its session is ahead.       *)
LEMMA HeadCancel ==
  ASSUME Whole, NEW b \in Runs!Bridges, Runs!CancelTaken(b), InPlaces(b),
         NEW x \in InRows, x = inbox[b][1], x = Head(inbox[b]), NEW r \in Sessions, r = x.session
  PROVE  HeadCancelFacts(b, x, r)
<1>1. /\ procs[b].state = "up" /\ procs[b].joins = 0 /\ inbox[b] # <<>> /\ x.kind = "cancel"
      /\ inbox' = [inbox EXCEPT ![b] = Tail(inbox[b])]
      /\ UNCHANGED <<prompts, calls, ledger, threads>>
  BY DEF Runs!CancelTaken, Runs!Idle
<1>2. inbox[b] \in Seq(InRows) /\ DOMAIN inbox = Runs!Bridges /\ 1 \in DOMAIN inbox[b] /\ InLine(x)
  BY <1>1, WholeParts, Tails DEF LinesParts
<1>3. x.id \in Nat /\ x.id # 0
  BY <1>1, <1>2, RunsAssumption DEF InLine
<1>4. Heads(b, 1)
  BY <1>1, <1>2 DEF Heads
<1>5. AnswerIsDue(b, r) /\ Runs!Asked(b, 1, r, "cancel")
  BY <1>1, <1>2, CancelParts DEF InPlaces, Runs!Asked
<1>6. /\ x \in calls[b]
      /\ \A j \in DOMAIN inbox[b] : /\ Runs!Asked(b, j, r, "prompt") => j < 1
                                    /\ Runs!Asked(b, j, r, "cancel") /\ inbox[b][j].id = x.id => j = 1
      /\ \A j \in DOMAIN outbox[b] : Runs!Replies(b, j, r) => outbox[b][j].id # x.id
  BY <1>2, <1>5 DEF AnswerIsDue
<1>7. Runs!Line("cancel", r, x.id) = x
  BY <1>1 DEF Runs!Line, InRows
<1>8. \A j \in DOMAIN inbox[b] : ~Runs!Asked(b, j, r, "prompt")
  <2>1. \A j \in DOMAIN inbox[b] : j \in Nat /\ j >= 1
    BY <1>2
  <2> QED
    BY <1>6, <2>1
<1>9. AskedKept(b, r, 1, "prompt") /\ AskedKept(b, r, 1, "cancel")
  BY <1>1, <1>4, HeadsAsked
<1>10. \A k \in DOMAIN inbox'[b] : k \in Nat /\ k >= 1
  BY <1>2, <1>4, HeadsKeep
<1>11. ASSUME NEW k \in DOMAIN inbox'[b], Runs!Asked(b, k, r, "cancel")', inbox'[b][k].id = x.id PROVE FALSE
  <2>1. k + 1 \in DOMAIN inbox[b] /\ Runs!Asked(b, k + 1, r, "cancel") /\ inbox[b][k + 1].id = x.id
    BY <1>9, <1>11 DEF AskedKept
  <2>2. k + 1 = 1
    BY <1>6, <2>1
  <2> QED
    BY <1>10, <2>2
<1>12. \A j \in DOMAIN inbox'[b] : ~Runs!Asked(b, j, r, "prompt")'
  BY <1>8, <1>9 DEF AskedKept
<1> QED
  BY <1>1, <1>3, <1>4, <1>6, <1>7, <1>8, <1>11, <1>12 DEF HeadCancelFacts

(* A cancel of a session that has no turn on keeps what there is.                 *)
LEMMA KeptPlaces ==
  ASSUME Whole, NEW b \in Runs!Bridges, Runs!TakeCancel(b), procs[b].busy # Head(inbox[b]).session, InPlaces(b)
  PROVE  InPlaces(b)'
<1> PICK x \in InRows : x = inbox[b][1] /\ x = Head(inbox[b])
  BY ProcessParts, Tails DEF Runs!TakeCancel, Runs!CancelTaken
<1> PICK r \in Sessions : r = x.session
  BY DEF InRows
<1>0. Runs!CancelTaken(b)
  BY DEF Runs!TakeCancel
<1>1. HeadCancelFacts(b, x, r)
  BY <1>0, HeadCancel
<1>2. outbox' = [outbox EXCEPT ![b] = Append(@, Wire("kept", r, x.id))] /\ procs' = procs
  BY DEF Runs!TakeCancel, Runs!Writes, Wire, Runs!Line
<1> PICK y \in OutRows : y = Wire("kept", r, x.id)
  BY DEF Wire, OutRows, InRows, Runs!Answers
<1>3. y.kind = "kept" /\ y.session = r /\ y.id = x.id
  BY DEF Wire
<1>4. outbox[b] \in Seq(OutRows) /\ outbox'[b] = Append(outbox[b], y)
  BY <1>2, WholeParts
<1>5. /\ WritesBehind(b) /\ Len(outbox[b]) \in Nat
      /\ \A k \in DOMAIN outbox'[b] : k \notin DOMAIN outbox[b] => k = Len(outbox[b]) + 1 /\ outbox'[b][k] = y
      /\ \A s : y.session # s \/ y.kind = "accepted" => SaysNothing(b, s)
  BY <1>4, OneBehind
<1>6. ASSUME NEW s \in Sessions PROVE JoinKept(b, s) /\ TurnsKept(b, s)
  BY <1>1, <1>2, JoinIsKept, SameTurnsKept DEF SameTurns, HeadCancelFacts
<1>7. ASSUME NEW s \in Sessions, s # r PROVE Runs!RunInOnePlace(b, s)' /\ Runs!CancelInOnePlace(b, s)'
  BY <1>1, <1>3, <1>5, <1>6, <1>7, StepApart DEF InPlaces, HeadCancelFacts
<1>8. Runs!RunInOnePlace(b, r) /\ AnswerIsDue(b, r) /\ AnswerIsLast(b, r)
  BY CancelParts DEF InPlaces
<1>9. \A k \in DOMAIN outbox'[b] : k \notin DOMAIN outbox[b] =>
        ~Runs!Told(b, k, r, Ending)' /\ ~Settles(b, k, r)' /\ ~Runs!Closes(b, k, r)'
  BY <1>3, <1>5 DEF Runs!Told, Ending, Settles, Runs!Closes, Runs!Grants, Runs!Denies, Runs!Forced
<1>10. Runs!RunInOnePlace(b, r)'
  BY <1>1, <1>5, <1>6, <1>8, <1>9, RunBehind DEF HeadCancelFacts
<1>11. AnswerIsDue(b, r)'
  <2> PICK l : l = Len(outbox[b]) + 1
    OBVIOUS
  <2> PICK c : c = x.id
    OBVIOUS
  <2>1. OnlyAnswers(b, r, l, c)
    BY <1>3, <1>5 DEF OnlyAnswers
  <2>2. AnswersOne(b, r, c)
    BY <1>1, <1>2 DEF AnswersOne, HeadCancelFacts, Runs!Joins
  <2>3. JoinStays(b, r)
    BY <1>6, <1>8, JoinAndTurns
  <2>4. procs[b].state = "up" /\ Heads(b, 1) /\ UNCHANGED calls
    BY <1>1 DEF HeadCancelFacts
  <2> QED
    BY <1>5, <1>8, <2>1, <2>2, <2>3, <2>4, DueAnswered
<1>12. AnswerIsLast(b, r)'
  <2>1. \A k \in DOMAIN outbox'[b] : Runs!Closes(b, k, r)' => k \in DOMAIN outbox[b] /\ outbox'[b][k] = outbox[b][k]
    BY <1>5, <1>9 DEF WritesBehind
  <2>2. \A k \in DOMAIN outbox[b] : k \in DOMAIN outbox'[b] /\ outbox'[b][k] = outbox[b][k]
    BY <1>5 DEF WritesBehind
  <2>3. AskedKept(b, r, 1, "prompt")
    BY <1>1, HeadsAsked DEF HeadCancelFacts
  <2>4. \A k \in DOMAIN outbox'[b] : k \notin DOMAIN outbox[b] => ~Settles(b, k, r)' /\ ~Runs!Forced(b, k, r)'
    BY <1>9 DEF Settles
  <2> QED
    BY <1>4, <1>6, <1>8, <2>1, <2>2, <2>3, <2>4, LastGains
<1>13. Runs!CancelInOnePlace(b, r)'
  BY <1>11, <1>12, CancelPartsNext
<1>14. \A u, v \in threads'[b] : u.prompt = v.prompt => u = v
  BY <1>1 DEF InPlaces, HeadCancelFacts
<1> QED
  BY <1>7, <1>10, <1>13, <1>14 DEF InPlaces

(* One of the session whose turn is on waits for the thread of that turn.         *)
LEMMA MarkedPlaces ==
  ASSUME Whole, NEW b \in Runs!Bridges, Runs!TakeCancel(b), procs[b].busy = Head(inbox[b]).session, InPlaces(b)
  PROVE  InPlaces(b)'
<1> PICK x \in InRows : x = inbox[b][1] /\ x = Head(inbox[b])
  BY ProcessParts, Tails DEF Runs!TakeCancel, Runs!CancelTaken
<1> PICK r \in Sessions : r = x.session
  BY DEF InRows
<1>0. Runs!CancelTaken(b)
  BY DEF Runs!TakeCancel
<1>1. HeadCancelFacts(b, x, r)
  BY <1>0, HeadCancel
<1>2. procs' = [procs EXCEPT ![b].cancelled = @ \cup {r}, ![b].joins = x.id] /\ outbox' = outbox
  BY DEF Runs!TakeCancel
<1>3. outbox[b] \in Seq(OutRows) /\ procs \in [Runs!Bridges -> ProcRows] /\ inbox[b] \in Seq(InRows)
  BY WholeParts
<1>4. /\ procs'[b].cancelled = procs[b].cancelled \union {r} /\ procs'[b].joins = x.id
      /\ procs'[b].busy = r /\ procs'[b].thread = procs[b].thread /\ procs[b].busy = r
      /\ procs'[b].state = procs[b].state
  BY <1>2, <1>3 DEF ProcRows
<1>5. prompts[procs[b].thread].session = r
  BY <1>4, ProcessParts, RunsAssumption
<1>6. Runs!Joins(b, r)' /\ \A s : s # r => ~Runs!Joins(b, s)'
  BY <1>1, <1>4, <1>5 DEF Runs!Joins, Runs!JoinedFor, HeadCancelFacts
<1>7. WritesBehind(b) /\ (\A s : SaysNothing(b, s)) /\ \A k \in DOMAIN outbox'[b] : k \in DOMAIN outbox[b]
  BY <1>2, <1>3, NoneBehind
<1>8. ASSUME NEW s \in Sessions PROVE TurnsKept(b, s)
  BY <1>1, <1>4, SameTurnsKept DEF SameTurns, HeadCancelFacts
<1>9. ASSUME NEW s \in Sessions, s # r PROVE Runs!RunInOnePlace(b, s)' /\ Runs!CancelInOnePlace(b, s)'
  <2>1. JoinKept(b, s)
    BY <1>4, <1>6, <1>9 DEF JoinKept
  <2> QED
    BY <1>1, <1>7, <1>8, <2>1, StepApart DEF InPlaces, HeadCancelFacts
<1>10. Runs!RunInOnePlace(b, r) /\ AnswerIsDue(b, r) /\ AnswerIsLast(b, r)
  BY CancelParts DEF InPlaces
<1>11. Runs!RunInOnePlace(b, r)'
  BY <1>1, <1>7, <1>8, <1>10, RunBehind DEF HeadCancelFacts
<1>12. /\ AskedKept(b, r, 1, "prompt") /\ AskedKept(b, r, 1, "cancel")
       /\ ToldKept(b, r, 0, Ending) /\ ToldKept(b, r, 0, Replying) /\ GrantsKept(b, r, 0)
  <2>1. AskedKept(b, r, 1, "prompt") /\ AskedKept(b, r, 1, "cancel")
    BY <1>1, HeadsAsked DEF HeadCancelFacts
  <2>2. \A k \in DOMAIN outbox[b] : k \in Nat /\ k + 0 = k /\ k - 0 = k
    BY <1>3
  <2> QED
    BY <1>2, <2>1, <2>2 DEF ToldKept, GrantsKept, Runs!Told
<1>13. AnswerIsLast(b, r)'
  <2>1. DOMAIN outbox[b] \subseteq Nat
    BY <1>3
  <2> QED
    BY <1>8, <1>10, <1>12, <2>1, LastStays
<1>14. AnswerIsDue(b, r)'
  <2>1. ASSUME NEW k \in DOMAIN inbox'[b], Runs!Asked(b, k, r, "cancel")'
        PROVE  /\ k \in Nat /\ k + 1 \in DOMAIN inbox[b] /\ Runs!Asked(b, k + 1, r, "cancel")
               /\ inbox'[b][k] = inbox[b][k + 1] /\ inbox'[b][k].id # x.id
    BY <1>1, <1>12, <2>1 DEF AskedKept, HeadCancelFacts
  <2>2. \A k \in DOMAIN outbox'[b] : Runs!Replies(b, k, r)' => Runs!Replies(b, k, r) /\ outbox'[b][k] = outbox[b][k]
    BY <1>2 DEF Runs!Replies, Runs!Told
  <2>3. ASSUME NEW k \in DOMAIN inbox'[b], Runs!Asked(b, k, r, "cancel")'
        PROVE  /\ inbox'[b][k] \in calls'[b]
               /\ \A j \in DOMAIN inbox'[b] :
                    /\ Runs!Asked(b, j, r, "prompt")' => j < k
                    /\ Runs!Asked(b, j, r, "cancel")' /\ inbox'[b][j].id = inbox'[b][k].id => j = k
               /\ Runs!Joins(b, r)' => procs'[b].joins # inbox'[b][k].id
               /\ \A j \in DOMAIN outbox'[b] : Runs!Replies(b, j, r)' => outbox'[b][j].id # inbox'[b][k].id
    <3>1. inbox[b][k + 1] \in calls[b]
      BY <1>10, <2>1, <2>3 DEF AnswerIsDue
    <3>2. ASSUME NEW j \in DOMAIN inbox'[b], Runs!Asked(b, j, r, "cancel")', inbox'[b][j].id = inbox'[b][k].id
          PROVE  j = k
      <4>1. k \in Nat /\ k + 1 \in DOMAIN inbox[b] /\ Runs!Asked(b, k + 1, r, "cancel")
            /\ inbox'[b][k] = inbox[b][k + 1]
        BY <2>1, <2>3
      <4>2. j \in Nat /\ j + 1 \in DOMAIN inbox[b] /\ Runs!Asked(b, j + 1, r, "cancel")
            /\ inbox'[b][j] = inbox[b][j + 1]
        BY <2>1, <3>2
      <4>3. inbox[b][j + 1].id = inbox[b][k + 1].id
        BY <3>2, <4>1, <4>2
      <4>4. j + 1 = k + 1
        BY <1>10, <4>1, <4>2, <4>3 DEF AnswerIsDue
      <4> QED
        BY <4>1, <4>2, <4>4
    <3>3. \A j \in DOMAIN outbox'[b] : Runs!Replies(b, j, r)' => outbox'[b][j].id # inbox'[b][k].id
      <4>1. \A j \in DOMAIN outbox[b] : Runs!Replies(b, j, r) => outbox[b][j].id # inbox[b][k + 1].id
        BY <1>10, <2>1, <2>3 DEF AnswerIsDue
      <4> QED
        BY <1>2, <2>1, <2>2, <2>3, <4>1
    <3>4. inbox'[b][k] \in calls'[b]
      BY <1>1, <2>1, <2>3, <3>1 DEF HeadCancelFacts
    <3>5. procs'[b].joins # inbox'[b][k].id
      BY <1>4, <2>1, <2>3
    <3> QED
      BY <1>1, <3>2, <3>3, <3>4, <3>5 DEF HeadCancelFacts
  <2>4. \A t \in threads'[b] : Runs!Active(b, t, r)' => t.prompt = procs'[b].thread
    BY <1>1, <1>4, <1>10 DEF AnswerIsDue, Runs!Active, HeadCancelFacts
  <2>5. /\ Runs!Line("cancel", r, procs'[b].joins) \in calls'[b]
        /\ \A k \in DOMAIN inbox'[b] : ~Runs!Asked(b, k, r, "prompt")'
        /\ \A k \in DOMAIN outbox'[b] : Runs!Replies(b, k, r)' => outbox'[b][k].id # procs'[b].joins
    BY <1>1, <1>2, <1>4, <2>2 DEF HeadCancelFacts
  <2>6. \A k \in DOMAIN outbox'[b] : Runs!Replies(b, k, r)' =>
          /\ Runs!Line("cancel", r, outbox'[b][k].id) \in calls'[b]
          /\ \A j \in DOMAIN outbox'[b] :
               Runs!Replies(b, j, r)' /\ outbox'[b][j].id = outbox'[b][k].id => j = k
    BY <1>1, <1>2, <1>10, <2>2 DEF AnswerIsDue, HeadCancelFacts
  <2> QED
    BY <2>3, <2>4, <2>5, <2>6 DEF AnswerIsDue
<1>15. Runs!CancelInOnePlace(b, r)'
  BY <1>13, <1>14, CancelPartsNext
<1>16. \A u, v \in threads'[b] : u.prompt = v.prompt => u = v
  BY <1>1 DEF InPlaces, HeadCancelFacts
<1> QED
  BY <1>9, <1>11, <1>15, <1>16 DEF InPlaces

(* A cancel that fails leaves a turn under its mark, which says nothing more.     *)
LEMMA CloseRaisesPlaces ==
  ASSUME Whole, NEW b \in Runs!Bridges, Runs!CloseRaises(b), ~crossed', InPlaces(b)
  PROVE  InPlaces(b)'
<1> PICK x \in InRows : x = inbox[b][1] /\ x = Head(inbox[b])
  BY ProcessParts, Tails DEF Runs!CloseRaises, Runs!CancelTaken
<1> PICK r \in Sessions : r = x.session
  BY DEF InRows
<1>0. Runs!CancelTaken(b)
  BY DEF Runs!CloseRaises
<1>1. HeadCancelFacts(b, x, r)
  BY <1>0, HeadCancel
<1>2. /\ outbox' = [outbox EXCEPT ![b] = Append(@, Wire("uncancelled", r, x.id))] /\ procs[b].busy = r
      /\ procs' = [procs EXCEPT ![b].cancelled = @ \cup {r}, ![b].broken = TRUE]
      /\ \A t \in threads[b] : t.session = r => t.at = "run"
  BY DEF Runs!CloseRaises, Runs!Writes, Wire, Runs!Line
<1> PICK y \in OutRows : y = Wire("uncancelled", r, x.id)
  BY DEF Wire, OutRows, InRows, Runs!Answers
<1>3. y.kind = "uncancelled" /\ y.session = r /\ y.id = x.id
  BY DEF Wire
<1>4. /\ outbox[b] \in Seq(OutRows) /\ outbox'[b] = Append(outbox[b], y)
      /\ procs \in [Runs!Bridges -> ProcRows]
  BY <1>2, WholeParts
<1>5. /\ WritesBehind(b) /\ Len(outbox[b]) \in Nat
      /\ \A k \in DOMAIN outbox'[b] : k \notin DOMAIN outbox[b] => k = Len(outbox[b]) + 1 /\ outbox'[b][k] = y
      /\ \A s : y.session # s \/ y.kind = "accepted" => SaysNothing(b, s)
  BY <1>4, OneBehind
<1>6. /\ procs'[b].cancelled = procs[b].cancelled \union {r} /\ procs'[b].joins = procs[b].joins
      /\ procs'[b].busy = procs[b].busy /\ procs'[b].thread = procs[b].thread
  BY <1>2, <1>4 DEF ProcRows
<1>7. ASSUME NEW s \in Sessions PROVE JoinKept(b, s) /\ TurnsKept(b, s)
  BY <1>1, <1>6, JoinIsKept, SameTurnsKept DEF SameTurns, HeadCancelFacts
<1>8. ASSUME NEW s \in Sessions, s # r PROVE Runs!RunInOnePlace(b, s)' /\ Runs!CancelInOnePlace(b, s)'
  BY <1>1, <1>3, <1>5, <1>7, <1>8, StepApart DEF InPlaces, HeadCancelFacts
<1>9. Runs!RunInOnePlace(b, r) /\ AnswerIsDue(b, r) /\ AnswerIsLast(b, r)
  BY CancelParts DEF InPlaces
<1>10. \A k \in DOMAIN outbox'[b] : k \notin DOMAIN outbox[b] =>
         ~Runs!Told(b, k, r, Ending)' /\ ~Runs!Closes(b, k, r)' /\ ~Runs!Forced(b, k, r)' /\ Runs!Denies(b, k, r)'
  BY <1>3, <1>5 DEF Runs!Told, Ending, Runs!Closes, Runs!Forced, Runs!Denies
<1>11. Runs!RunInOnePlace(b, r)'
  BY <1>1, <1>5, <1>7, <1>9, <1>10, RunBehind DEF HeadCancelFacts
<1>12. AnswerIsDue(b, r)'
  <2> PICK l : l = Len(outbox[b]) + 1
    OBVIOUS
  <2> PICK c : c = x.id
    OBVIOUS
  <2>1. OnlyAnswers(b, r, l, c)
    BY <1>3, <1>5 DEF OnlyAnswers
  <2>2. AnswersOne(b, r, c)
    BY <1>1, <1>6 DEF AnswersOne, HeadCancelFacts, Runs!Joins
  <2>3. JoinStays(b, r)
    BY <1>7, <1>9, JoinAndTurns
  <2>4. procs[b].state = "up" /\ Heads(b, 1) /\ UNCHANGED calls
    BY <1>1 DEF HeadCancelFacts
  <2> QED
    BY <1>5, <1>9, <2>1, <2>2, <2>3, <2>4, DueAnswered
<1>13. ASSUME NEW t \in threads'[b], Runs!Active(b, t, r)' PROVE Runs!Silenced(b, t, r)'
  <2>1. t \in threads[b] /\ t.session = r /\ t.at = "run" /\ threads'[b] = threads[b]
    BY <1>1, <1>2, <1>13 DEF Runs!Active, HeadCancelFacts
  <2>2. ASSUME NEW u \in threads[b], u.session = r PROVE u = t
    <3>1. Runs!Active(b, u, r) /\ Runs!Active(b, t, r)
      BY <1>2, <2>1, <2>2 DEF Runs!Active
    <3>2. u.prompt = procs[b].thread /\ t.prompt = procs[b].thread
      BY <1>2, <1>9, <2>1, <3>1 DEF AnswerIsDue
    <3> QED
      BY <2>1, <3>2 DEF InPlaces
  <2> QED
    BY <1>6, <2>1, <2>2 DEF Runs!Silenced
<1>14. AnswerIsLast(b, r)'
  <2>1. \A k \in DOMAIN outbox'[b] : Runs!Closes(b, k, r)' => k \in DOMAIN outbox[b] /\ outbox'[b][k] = outbox[b][k]
    BY <1>5, <1>10 DEF WritesBehind
  <2>2. \A k \in DOMAIN outbox[b] : k \in DOMAIN outbox'[b] /\ outbox'[b][k] = outbox[b][k]
    BY <1>5 DEF WritesBehind
  <2>3. AskedKept(b, r, 1, "prompt")
    BY <1>1, HeadsAsked DEF HeadCancelFacts
  <2>4. \A k \in DOMAIN outbox'[b] : Settles(b, k, r)' /\ k \notin DOMAIN outbox[b] =>
          /\ k \in Nat /\ k > Len(outbox[b])
          /\ \A j \in DOMAIN inbox'[b] : ~Runs!Asked(b, j, r, "prompt")'
          /\ \A t \in threads'[b] : Runs!Active(b, t, r)' => Runs!Denies(b, k, r)' /\ Runs!Silenced(b, t, r)'
    BY <1>1, <1>5, <1>10, <1>13 DEF HeadCancelFacts
  <2>5. \A k \in DOMAIN outbox'[b] : Runs!Forced(b, k, r)' /\ k \notin DOMAIN outbox[b] =>
          \E j \in DOMAIN outbox'[b] : k < j /\ Runs!Grants(b, j, r)'
    BY <1>10
  <2> QED
    BY <1>4, <1>7, <1>9, <2>1, <2>2, <2>3, <2>4, <2>5, LastGains
<1>15. Runs!CancelInOnePlace(b, r)'
  BY <1>12, <1>14, CancelPartsNext
<1>16. \A u, v \in threads'[b] : u.prompt = v.prompt => u = v
  BY <1>1 DEF InPlaces, HeadCancelFacts
<1> QED
  BY <1>8, <1>11, <1>15, <1>16 DEF InPlaces

(* A cancel is granted when the turn it waited for is over.                       *)
LEMMA JoinedPlaces ==
  ASSUME Whole, NEW b \in Runs!Bridges, Runs!Joined(b), InPlaces(b)
  PROVE  InPlaces(b)'
<1> PICK r \in Sessions : r = Runs!JoinedFor(b)
  BY ProcessParts DEF Runs!Joined, Runs!JoinedFor
<1>1. /\ procs[b].state = "up" /\ procs[b].joins # 0 /\ Runs!Joins(b, r)
      /\ \A t \in threads[b] : t.prompt # procs[b].thread
      /\ outbox' = [outbox EXCEPT ![b] = Append(@, Wire("cancelled", r, procs[b].joins))]
      /\ procs' = [procs EXCEPT ![b].joins = 0]
      /\ UNCHANGED <<prompts, calls, ledger, inbox, threads>>
  BY DEF Runs!Joined, Runs!Writes, Wire, Runs!Line, Runs!Joins
<1>2. /\ outbox[b] \in Seq(OutRows) /\ DOMAIN outbox = Runs!Bridges /\ procs \in [Runs!Bridges -> ProcRows]
      /\ procs[b].joins \in Nat
  BY WholeParts, RunsAssumption DEF ProcRows
<1> PICK y \in OutRows : y = Wire("cancelled", r, procs[b].joins)
  BY <1>2 DEF Wire, OutRows, Runs!Answers
<1>3. y.kind = "cancelled" /\ y.session = r /\ y.id = procs[b].joins
  BY DEF Wire
<1>4. outbox'[b] = Append(outbox[b], y) /\ Heads(b, 0)
  BY <1>1, <1>2 DEF Heads
<1>5. /\ WritesBehind(b) /\ Len(outbox[b]) \in Nat
      /\ \A k \in DOMAIN outbox'[b] : k \notin DOMAIN outbox[b] => k = Len(outbox[b]) + 1 /\ outbox'[b][k] = y
      /\ \A s : y.session # s \/ y.kind = "accepted" => SaysNothing(b, s)
  BY <1>2, <1>4, OneBehind
<1>6. /\ procs'[b].cancelled = procs[b].cancelled /\ procs'[b].joins = 0
      /\ procs'[b].busy = procs[b].busy /\ procs'[b].thread = procs[b].thread
  BY <1>1, <1>2 DEF ProcRows
<1>7. ASSUME NEW s \in Sessions PROVE JoinKept(b, s) /\ TurnsKept(b, s)
  BY <1>1, <1>6, JoinIsKept, SameTurnsKept DEF SameTurns
<1>8. ASSUME NEW s \in Sessions, s # r PROVE Runs!RunInOnePlace(b, s)' /\ Runs!CancelInOnePlace(b, s)'
  BY <1>1, <1>3, <1>4, <1>5, <1>7, <1>8, StepApart DEF InPlaces
<1>9. Runs!RunInOnePlace(b, r) /\ AnswerIsDue(b, r) /\ AnswerIsLast(b, r)
  BY CancelParts DEF InPlaces
<1>10. \A k \in DOMAIN outbox'[b] : k \notin DOMAIN outbox[b] =>
         ~Runs!Told(b, k, r, Ending)' /\ ~Runs!Closes(b, k, r)' /\ ~Runs!Forced(b, k, r)'
  BY <1>3, <1>5 DEF Runs!Told, Ending, Runs!Closes, Runs!Forced
<1>11. Runs!RunInOnePlace(b, r)'
  BY <1>1, <1>4, <1>5, <1>7, <1>9, <1>10, RunBehind
<1>12. AskedKept(b, r, 0, "prompt") /\ AskedKept(b, r, 0, "cancel")
  BY <1>1, <1>4, HeadsAsked
<1>13. AnswerIsDue(b, r)'
  <2> PICK l : l = Len(outbox[b]) + 1
    OBVIOUS
  <2> PICK c : c = procs[b].joins
    OBVIOUS
  <2>1. OnlyAnswers(b, r, l, c)
    BY <1>3, <1>5 DEF OnlyAnswers
  <2>2. AnswersOne(b, r, c)
    <3>1. /\ Runs!Line("cancel", r, c) \in calls[b]
          /\ \A j \in DOMAIN outbox[b] : Runs!Replies(b, j, r) => outbox[b][j].id # c
      BY <1>1, <1>9 DEF AnswerIsDue
    <3>2. \A k \in DOMAIN inbox'[b] : Runs!Asked(b, k, r, "cancel")' => inbox'[b][k].id # c
      BY <1>1, <1>9, <1>12 DEF AnswerIsDue, AskedKept
    <3> QED
      BY <1>6, <3>1, <3>2 DEF AnswersOne, Runs!Joins
  <2>3. JoinStays(b, r)
    BY <1>7, <1>9, JoinAndTurns
  <2> QED
    BY <1>1, <1>4, <1>5, <1>9, <2>1, <2>2, <2>3, DueAnswered
<1>14. \A t \in threads'[b] : ~Runs!Active(b, t, r)'
  BY <1>1, <1>9 DEF AnswerIsDue, Runs!Active
<1>15. \A j \in DOMAIN inbox'[b] : ~Runs!Asked(b, j, r, "prompt")'
  BY <1>1, <1>9, <1>12 DEF AnswerIsDue, AskedKept
<1>16. AnswerIsLast(b, r)'
  <2>1. \A k \in DOMAIN outbox'[b] : Runs!Closes(b, k, r)' => k \in DOMAIN outbox[b] /\ outbox'[b][k] = outbox[b][k]
    BY <1>5, <1>10 DEF WritesBehind
  <2>2. \A k \in DOMAIN outbox[b] : k \in DOMAIN outbox'[b] /\ outbox'[b][k] = outbox[b][k]
    BY <1>5 DEF WritesBehind
  <2>3. \A k \in DOMAIN outbox'[b] : Settles(b, k, r)' /\ k \notin DOMAIN outbox[b] =>
          /\ k \in Nat /\ k > Len(outbox[b])
          /\ \A j \in DOMAIN inbox'[b] : ~Runs!Asked(b, j, r, "prompt")'
          /\ \A t \in threads'[b] : Runs!Active(b, t, r)' => Runs!Denies(b, k, r)' /\ Runs!Silenced(b, t, r)'
    BY <1>5, <1>14, <1>15
  <2>4. \A k \in DOMAIN outbox'[b] : Runs!Forced(b, k, r)' /\ k \notin DOMAIN outbox[b] =>
          \E j \in DOMAIN outbox'[b] : k < j /\ Runs!Grants(b, j, r)'
    BY <1>10
  <2> QED
    BY <1>2, <1>7, <1>9, <1>12, <2>1, <2>2, <2>3, <2>4, LastGains
<1>17. Runs!CancelInOnePlace(b, r)'
  BY <1>13, <1>16, CancelPartsNext
<1>18. \A u, v \in threads'[b] : u.prompt = v.prompt => u = v
  BY <1>1 DEF InPlaces
<1> QED
  BY <1>8, <1>11, <1>17, <1>18 DEF InPlaces

(* It is granted too when the process, which waited too long, says so and exits.  *)
LEMMA ForcedExitPlaces ==
  ASSUME Whole, NEW b \in Runs!Bridges, Runs!ForcedExit(b), InPlaces(b)
  PROVE  InPlaces(b)'
<1> PICK r \in Sessions : r = Runs!JoinedFor(b)
  BY ProcessParts DEF Runs!ForcedExit, Runs!JoinedFor
<1> PICK c : c = procs[b].joins
  OBVIOUS
<1>1. /\ procs[b].state = "up" /\ procs[b].joins # 0 /\ Runs!Joins(b, r)
      /\ outbox' = [outbox EXCEPT ![b] = @ \o <<Wire("failed", r, 0), Wire("cancelled", r, c)>>]
      /\ procs' = [procs EXCEPT ![b].state = "dying", ![b].joins = 0, ![b].owes = 0]
      /\ threads' = [threads EXCEPT ![b] = {}]
      /\ UNCHANGED <<prompts, calls, ledger, inbox>>
  BY DEF Runs!ForcedExit, Wire, Runs!Line, Runs!Joins
<1>2. /\ outbox[b] \in Seq(OutRows) /\ DOMAIN outbox = Runs!Bridges /\ procs \in [Runs!Bridges -> ProcRows]
      /\ DOMAIN threads = Runs!Bridges /\ c \in Nat
  BY WholeParts, RunsAssumption DEF ProcRows
<1> PICK y \in OutRows : y = Wire("failed", r, 0)
  BY DEF Wire, OutRows, Runs!Answers
<1> PICK z \in OutRows : z = Wire("cancelled", r, c)
  BY <1>2 DEF Wire, OutRows, Runs!Answers
<1>3. /\ y.kind = "failed" /\ y.session = r /\ y.id = 0
      /\ z.kind = "cancelled" /\ z.session = r /\ z.id = c
  <2>1. y.kind = "failed" /\ y.session = r /\ y.id = 0
    BY DEF Wire
  <2>2. z.kind = "cancelled" /\ z.session = r /\ z.id = c
    BY DEF Wire
  <2> QED
    BY <2>1, <2>2
<1>4. outbox'[b] = outbox[b] \o <<y, z>>
  BY <1>1, <1>2
<1> PICK n : n = Len(outbox[b])
  OBVIOUS
<1>5. /\ n \in Nat /\ n + 2 \in DOMAIN outbox'[b]
      /\ \A k \in DOMAIN outbox[b] : k \in Nat /\ k <= n /\ k \in DOMAIN outbox'[b] /\ outbox'[b][k] = outbox[b][k]
      /\ \A k \in DOMAIN outbox'[b] : k \in Nat /\ (k \in DOMAIN outbox[b] \/ k = n + 1 \/ k = n + 2)
      /\ outbox'[b][n + 1] = y /\ outbox'[b][n + 2] = z
  <2>1. <<y, z>> \in Seq(OutRows) /\ Len(<<y, z>>) = 2 /\ <<y, z>>[1] = y /\ <<y, z>>[2] = z
    OBVIOUS
  <2>2. n \in Nat /\ outbox'[b] \in Seq(OutRows) /\ Len(outbox'[b]) = n + 2
    BY <1>2, <1>4, <2>1
  <2>3. \A k \in DOMAIN outbox[b] : k \in 1..n /\ outbox'[b][k] = outbox[b][k]
    BY <1>2, <1>4, <2>1
  <2>4. outbox'[b][n + 1] = y /\ outbox'[b][n + 2] = z
    BY <1>2, <1>4, <2>1
  <2>5. DOMAIN outbox[b] = 1..n /\ DOMAIN outbox'[b] = 1..(n + 2)
    BY <1>2, <2>2
  <2> QED
    BY <2>2, <2>3, <2>4, <2>5
<1>6. /\ procs'[b].state = "dying" /\ procs'[b].joins = 0
      /\ procs'[b].busy = procs[b].busy /\ procs'[b].thread = procs[b].thread
  BY <1>1, <1>2 DEF ProcRows
<1>7. threads'[b] = {} /\ Heads(b, 0)
  BY <1>1, <1>2 DEF Heads
<1>8. WritesBehind(b) /\ \A k \in DOMAIN outbox'[b] : k > n => k = n + 1 \/ k = n + 2
  BY <1>5 DEF WritesBehind
<1>9. ASSUME NEW s \in Sessions PROVE JoinKept(b, s) /\ TurnsKept(b, s)
  BY <1>1, <1>6, <1>7, JoinIsKept DEF TurnsKept
<1>10. ASSUME NEW s \in Sessions, s # r PROVE Runs!RunInOnePlace(b, s)' /\ Runs!CancelInOnePlace(b, s)'
  <2>1. SaysNothing(b, s)
    BY <1>3, <1>5, <1>8, <1>10 DEF SaysNothing
  <2> QED
    BY <1>1, <1>7, <1>8, <1>9, <2>1, StepApart DEF InPlaces
<1>11. Runs!RunInOnePlace(b, r) /\ AnswerIsDue(b, r) /\ AnswerIsLast(b, r)
  BY CancelParts DEF InPlaces
<1>12. \A k, kk : ~Runs!Asked(b, k, r, kk)'
  BY <1>6 DEF Runs!Asked
<1>13. \A k \in DOMAIN outbox'[b] : Runs!Closes(b, k, r)' => k \in DOMAIN outbox[b] /\ outbox'[b][k] = outbox[b][k]
  BY <1>3, <1>5 DEF Runs!Closes, Runs!Forced, Runs!Told
<1>14. Runs!RunInOnePlace(b, r)'
  <2>1. \A k \in DOMAIN outbox'[b] : Runs!Closes(b, k, r)' =>
          k \in DOMAIN outbox[b] /\ Runs!Closes(b, k, r) /\ outbox'[b][k] = outbox[b][k]
    BY <1>8, <1>13, OldLines
  <2>2. EndIsTold(b, r)
    BY <1>11, RunParts
  <2>3. \A k \in DOMAIN outbox'[b] : Runs!Closes(b, k, r)' => Runs!IsOpen(r, outbox[b][k].id)'
    BY <1>1, <2>1, <2>2 DEF EndIsTold, Runs!IsOpen
  <2>4. \A k \in DOMAIN outbox'[b] : Runs!Closes(b, k, r)' =>
          \A j \in DOMAIN outbox'[b] : Runs!Closes(b, j, r)' => j = k
    BY <2>1, <2>2 DEF EndIsTold
  <2> QED
    BY <1>7, <1>12, <2>3, <2>4 DEF Runs!RunInOnePlace
<1>15. AnswerIsDue(b, r)'
  <2> PICK l : l = n + 2
    OBVIOUS
  <2>1. OnlyAnswers(b, r, l, c)
    BY <1>3, <1>5 DEF Runs!Replies, Runs!Told, OnlyAnswers
  <2>2. AnswersOne(b, r, c)
    BY <1>1, <1>6, <1>11, <1>12 DEF AnswersOne, AnswerIsDue, Runs!Joins
  <2>3. JoinStays(b, r)
    BY <1>9, <1>11, JoinAndTurns
  <2> QED
    BY <1>1, <1>7, <1>8, <1>11, <2>1, <2>2, <2>3, DueAnswered
<1>16. AnswerIsLast(b, r)'
  <2>1. \A k \in DOMAIN outbox[b] : k \in DOMAIN outbox'[b] /\ outbox'[b][k] = outbox[b][k]
    BY <1>5
  <2>2. AskedKept(b, r, 0, "prompt")
    BY <1>12 DEF AskedKept
  <2>3. \A k \in DOMAIN outbox'[b] : Settles(b, k, r)' /\ k \notin DOMAIN outbox[b] =>
          /\ k \in Nat /\ k > Len(outbox[b])
          /\ \A j \in DOMAIN inbox'[b] : ~Runs!Asked(b, j, r, "prompt")'
          /\ \A t \in threads'[b] : Runs!Active(b, t, r)' => Runs!Denies(b, k, r)' /\ Runs!Silenced(b, t, r)'
    BY <1>5, <1>7, <1>12
  <2>4. ASSUME NEW k \in DOMAIN outbox'[b], Runs!Forced(b, k, r)', k \notin DOMAIN outbox[b]
        PROVE  \E j \in DOMAIN outbox'[b] : k < j /\ Runs!Grants(b, j, r)'
    <3>1. k = n + 1
      BY <1>3, <1>5, <2>4 DEF Runs!Forced, Runs!Told
    <3>2. n + 2 \in DOMAIN outbox'[b] /\ Runs!Grants(b, n + 2, r)' /\ k < n + 2
      BY <1>3, <1>5, <3>1 DEF Runs!Grants, Runs!Told
    <3> QED
      BY <3>2
  <2> QED
    BY <1>2, <1>9, <1>11, <1>13, <2>1, <2>2, <2>3, <2>4, LastGains
<1>17. Runs!CancelInOnePlace(b, r)'
  BY <1>15, <1>16, CancelPartsNext
<1> QED
  BY <1>7, <1>10, <1>14, <1>17 DEF InPlaces

(* Nothing is in two places in a process that was not started.                    *)
LEMMA UnbornPlaces ==
  ASSUME Whole, NEW b \in Runs!Bridges, procs[b].state = "unborn"
  PROVE  InPlaces(b) /\ inbox[b] = <<>> /\ outbox[b] = <<>> /\ threads[b] = {} /\ procs[b].joins = 0
<1>1. inbox[b] = <<>> /\ outbox[b] = <<>> /\ threads[b] = {} /\ procs[b].joins = 0
  BY DEF Whole, Runs!ProcsAreWhole
<1>2. ASSUME NEW s PROVE Runs!RunInOnePlace(b, s)
  BY <1>1 DEF Runs!RunInOnePlace, Runs!Asked, Runs!Closes, Runs!Told
<1>3. ASSUME NEW s PROVE AnswerIsDue(b, s)
  BY <1>1 DEF AnswerIsDue, Runs!Asked, Runs!Joins, Runs!Replies, Runs!Told
<1>4. ASSUME NEW s PROVE AnswerIsLast(b, s)
  BY <1>1 DEF AnswerIsLast, Settles, Runs!Grants, Runs!Denies, Runs!Forced, Runs!Told
<1> QED
  BY <1>1, <1>2, <1>3, <1>4, CancelParts DEF InPlaces

\* Process b is sent x.
IsSent(b, x) ==
  /\ InPlaces(b) /\ inbox[b] \in Seq(InRows) /\ outbox[b] \in Seq(OutRows)
  /\ inbox'[b] = Append(inbox[b], x) /\ calls'[b] = calls[b] \union {x}
  /\ procs'[b].thread = procs[b].thread /\ procs'[b].joins = procs[b].joins
  /\ procs'[b].busy = procs[b].busy /\ procs'[b].cancelled = procs[b].cancelled
  /\ procs'[b].state = "up" => procs[b].state = "up" \/ inbox[b] = <<>>
  /\ b = pool \/ threads[b] = {}

(* It is the pool's, or one that was not started.                                 *)
LEMMA TargetIsSent ==
  ASSUME Whole, NEW x \in InRows, Runs!Sends(x), pool # 0 => InPlaces(pool)
  PROVE  \E b \in Runs!Bridges : pool' = b /\ IsSent(b, x)
<1>1. /\ Runs!Target \in Runs!Bridges /\ Runs!Target # 0 /\ pool' = Runs!Target
      /\ pool # 0 => Runs!Target = pool
      /\ pool = 0 => procs[Runs!Target].state = "unborn"
      /\ inbox' = [inbox EXCEPT ![Runs!Target] = Append(@, x)]
      /\ calls' = [calls EXCEPT ![Runs!Target] = @ \cup {x}]
      /\ procs' = [procs EXCEPT ![Runs!Target].state = IF @ = "unborn" THEN "up" ELSE @]
  BY SendsTo
<1> PICK b \in Runs!Bridges : b = Runs!Target
  BY <1>1
<1>2. /\ inbox[b] \in Seq(InRows) /\ outbox[b] \in Seq(OutRows) /\ DOMAIN inbox = Runs!Bridges
      /\ calls \in [Runs!Bridges -> SUBSET InRows] /\ procs \in [Runs!Bridges -> ProcRows]
  BY WholeParts
<1>3. inbox'[b] = Append(inbox[b], x) /\ calls'[b] = calls[b] \union {x}
  BY <1>1, <1>2
<1>4. /\ procs'[b].thread = procs[b].thread /\ procs'[b].joins = procs[b].joins
      /\ procs'[b].busy = procs[b].busy /\ procs'[b].cancelled = procs[b].cancelled
      /\ procs'[b].state = "up" => procs[b].state = "up" \/ procs[b].state = "unborn"
  BY <1>1, <1>2 DEF ProcRows
<1>5. procs[b].state = "unborn" => InPlaces(b) /\ inbox[b] = <<>> /\ threads[b] = {}
  BY UnbornPlaces
<1>6. pool' = b
  BY <1>1
<1>7. IsSent(b, x)
  BY <1>1, <1>2, <1>3, <1>4, <1>5 DEF IsSent
<1> QED
  BY <1>6, <1>7

(* For other sessions that changes nothing.                                       *)
LEMMA SentApart ==
  ASSUME NEW b, NEW x \in InRows, IsSent(b, x), NEW s \in Sessions,
         UNCHANGED <<outbox, threads>>,
         procs[b].joins # 0 => prompts'[procs[b].thread].session = prompts[procs[b].thread].session,
         OpenKept(s)
  PROVE  /\ x.session # s => Apart(b, s, 0, 0)
         /\ TurnsKept(b, s) /\ CallsKept(b, s) /\ JoinKept(b, s)
         /\ x.session # s => Runs!RunInOnePlace(b, s)' /\ Runs!CancelInOnePlace(b, s)'
<1>1. /\ Len(inbox[b]) \in Nat /\ \A k \in DOMAIN inbox[b] : k \in Nat /\ k + 0 = k
      /\ \A k \in DOMAIN inbox'[b] : k \in Nat /\ (\/ k \in DOMAIN inbox[b] /\ inbox'[b][k] = inbox[b][k]
                                                  \/ inbox'[b][k] = x)
  BY Appends DEF IsSent
<1>2. \A k \in DOMAIN outbox[b] : k \in Nat /\ k + 0 = k /\ k - 0 = k
  BY DEF IsSent
<1>3. x.session # s => Apart(b, s, 0, 0)
  BY <1>1, <1>2 DEF Apart, IsSent
<1>4. TurnsKept(b, s)
  BY SameTurnsKept DEF SameTurns, IsSent
<1>5. CallsKept(b, s)
  BY DEF CallsKept, IsSent
<1>6. JoinKept(b, s)
  BY JoinIsKept DEF IsSent
<1>7. Runs!RunInOnePlace(b, s) /\ Runs!CancelInOnePlace(b, s)
  BY DEF IsSent, InPlaces
<1> QED
  BY <1>3, <1>4, <1>5, <1>6, <1>7, Elsewhere

(* A run begins where nothing of its session is left.                             *)
LEMMA StartPlaces ==
  ASSUME Whole, NEW n \in Runs!Prompts, Runs!Start(n), ~crossed', pool # 0 => InPlaces(pool)
  PROVE  InPlaces(pool)'
<1> PICK r \in Sessions : r = prompts[n].session
  BY WholeParts
<1>1. /\ prompts[n].at = "verify" /\ prompts' = [prompts EXCEPT ![n].at = "done"]
      /\ running' = running \union {r}
      /\ ~crossed /\ r \notin running /\ ~Runs!Cancelling(r) /\ ~Runs!Marked(r)
      /\ ledger' = Append(ledger, [session |-> r, prompt |-> n, outcome |-> "running"])
      /\ Runs!Sends([kind |-> "prompt", session |-> r, id |-> n])
      /\ UNCHANGED <<asked, outbox, threads, finished, runFaults>>
  BY DEF Runs!Start, Runs!Line
<1>n. n \in Nat
  BY RunsAssumption DEF Runs!Prompts
<1> PICK x \in InRows : x = [kind |-> "prompt", session |-> r, id |-> n]
  BY <1>n DEF InRows
<1>2. x.kind = "prompt" /\ x.session = r /\ x.id = n
  OBVIOUS
<1> PICK b \in Runs!Bridges : pool' = b /\ IsSent(b, x)
  BY <1>1, TargetIsSent
<1>3. /\ LedgerWhole /\ LinesParts
      /\ prompts \in [Runs!Prompts -> [session : Sessions, at : {"none", "verify", "done"}]]
  BY WholeParts
<1>4. (\A s, m : Runs!IsOpen(s, m) => Runs!IsOpen(s, m)') /\ Runs!IsOpen(r, n)'
  BY <1>1, <1>3, RunBegins
<1>5. procs[b].joins # 0 => prompts'[procs[b].thread].session = prompts[procs[b].thread].session
  BY <1>1, <1>3, ProcessParts DEF Runs!Sent
<1>6. ASSUME NEW s \in Sessions
      PROVE  /\ s # r => Runs!RunInOnePlace(b, s)' /\ Runs!CancelInOnePlace(b, s)'
             /\ JoinKept(b, s)
  <2>1. OpenKept(s)
    BY <1>4 DEF OpenKept
  <2> QED
    BY <1>1, <1>2, <1>5, <2>1, SentApart
<1>7. Runs!RunInOnePlace(b, r) /\ AnswerIsDue(b, r) /\ AnswerIsLast(b, r)
  BY CancelParts DEF IsSent, InPlaces
<1>8. \A m : ~Runs!IsOpen(r, m)
  BY <1>1, <1>3, NoneIsOpen
<1>9. ASSUME NEW t \in threads[b] PROVE ~Runs!Active(b, t, r)
  <2> SUFFICES ASSUME Runs!Active(b, t, r) PROVE FALSE
    OBVIOUS
  <2>1. Runs!Silenced(b, t, r)
    BY <1>7, <1>8, RunParts DEF TurnIsOn
  <2>2. b = pool /\ b # 0
    BY DEF IsSent, Runs!Bridges
  <2> QED
    BY <1>1, <2>1, <2>2 DEF Runs!Silenced, Runs!Marked
<1>10. /\ \A k \in DOMAIN inbox[b] : ~Runs!Asked(b, k, r, "prompt")
       /\ \A k \in DOMAIN outbox[b] : ~Runs!Closes(b, k, r)
  BY <1>7, <1>8, RunParts DEF PromptAhead, EndIsTold
<1>11. \A y \in calls[b] : ~(y.kind = "cancel" /\ y.session = r)
  BY <1>1 DEF Runs!Cancelling
<1>12. \A c : Runs!Line("cancel", r, c) \notin calls[b]
  BY <1>11 DEF Runs!Line
<1>13. /\ \A k \in DOMAIN inbox[b] : ~Runs!Asked(b, k, r, "cancel")
       /\ ~Runs!Joins(b, r) /\ \A k \in DOMAIN outbox[b] : ~Runs!Replies(b, k, r)
  BY <1>7, <1>11, <1>12 DEF AnswerIsDue, Runs!Asked
<1>14. \A k \in DOMAIN outbox[b] : ~Settles(b, k, r)
  <2>1. \A k \in DOMAIN outbox[b] : ~Runs!Grants(b, k, r) /\ ~Runs!Denies(b, k, r)
    BY <1>13 DEF Runs!Grants, Runs!Denies, Runs!Replies, Runs!Told
  <2>2. \A k \in DOMAIN outbox[b] : ~Runs!Forced(b, k, r)
    BY <1>7, <2>1 DEF AnswerIsLast
  <2> QED
    BY <2>1, <2>2 DEF Settles
<1> PICK l : l = Len(inbox[b]) + 1
  OBVIOUS
<1>15. ASSUME NEW k \in DOMAIN inbox'[b], NEW kk \in {"prompt", "cancel"}, Runs!Asked(b, k, r, kk)'
       PROVE  k = l /\ kk = "prompt" /\ inbox'[b][k] = x
  <2>1. \/ k \in DOMAIN inbox[b] /\ inbox'[b][k] = inbox[b][k]
        \/ k = l /\ inbox'[b][k] = x
    BY Appends DEF IsSent
  <2>2. CASE k \in DOMAIN inbox[b] /\ inbox'[b][k] = inbox[b][k]
    <3>1. procs[b].state = "up"
      BY <1>15, <2>2 DEF IsSent, Runs!Asked
    <3>2. Runs!Asked(b, k, r, kk)
      BY <1>15, <2>2, <3>1 DEF Runs!Asked
    <3> QED
      BY <1>10, <1>13, <2>2, <3>2
  <2>3. CASE k = l /\ inbox'[b][k] = x
    BY <1>2, <1>15, <2>3 DEF Runs!Asked
  <2> QED
    BY <2>1, <2>2, <2>3
<1>16. \A t \in threads'[b] : ~Runs!Active(b, t, r)'
  BY <1>1, <1>9 DEF Runs!Active
<1>17. \A k \in DOMAIN outbox'[b] : ~Runs!Closes(b, k, r)' /\ ~Runs!Replies(b, k, r)' /\ ~Settles(b, k, r)'
  BY <1>1, <1>10, <1>13, <1>14
     DEF Runs!Closes, Runs!Forced, Runs!Replies, Settles, Runs!Grants, Runs!Denies, Runs!Told
<1>18. ASSUME NEW t \in threads'[b], t.session = r PROVE t.at = "last" /\ t.prompt # n
  <2>1. t \in threads[b]
    BY <1>1
  <2>2. Runs!Sent(t.prompt)
    BY <2>1, TurnParts
  <2> QED
    BY <1>1, <1>9, <1>18, <2>1, <2>2 DEF Runs!Active, Runs!Sent
<1>19. Runs!RunInOnePlace(b, r)'
  <2>1. ASSUME NEW k \in DOMAIN inbox'[b], Runs!Asked(b, k, r, "prompt")'
        PROVE  Runs!IsOpen(r, inbox[b][k].id)' /\ inbox'[b][k].id = n
    <3>1. inbox'[b][k].id = n
      BY <1>2, <1>15, <2>1
    <3> QED
      BY <1>4, <3>1 DEF Runs!IsOpen
  <2>2. \A k, j \in DOMAIN inbox'[b] : Runs!Asked(b, k, r, "prompt")' /\ Runs!Asked(b, j, r, "prompt")' => j = k
    BY <1>15
  <2> QED
    BY <1>16, <1>17, <1>18, <2>1, <2>2 DEF Runs!RunInOnePlace
<1>20. AnswerIsDue(b, r)'
  <2>1. \A k \in DOMAIN inbox'[b] : ~Runs!Asked(b, k, r, "cancel")'
    BY <1>15
  <2>2. ~Runs!Joins(b, r)'
    BY <1>6, <1>13 DEF JoinKept
  <2> QED
    BY <1>16, <1>17, <2>1, <2>2 DEF AnswerIsDue
<1>21. AnswerIsLast(b, r)'
  BY <1>17 DEF AnswerIsLast, Settles
<1>22. Runs!CancelInOnePlace(b, r)'
  BY <1>20, <1>21, CancelPartsNext
<1>23. \A u, v \in threads'[b] : u.prompt = v.prompt => u = v
  BY <1>1 DEF InPlaces, IsSent
<1>24. InPlaces(b)'
  BY <1>6, <1>19, <1>22, <1>23 DEF InPlaces
<1>25. InPlaces(b)' <=> InPlaces(pool)'
  BY DEF InPlaces, Runs!RunInOnePlace, Runs!CancelInOnePlace
<1> QED
  BY <1>24, <1>25

(* A cancel is sent behind all that is there, under a number of its own.          *)
LEMMA CancelPlaces ==
  ASSUME Whole, NEW s \in Sessions, Runs!Cancel(s), pool # 0 => InPlaces(pool)
  PROVE  InPlaces(pool)'
<1>a. asked \in Nat /\ asked + 1 \in Nat /\ asked' = asked + 1
  BY WholeParts, RunsAssumption DEF Runs!Cancel
<1> PICK x \in InRows : x = [kind |-> "cancel", session |-> s, id |-> asked + 1]
  BY <1>a DEF InRows
<1>1. /\ x.kind = "cancel" /\ x.session = s /\ x.id = asked + 1 /\ Runs!Sends(x)
      /\ UNCHANGED <<prompts, running, ledger, outbox, threads, finished, crossed, runFaults>>
  BY <1>a DEF Runs!Cancel, Runs!Line
<1> PICK b \in Runs!Bridges : pool' = b /\ IsSent(b, x)
  BY <1>1, TargetIsSent
<1>2. ASSUME NEW r \in Sessions
      PROVE  /\ TurnsKept(b, r) /\ CallsKept(b, r) /\ JoinKept(b, r) /\ OpenKept(r)
             /\ r # s => Runs!RunInOnePlace(b, r)' /\ Runs!CancelInOnePlace(b, r)'
  <2>1. OpenKept(r)
    BY <1>1 DEF OpenKept, Runs!IsOpen
  <2>2. UNCHANGED <<outbox, threads>> /\ prompts' = prompts
    BY <1>1
  <2> QED
    BY <1>1, <2>1, <2>2, SentApart
<1>3. Runs!RunInOnePlace(b, s) /\ AnswerIsDue(b, s) /\ AnswerIsLast(b, s)
  BY CancelParts DEF IsSent, InPlaces
<1> PICK l : l = Len(inbox[b]) + 1
  OBVIOUS
<1>4. ASSUME NEW kk, NEW k \in DOMAIN inbox'[b], Runs!Asked(b, k, s, kk)'
      PROVE  /\ k \in Nat /\ k + 0 = k
             /\ \/ k \in DOMAIN inbox[b] /\ Runs!Asked(b, k, s, kk) /\ inbox'[b][k] = inbox[b][k] /\ k < l
                \/ k = l /\ kk = "cancel" /\ inbox'[b][k] = x
  <2>1. /\ Len(inbox[b]) \in Nat /\ \A j \in DOMAIN inbox[b] : j \in Nat /\ j <= Len(inbox[b])
        /\ \A j \in DOMAIN inbox'[b] : \/ j \in DOMAIN inbox[b] /\ inbox'[b][j] = inbox[b][j]
                                       \/ j = Len(inbox[b]) + 1 /\ inbox'[b][j] = x
    BY Appends DEF IsSent
  <2>2. CASE k \in DOMAIN inbox[b] /\ inbox'[b][k] = inbox[b][k]
    <3>1. procs[b].state = "up"
      BY <1>4, <2>2 DEF IsSent, Runs!Asked
    <3>2. Runs!Asked(b, k, s, kk)
      BY <1>4, <2>2, <3>1 DEF Runs!Asked
    <3> QED
      BY <2>1, <2>2, <3>2
  <2>3. CASE k = l /\ inbox'[b][k] = x
    BY <1>1, <1>4, <2>1, <2>3 DEF Runs!Asked
  <2> QED
    BY <2>1, <2>2, <2>3
<1>5. AskedKept(b, s, 0, "prompt")
  BY <1>4 DEF AskedKept
<1>6. /\ ToldKept(b, s, 0, Ending) /\ ToldKept(b, s, 0, Replying) /\ GrantsKept(b, s, 0)
      /\ DOMAIN outbox[b] \subseteq Nat
  <2>1. \A k \in DOMAIN outbox[b] : k \in Nat /\ k + 0 = k /\ k - 0 = k
    BY DEF IsSent
  <2> QED
    BY <1>1, <2>1 DEF ToldKept, GrantsKept, Runs!Told
<1>7. Runs!RunInOnePlace(b, s)'
  BY <1>2, <1>3, <1>5, <1>6, RunStays
<1>8. AnswerIsLast(b, s)'
  BY <1>2, <1>3, <1>5, <1>6, LastStays
<1>9. ASSUME NEW y \in calls[b], y.kind = "cancel" PROVE y.id # x.id
  <2>1. CallLine(y)
    BY WholeParts DEF LinesParts
  <2> QED
    BY <1>1, <1>9, <1>a, <2>1 DEF CallLine
<1>10. \A n : Runs!Line("cancel", s, n) \in calls[b] => n # x.id /\ Runs!Line("cancel", s, n) \in calls'[b]
  BY <1>9 DEF Runs!Line, IsSent
<1>11. Runs!Joins(b, s)' => Runs!Joins(b, s) /\ procs'[b].joins = procs[b].joins
  BY <1>2 DEF JoinKept
<1>12. JoinStays(b, s)
  BY <1>2, <1>3, JoinAndTurns
<1>13. ASSUME NEW k \in DOMAIN outbox'[b], Runs!Replies(b, k, s)'
       PROVE  k \in DOMAIN outbox[b] /\ Runs!Replies(b, k, s) /\ outbox'[b][k] = outbox[b][k]
              /\ outbox'[b][k].id # x.id
  <2>1. k \in DOMAIN outbox[b] /\ Runs!Replies(b, k, s) /\ outbox'[b][k] = outbox[b][k]
    BY <1>1, <1>13 DEF Runs!Replies, Runs!Told
  <2>2. Runs!Line("cancel", s, outbox[b][k].id) \in calls[b]
    BY <1>3, <2>1 DEF AnswerIsDue
  <2> QED
    BY <1>10, <2>1, <2>2
<1>14. ASSUME NEW k \in DOMAIN inbox'[b], Runs!Asked(b, k, s, "cancel")'
       PROVE  /\ inbox'[b][k] \in calls'[b]
              /\ \A j \in DOMAIN inbox'[b] :
                   /\ Runs!Asked(b, j, s, "prompt")' => j < k
                   /\ Runs!Asked(b, j, s, "cancel")' /\ inbox'[b][j].id = inbox'[b][k].id => j = k
              /\ Runs!Joins(b, s)' => procs'[b].joins # inbox'[b][k].id
              /\ \A j \in DOMAIN outbox'[b] : Runs!Replies(b, j, s)' => outbox'[b][j].id # inbox'[b][k].id
  <2> DEFINE Was(m) == m \in DOMAIN inbox[b] /\ Runs!Asked(b, m, s, "cancel") /\ inbox'[b][m] = inbox[b][m]
             New(m) == m = l /\ inbox'[b][m] = x
  <2>1. \A m \in DOMAIN inbox'[b] : Runs!Asked(b, m, s, "cancel")' => Was(m) \/ New(m)
    BY <1>4
  <2>2. \A m : Was(m) => inbox'[b][m].id # x.id /\ inbox[b][m] \in calls[b]
    <3>1. \A m : Was(m) => inbox[b][m] \in calls[b] /\ inbox[b][m].kind = "cancel"
      BY <1>3 DEF AnswerIsDue, Runs!Asked
    <3> QED
      BY <1>9, <3>1
  <2>3. \A j \in DOMAIN inbox'[b] : Runs!Asked(b, j, s, "prompt")' =>
          j \in DOMAIN inbox[b] /\ Runs!Asked(b, j, s, "prompt") /\ j < l
    BY <1>4
  <2>4. CASE Was(k)
    <3>1. /\ \A j \in DOMAIN inbox[b] :
               /\ Runs!Asked(b, j, s, "prompt") => j < k
               /\ Runs!Asked(b, j, s, "cancel") /\ inbox[b][j].id = inbox[b][k].id => j = k
          /\ Runs!Joins(b, s) => procs[b].joins # inbox[b][k].id
          /\ \A j \in DOMAIN outbox[b] : Runs!Replies(b, j, s) => outbox[b][j].id # inbox[b][k].id
      BY <1>3, <2>4 DEF AnswerIsDue
    <3>2. inbox'[b][k] \in calls'[b]
      BY <2>2, <2>4 DEF IsSent
    <3>3. ASSUME NEW j \in DOMAIN inbox'[b], Runs!Asked(b, j, s, "cancel")', inbox'[b][j].id = inbox'[b][k].id
          PROVE  j = k
      <4>1. Was(j)
        BY <2>1, <2>2, <2>4, <3>3
      <4> QED
        BY <2>4, <3>1, <3>3, <4>1
    <3> QED
      BY <1>11, <1>13, <2>3, <2>4, <3>1, <3>2, <3>3
  <2>5. CASE New(k)
    <3>1. inbox'[b][k] \in calls'[b]
      BY <2>5 DEF IsSent
    <3>2. Runs!Joins(b, s)' => procs'[b].joins # x.id
      BY <1>3, <1>10, <1>11 DEF AnswerIsDue
    <3>3. \A j \in DOMAIN inbox'[b] :
            Runs!Asked(b, j, s, "cancel")' /\ inbox'[b][j].id = inbox'[b][k].id => j = k
      BY <2>1, <2>2, <2>5
    <3> QED
      BY <1>13, <2>3, <2>5, <3>1, <3>2, <3>3
  <2> QED
    BY <1>14, <2>1, <2>4, <2>5
<1>15. AnswerIsDue(b, s)'
  <2>1. procs'[b].busy = s \/ Runs!Joins(b, s)' =>
          \A t \in threads'[b] : Runs!Active(b, t, s)' => t.prompt = procs'[b].thread
    BY <1>12 DEF JoinStays
  <2>2. Runs!Joins(b, s)' =>
          /\ Runs!Line("cancel", s, procs'[b].joins) \in calls'[b]
          /\ \A k \in DOMAIN inbox'[b] : ~Runs!Asked(b, k, s, "prompt")'
          /\ \A k \in DOMAIN outbox'[b] : Runs!Replies(b, k, s)' => outbox'[b][k].id # procs'[b].joins
    <3> SUFFICES ASSUME Runs!Joins(b, s)'
                 PROVE  /\ Runs!Line("cancel", s, procs'[b].joins) \in calls'[b]
                        /\ \A k \in DOMAIN inbox'[b] : ~Runs!Asked(b, k, s, "prompt")'
                        /\ \A k \in DOMAIN outbox'[b] : Runs!Replies(b, k, s)' => outbox'[b][k].id # procs'[b].joins
      OBVIOUS
    <3>1. Runs!Joins(b, s) /\ procs'[b].joins = procs[b].joins
      BY <1>11
    <3>2. /\ Runs!Line("cancel", s, procs[b].joins) \in calls[b]
          /\ \A k \in DOMAIN inbox[b] : ~Runs!Asked(b, k, s, "prompt")
          /\ \A k \in DOMAIN outbox[b] : Runs!Replies(b, k, s) => outbox[b][k].id # procs[b].joins
      BY <1>3, <3>1 DEF AnswerIsDue
    <3>3. Runs!Line("cancel", s, procs'[b].joins) \in calls'[b]
      BY <1>10, <3>1, <3>2
    <3>4. \A k \in DOMAIN inbox'[b] : ~Runs!Asked(b, k, s, "prompt")'
      BY <1>5, <3>2 DEF AskedKept
    <3>5. \A k \in DOMAIN outbox'[b] : Runs!Replies(b, k, s)' => outbox'[b][k].id # procs'[b].joins
      BY <1>13, <3>1, <3>2
    <3> QED
      BY <3>3, <3>4, <3>5
  <2>3. \A k \in DOMAIN outbox'[b] : Runs!Replies(b, k, s)' =>
          /\ Runs!Line("cancel", s, outbox'[b][k].id) \in calls'[b]
          /\ \A j \in DOMAIN outbox'[b] :
               Runs!Replies(b, j, s)' /\ outbox'[b][j].id = outbox'[b][k].id => j = k
    BY <1>3, <1>10, <1>13 DEF AnswerIsDue
  <2> QED
    BY <1>14, <2>1, <2>2, <2>3 DEF AnswerIsDue
<1>16. Runs!CancelInOnePlace(b, s)'
  BY <1>8, <1>15, CancelPartsNext
<1>17. \A u, v \in threads'[b] : u.prompt = v.prompt => u = v
  BY <1>1 DEF InPlaces, IsSent
<1>18. InPlaces(b)'
  BY <1>2, <1>7, <1>16, <1>17 DEF InPlaces
<1>19. InPlaces(b)' <=> InPlaces(pool)'
  BY DEF InPlaces, Runs!RunInOnePlace, Runs!CancelInOnePlace
<1> QED
  BY <1>18, <1>19

\* The line at the head of what was written, which is read: what it does to the requests that
\* wait and to the runs.
ReadFacts(b, x, r) ==
  /\ outbox[b] # <<>> /\ b = pool /\ x = outbox[b][1] /\ x.session = r
  /\ UNCHANGED <<prompts, pool, procs, inbox, threads, finished, crossed>>
  /\ outbox'[b] = Tail(outbox[b])
  /\ \A y \in calls[b] : y.kind = "cancel" /\ y \notin calls'[b] =>
       y = Runs!Line("cancel", r, x.id) /\ Runs!Replies(b, 1, r)
  /\ \/ ledger' = ledger
     \/ /\ Runs!Closes(b, 1, r) \/ Settles(b, 1, r)
        /\ \E o \in Outcomes \ {"running"} :
             /\ Closing({r}, o)
             /\ o = "completed" => x.kind = "finished"
             /\ o = "cancelled" => x.kind \in {"aborted", "cancelled"}

(* It is of its own session, and of the pool's process.                           *)
LEMMA HeadLine ==
  ASSUME Whole, NEW b \in Runs!Bridges, Runs!Reads(b), ~crossed,
         NEW x \in OutRows, x = outbox[b][1], x = Head(outbox[b]), NEW r \in Sessions, r = x.session
  PROVE  ReadFacts(b, x, r)
<1>1. /\ outbox[b] # <<>> /\ outbox' = [outbox EXCEPT ![b] = Tail(outbox[b])]
      /\ UNCHANGED <<prompts, asked, pool, procs, inbox, threads, finished, crossed, runFaults>>
  BY DEF Runs!Reads
<1>2. /\ outbox[b] \in Seq(OutRows) /\ DOMAIN outbox = Runs!Bridges
      /\ calls \in [Runs!Bridges -> SUBSET InRows] /\ LedgerWhole
  BY WholeParts
<1>3. 1 \in DOMAIN outbox[b] /\ outbox'[b] = Tail(outbox[b])
  BY <1>1, <1>2, Tails
<1>4. b = pool
  BY <1>1 DEF Whole, Runs!ProcsAreWhole
<1>5. \A kinds : x.kind \in kinds => Runs!Told(b, 1, r, kinds)
  BY <1>3 DEF Runs!Told
<1>6. \A o \in Outcomes \ {"running"} : Runs!Outcome(r, o) => Closing({r}, o)
  BY <1>2, OutcomeCloses
<1>7. CASE x.kind \in DOMAIN Runs!Ended /\ Runs!Outcome(r, Runs!Ended[x.kind]) /\ UNCHANGED calls
  <2>1. x.kind \in {"finished", "aborted", "failed"}
    BY <1>7 DEF Runs!Ended
  <2>2. Runs!Closes(b, 1, r) \/ Settles(b, 1, r)
    BY <1>5, <2>1 DEF Runs!Closes, Settles, Runs!Forced, Runs!Told
  <2> PICK o \in Outcomes \ {"running"} : o = Runs!Ended[x.kind]
    BY <2>1 DEF Runs!Ended, Outcomes
  <2>3. (o = "completed" => x.kind = "finished") /\ (o = "cancelled" => x.kind = "aborted")
    BY <2>1 DEF Runs!Ended
  <2> QED
    BY <1>1, <1>3, <1>4, <1>6, <1>7, <2>2, <2>3 DEF ReadFacts
<1>8. CASE /\ x.kind \in {"accepted", "refused"} /\ Runs!Answered(b, "prompt", x)
           /\ IF x.kind = "refused" /\ Runs!Waits(b, "prompt", x) THEN Runs!Outcome(r, "failed") ELSE Runs!NoOutcome
  <2>1. \A y \in calls[b] : y.kind = "cancel" => y \in calls'[b]
    BY <1>2, <1>8 DEF Runs!Answered, Runs!Line
  <2>2. CASE Runs!NoOutcome
    BY <1>1, <1>3, <1>4, <2>1, <2>2 DEF ReadFacts, Runs!NoOutcome
  <2>3. CASE x.kind = "refused" /\ Runs!Outcome(r, "failed")
    <3>1. Closing({r}, "failed") /\ "failed" \in Outcomes \ {"running"}
      BY <1>6, <2>3 DEF Outcomes
    <3>2. Runs!Closes(b, 1, r)
      BY <1>5, <2>3 DEF Runs!Closes, Runs!Forced, Runs!Told
    <3> QED
      BY <1>1, <1>3, <1>4, <2>1, <3>1, <3>2 DEF ReadFacts
  <2> QED
    BY <1>8, <2>2, <2>3
<1>9. CASE /\ x.kind \in {"kept", "cancelled", "uncancelled"} /\ Runs!Answered(b, "cancel", x)
           /\ IF x.kind # "kept" /\ Runs!Waits(b, "cancel", x)
              THEN Runs!Outcome(r, IF x.kind = "cancelled" THEN "cancelled" ELSE "failed")
              ELSE Runs!NoOutcome
  <2>0. Runs!Replies(b, 1, r)
    BY <1>5, <1>9 DEF Runs!Replies
  <2>1. \A y \in calls[b] : y.kind = "cancel" /\ y \notin calls'[b] => y = Runs!Line("cancel", r, x.id)
    BY <1>2, <1>9 DEF Runs!Answered
  <2>2. CASE Runs!NoOutcome
    BY <1>1, <1>3, <1>4, <2>0, <2>1, <2>2 DEF ReadFacts, Runs!NoOutcome
  <2>3. CASE x.kind # "kept" /\ Runs!Outcome(r, IF x.kind = "cancelled" THEN "cancelled" ELSE "failed")
    <3> PICK o \in Outcomes \ {"running"} : o = IF x.kind = "cancelled" THEN "cancelled" ELSE "failed"
      BY DEF Outcomes
    <3>1. Closing({r}, o)
      BY <1>6, <2>3
    <3>2. Settles(b, 1, r)
      BY <1>5, <1>9, <2>3 DEF Settles, Runs!Grants, Runs!Denies
    <3>3. (o = "completed" => x.kind = "finished") /\ (o = "cancelled" => x.kind \in {"aborted", "cancelled"})
      OBVIOUS
    <3> QED
      BY <1>1, <1>3, <1>4, <2>0, <2>1, <3>1, <3>2, <3>3 DEF ReadFacts
  <2> QED
    BY <1>9, <2>2, <2>3
<1> QED
  BY <1>7, <1>8, <1>9 DEF Runs!Reads

(* What closes a run leaves nothing of it on its way, but a turn that says nothing. *)
LEMMA NothingLeft ==
  ASSUME Whole, NEW b \in Runs!Bridges, outbox[b] # <<>>, NEW r \in Sessions, InPlaces(b),
         Runs!Closes(b, 1, r) \/ Settles(b, 1, r)
  PROVE  /\ \A j \in DOMAIN inbox[b] : ~Runs!Asked(b, j, r, "prompt")
         /\ \A j \in DOMAIN outbox[b] : j > 1 => ~Runs!Closes(b, j, r)
         /\ \A t \in threads[b] : Runs!Active(b, t, r) => Runs!Denies(b, 1, r) /\ Runs!Silenced(b, t, r)
<1>1. /\ PromptAhead(b, r) /\ TurnIsOn(b, r) /\ EndIsTold(b, r) /\ AnswerIsLast(b, r)
      /\ 1 \in DOMAIN outbox[b] /\ \A j \in DOMAIN outbox[b] : j \in Nat /\ j >= 1
  BY RunParts, CancelParts, ProcessParts, Tails DEF InPlaces
<1>2. CASE Runs!Closes(b, 1, r)
  <2>1. \A j \in DOMAIN outbox[b] : Runs!Closes(b, j, r) => j = 1
    BY <1>1, <1>2 DEF EndIsTold
  <2>2. \A j \in DOMAIN inbox[b] : ~Runs!Asked(b, j, r, "prompt")
    BY <1>1, <1>2 DEF PromptAhead
  <2>3. \A t \in threads[b] : ~Runs!Active(b, t, r)
    BY <1>1, <1>2 DEF TurnIsOn
  <2> QED
    BY <2>1, <2>2, <2>3
<1>3. CASE Settles(b, 1, r)
  <2>1. /\ \A j \in DOMAIN inbox[b] : ~Runs!Asked(b, j, r, "prompt")
        /\ \A j \in DOMAIN outbox[b] : Runs!Closes(b, j, r) => j < 1
        /\ \A t \in threads[b] : Runs!Active(b, t, r) => Runs!Denies(b, 1, r) /\ Runs!Silenced(b, t, r)
    BY <1>1, <1>3 DEF AnswerIsLast
  <2>2. \A j \in DOMAIN outbox[b] : ~Runs!Closes(b, j, r)
    BY <1>1, <2>1
  <2> QED
    BY <2>1, <2>2
<1> QED
  BY <1>2, <1>3

(* What is read is of the run that is open, or of none.                           *)
LEMMA ReadsPlaces ==
  ASSUME Whole, NEW b \in Runs!Bridges, Runs!Reads(b), ~crossed, InPlaces(b), Whole'
  PROVE  InPlaces(b)'
<1> PICK x \in OutRows : x = outbox[b][1] /\ x = Head(outbox[b])
  BY ProcessParts, Tails DEF Runs!Reads
<1> PICK r \in Sessions : r = x.session
  BY DEF OutRows
<1>1. ReadFacts(b, x, r)
  BY HeadLine
<1>2. /\ outbox[b] # <<>> /\ outbox'[b] = Tail(outbox[b])
      /\ UNCHANGED <<prompts, pool, procs, inbox, threads, finished, crossed>>
      /\ outbox[b] \in Seq(OutRows) /\ inbox[b] \in Seq(InRows)
  BY <1>1, ProcessParts DEF ReadFacts
<1>3. ASSUME NEW s \in Sessions PROVE Apart(b, s, 0, 1) /\ TurnsKept(b, s) /\ JoinKept(b, s)
  <2>1. \A k \in DOMAIN outbox'[b] : k \in Nat /\ k >= 1 /\ k + 1 \in DOMAIN outbox[b] /\ outbox'[b][k] = outbox[b][k + 1]
    BY <1>2, Tails
  <2>2. \A k \in DOMAIN outbox[b] : k \in Nat /\ (k > 1 => k - 1 \in DOMAIN outbox'[b] /\ outbox'[b][k - 1] = outbox[b][k])
    BY <1>2
  <2>3. \A k \in DOMAIN inbox'[b] : k \in Nat /\ k + 0 = k
    BY <1>2
  <2>4. Apart(b, s, 0, 1)
    BY <1>2, <2>1, <2>2, <2>3 DEF Apart
  <2>5. TurnsKept(b, s)
    BY <1>2, SameTurnsKept DEF SameTurns
  <2>6. JoinKept(b, s)
    BY <1>2 DEF JoinKept, Runs!Joins, Runs!JoinedFor
  <2> QED
    BY <2>4, <2>5, <2>6
<1>4. ASSUME NEW s \in Sessions, s # r PROVE OpenKept(s) /\ CallsKept(b, s)
  <2>1. CallsKept(b, s)
    BY <1>1, <1>4 DEF CallsKept, ReadFacts, Runs!Line
  <2>2. CASE ledger' = ledger
    BY <2>1, <2>2 DEF OpenKept, Runs!IsOpen
  <2>3. CASE \E o \in Outcomes \ {"running"} : Closing({r}, o)
    <3> PICK o \in Outcomes \ {"running"} : Closing({r}, o)
      BY <2>3
    <3>1. {r} \in SUBSET Sessions /\ LedgerWhole /\ (crossed => crossed')
      BY <1>2 DEF Whole
    <3>2. \A q, n : q \notin {r} /\ Runs!IsOpen(q, n) => Runs!IsOpen(q, n)'
      BY <3>1, ClosingKeeps
    <3> QED
      BY <1>4, <2>1, <3>2 DEF OpenKept
  <2> QED
    BY <1>1, <2>2, <2>3 DEF ReadFacts
<1>5. ASSUME NEW s \in Sessions, s # r PROVE Runs!RunInOnePlace(b, s)' /\ Runs!CancelInOnePlace(b, s)'
  <2>1. /\ Apart(b, s, 0, 1) /\ TurnsKept(b, s) /\ JoinKept(b, s) /\ OpenKept(s) /\ CallsKept(b, s)
        /\ Runs!RunInOnePlace(b, s) /\ Runs!CancelInOnePlace(b, s)
    BY <1>3, <1>4, <1>5 DEF InPlaces
  <2> QED
    BY <2>1, Elsewhere
<1>6. /\ AskedKept(b, r, 0, "prompt") /\ AskedKept(b, r, 0, "cancel")
      /\ ToldKept(b, r, 1, Ending) /\ ToldKept(b, r, 1, Replying) /\ GrantsKept(b, r, 1)
      /\ TurnsKept(b, r) /\ JoinKept(b, r)
  BY <1>3, ApartKept
<1>7. Runs!RunInOnePlace(b, r) /\ AnswerIsDue(b, r) /\ AnswerIsLast(b, r)
  BY CancelParts DEF InPlaces
<1>8. Runs!RunInOnePlace(b, r)'
  <2>1. CASE ledger' = ledger
    <3>1. OpenKept(r)
      BY <2>1 DEF OpenKept, Runs!IsOpen
    <3> QED
      BY <1>6, <1>7, <3>1, RunStays
  <2>2. CASE Runs!Closes(b, 1, r) \/ Settles(b, 1, r)
    <3>1. /\ \A j \in DOMAIN inbox[b] : ~Runs!Asked(b, j, r, "prompt")
          /\ \A j \in DOMAIN outbox[b] : j > 1 => ~Runs!Closes(b, j, r)
          /\ \A t \in threads[b] : Runs!Active(b, t, r) => Runs!Denies(b, 1, r) /\ Runs!Silenced(b, t, r)
      BY <1>2, <2>2, NothingLeft
    <3>2. \A k \in DOMAIN inbox'[b] : ~Runs!Asked(b, k, r, "prompt")'
      BY <1>6, <3>1 DEF AskedKept
    <3>3. ASSUME NEW k \in DOMAIN outbox'[b], Runs!Closes(b, k, r)' PROVE FALSE
      <4>1. k \in Nat /\ k + 1 \in DOMAIN outbox[b] /\ Runs!Closes(b, k + 1, r)
        BY <1>6, <3>3, KindsOfLines
      <4>2. k >= 1
        BY <1>2, <3>3, Tails
      <4> QED
        BY <3>1, <4>1, <4>2
    <3>4. \A t \in threads'[b] : Runs!Active(b, t, r)' => Runs!Silenced(b, t, r)'
      BY <1>2, <3>1 DEF Runs!Active, Runs!Silenced
    <3> QED
      BY <3>2, <3>3, <3>4 DEF Runs!RunInOnePlace
  <2> QED
    BY <1>1, <2>1, <2>2 DEF ReadFacts
<1>9. AnswerIsLast(b, r)'
  <2>1. DOMAIN outbox[b] \subseteq Nat
    BY <1>2
  <2> QED
    BY <1>6, <1>7, <2>1, LastStays
<1>10. AnswerIsDue(b, r)'
  <2> PICK c : c = x.id
    OBVIOUS
  <2>0. \A n : Runs!Line("cancel", r, n) \in calls[b] /\ (Runs!Replies(b, 1, r) => n # c) =>
          Runs!Line("cancel", r, n) \in calls'[b]
    BY <1>1 DEF ReadFacts, Runs!Line
  <2>1. 1 \in DOMAIN outbox[b] /\ outbox[b][1].id = c
    BY <1>2, Tails
  <2>2. ASSUME NEW k \in DOMAIN inbox'[b], Runs!Asked(b, k, r, "cancel")' PROVE inbox'[b][k] \in calls'[b]
    <3>1. /\ k \in DOMAIN inbox[b] /\ Runs!Asked(b, k, r, "cancel") /\ inbox'[b][k] = inbox[b][k]
      BY <1>2, <2>2 DEF Runs!Asked
    <3>2. inbox[b][k] \in calls[b] /\ \A j \in DOMAIN outbox[b] : Runs!Replies(b, j, r) => outbox[b][j].id # inbox[b][k].id
      BY <1>7, <3>1 DEF AnswerIsDue
    <3>3. Runs!Replies(b, 1, r) => inbox[b][k].id # c
      BY <2>1, <3>2
    <3>4. inbox[b][k] = Runs!Line("cancel", r, inbox[b][k].id)
      <4>1. inbox[b][k] \in InRows /\ inbox[b][k].kind = "cancel" /\ inbox[b][k].session = r
        BY <1>2, <3>1 DEF Runs!Asked
      <4> QED
        BY <4>1 DEF InRows, Runs!Line
    <3> QED
      BY <2>0, <3>1, <3>2, <3>3, <3>4
  <2>3. ASSUME Runs!Joins(b, r)' PROVE Runs!Line("cancel", r, procs'[b].joins) \in calls'[b]
    <3>1. Runs!Joins(b, r) /\ procs'[b].joins = procs[b].joins
      BY <1>6, <2>3 DEF JoinKept
    <3>2. /\ Runs!Line("cancel", r, procs[b].joins) \in calls[b]
          /\ \A k \in DOMAIN outbox[b] : Runs!Replies(b, k, r) => outbox[b][k].id # procs[b].joins
      BY <1>7, <3>1 DEF AnswerIsDue
    <3>3. Runs!Replies(b, 1, r) => procs[b].joins # c
      BY <2>1, <3>2
    <3> QED
      BY <2>0, <3>1, <3>2, <3>3
  <2>4. ASSUME NEW k \in DOMAIN outbox'[b], Runs!Replies(b, k, r)'
        PROVE  Runs!Line("cancel", r, outbox'[b][k].id) \in calls'[b]
    <3>1. k \in Nat /\ k + 1 \in DOMAIN outbox[b] /\ Runs!Replies(b, k + 1, r) /\ outbox'[b][k] = outbox[b][k + 1]
      BY <1>6, <2>4, KindsOfReplies
    <3>2. k >= 1
      BY <1>2, <2>4, Tails
    <3>3. /\ Runs!Line("cancel", r, outbox[b][k + 1].id) \in calls[b]
          /\ \A j \in DOMAIN outbox[b] :
               Runs!Replies(b, j, r) /\ outbox[b][j].id = outbox[b][k + 1].id => j = k + 1
      BY <1>7, <3>1 DEF AnswerIsDue
    <3>4. Runs!Replies(b, 1, r) => outbox[b][k + 1].id # c
      <4>1. Runs!Replies(b, 1, r) /\ outbox[b][1].id = outbox[b][k + 1].id => 1 = k + 1
        BY <2>1, <3>3
      <4> QED
        BY <2>1, <3>1, <3>2, <4>1
    <3> QED
      BY <2>0, <3>1, <3>3, <3>4
  <2>5. RepliesGain(b, r, 1, 0, 0, 0)
    BY <1>6, KindsOfReplies DEF RepliesGain
  <2>6. JoinStays(b, r)
    BY <1>6, <1>7, JoinAndTurns
  <2> QED
    BY <1>6, <1>7, <2>2, <2>3, <2>4, <2>5, <2>6, DueStays
<1>11. Runs!CancelInOnePlace(b, r)'
  BY <1>9, <1>10, CancelPartsNext
<1>12. \A u, v \in threads'[b] : u.prompt = v.prompt => u = v
  BY <1>2 DEF InPlaces
<1> QED
  BY <1>5, <1>8, <1>11, <1>12 DEF InPlaces

(* A request that waited too long leaves nothing in two places.                   *)
LEMMA TimesOutPlaces ==
  ASSUME Whole, NEW b \in Runs!Bridges, NEW x \in calls[b], Runs!TimesOut(b, x), ~crossed'
  PROVE  b = pool /\ pool' = pool /\ InPlaces(b)'
<1>1. /\ procs' = [procs EXCEPT ![b].state = "dying", ![b].joins = 0, ![b].owes = 0]
      /\ threads' = [threads EXCEPT ![b] = {}]
      /\ outbox' = outbox /\ outbox[b] = <<>> /\ pool = b /\ pool' = pool
  BY DEF Runs!TimesOut, Runs!Killed
<1>2. procs \in [Runs!Bridges -> ProcRows] /\ DOMAIN threads = Runs!Bridges
  BY WholeParts
<1>3. threads'[b] = {} /\ outbox'[b] = <<>> /\ procs'[b].state # "up" /\ procs'[b].joins = 0
  BY <1>1, <1>2 DEF ProcRows
<1>4. InPlaces(b)'
  BY <1>3, StoppedPlaces
<1> QED
  BY <1>1, <1>4

(* What a process does with its lines and its threads keeps what is in place.     *)
LEMMA ProcessPlaces ==
  ASSUME Whole, ~crossed', NEW b \in Runs!Bridges, InPlaces(b),
         \/ Runs!TakePrompt(b) \/ Runs!Accepts(b) \/ Runs!TakeCancel(b) \/ Runs!CloseRaises(b)
         \/ Runs!Joined(b) \/ Runs!ForcedExit(b)
  PROVE  InPlaces(b)'
<1>1. CASE Runs!TakePrompt(b)
  BY <1>1, TakenPlaces, RefusedPlaces
<1>2. CASE Runs!TakeCancel(b)
  BY <1>2, KeptPlaces, MarkedPlaces
<1> QED
  BY <1>1, <1>2, AcceptsPlaces, CloseRaisesPlaces, JoinedPlaces, ForcedExitPlaces

(* So do its turns.                                                               *)
LEMMA ThreadPlaces ==
  ASSUME Whole, ~crossed, NEW b \in Runs!Bridges, InPlaces(b), Runs!Turn(b)
  PROVE  InPlaces(b)'
<1>1. PICK t \in threads[b] : \/ Runs!TurnEnds(b, t) \/ Runs!TurnRaises(b, t)
                              \/ Runs!Says(b, t) \/ Runs!Ends(b, t)
  BY DEF Runs!Turn
<1> QED
  BY <1>1, TurnEndsPlaces, TurnRaisesPlaces, SaysPlaces, EndsPlaces

(* What is crossed stays so.                                                      *)
LEMMA CrossedStays ==
  ASSUME Whole, Runs!Next
  PROVE  crossed => crossed'
<1>0. \A b : Runs!Killed(b) => (crossed => crossed')
  BY DEF Runs!Killed
<1>1. CASE \E n \in Runs!Prompts : \/ \E s \in Sessions : Runs!Prompt(n, s)
                                   \/ Runs!Start(n) \/ Runs!StartFails(n) \/ Runs!Replaced(n)
  BY <1>0, <1>1 DEF Runs!Prompt, Runs!Start, Runs!StartFails, Runs!Replaced
<1>2. CASE \E s \in Sessions : Runs!Cancel(s) \/ Runs!CancelFails(s)
  BY <1>2 DEF Runs!Cancel, Runs!CancelFails
<1>3. CASE \E b \in Runs!Bridges : \/ Runs!TakePrompt(b) \/ Runs!Accepts(b) \/ Runs!TakeCancel(b)
                                   \/ Runs!CloseRaises(b) \/ Runs!Joined(b) \/ Runs!ForcedExit(b)
  BY <1>3 DEF Runs!TakePrompt, Runs!Accepts, Runs!TakeCancel, Runs!CloseRaises, Runs!Joined, Runs!ForcedExit
<1>4. CASE \E b \in Runs!Bridges : Runs!Turn(b)
  BY <1>4 DEF Runs!Turn, Runs!TurnEnds, Runs!TurnRaises, Runs!Says, Runs!Ends
<1>5. CASE \E b \in Runs!Bridges : Runs!Reads(b) \/ Runs!Exits(b)
  BY <1>5 DEF Runs!Reads, Runs!Exits
<1>6. CASE \E b \in Runs!Bridges : \E line \in calls[b] : Runs!TimesOut(b, line)
  BY <1>0, <1>6 DEF Runs!TimesOut
<1> QED
  BY <1>1, <1>2, <1>3, <1>4, <1>5, <1>6 DEF Runs!Next

(* A process that moves is the pool's, and stays it.                              *)
LEMMA PoolMoves ==
  ASSUME Whole, NEW b \in Runs!Bridges, ~crossed,
         \/ Runs!TakePrompt(b) \/ Runs!Accepts(b) \/ Runs!TakeCancel(b) \/ Runs!CloseRaises(b)
         \/ Runs!Joined(b) \/ Runs!ForcedExit(b) \/ Runs!Turn(b) \/ Runs!Reads(b)
  PROVE  b = pool /\ pool' = pool /\ pool # 0
<1>0. b # 0
  BY DEF Runs!Bridges
<1>1. CASE \/ Runs!TakePrompt(b) \/ Runs!Accepts(b) \/ Runs!TakeCancel(b) \/ Runs!CloseRaises(b)
           \/ Runs!Joined(b) \/ Runs!ForcedExit(b)
  <2>1. procs[b].state = "up" /\ pool' = pool
    BY <1>1 DEF Runs!TakePrompt, Runs!Accepts, Runs!TakeCancel, Runs!CloseRaises, Runs!CancelTaken,
                Runs!Joined, Runs!ForcedExit, Runs!Idle
  <2> QED
    BY <1>0, <2>1, ProcessParts
<1>2. CASE Runs!Turn(b)
  <2>1. pool' = pool /\ \E t \in threads[b] : TRUE
    BY <1>2 DEF Runs!Turn, Runs!TurnEnds, Runs!TurnRaises, Runs!Says, Runs!Ends
  <2> QED
    BY <1>0, <2>1, ProcessParts
<1>3. CASE Runs!Reads(b)
  BY <1>0, <1>3 DEF Runs!Reads, Whole, Runs!ProcsAreWhole
<1> QED
  BY <1>1, <1>2, <1>3

(* Every step of the turns and their lines keeps what is in place.                *)
LEMMA NextPlaces ==
  ASSUME Whole, Whole', Runs!Next, Runs!NothingIsMixedUp
  PROVE  Runs!NothingIsMixedUp'
<1> SUFFICES ASSUME ~crossed', pool' # 0 PROVE InPlaces(pool)'
  BY DEF Runs!NothingIsMixedUp, InPlaces
<1>0. /\ ~crossed /\ (pool # 0 => InPlaces(pool))
  BY CrossedStays DEF Runs!NothingIsMixedUp, InPlaces
<1>p. pool # 0 => pool \in Runs!Bridges
  BY RunsAssumption DEF Whole, Runs!TypeOK, Runs!Bridges
<1>q. ASSUME NEW b, pool' = b, InPlaces(b)' PROVE InPlaces(pool)'
  BY <1>q DEF InPlaces, Runs!RunInOnePlace, Runs!CancelInOnePlace
<1>r. ASSUME NEW b, pool = b, pool # 0 PROVE InPlaces(b)
  BY <1>0, <1>r
<1>1. CASE \E n \in Runs!Prompts, s \in Sessions : Runs!Prompt(n, s)
  <2> PICK n \in Runs!Prompts, s \in Sessions : Runs!Prompt(n, s)
    BY <1>1
  <2>1. pool' = pool
    BY DEF Runs!Prompt
  <2> PICK b \in Runs!Bridges : b = pool
    BY <1>p, <2>1
  <2>2. InPlaces(b)'
    BY <1>r, <2>1, PromptPlaces
  <2> QED
    BY <1>q, <2>1, <2>2
<1>2. CASE \E n \in Runs!Prompts : Runs!Start(n)
  BY <1>0, <1>2, StartPlaces
<1>3. CASE \E n \in Runs!Prompts : Runs!StartFails(n) \/ Runs!Replaced(n)
  BY <1>3 DEF Runs!StartFails, Runs!Replaced
<1>4. CASE \E s \in Sessions : Runs!Cancel(s)
  BY <1>0, <1>4, CancelPlaces
<1>5. CASE \E s \in Sessions : Runs!CancelFails(s)
  BY <1>5 DEF Runs!CancelFails
<1>6. CASE \E b \in Runs!Bridges : \/ Runs!TakePrompt(b) \/ Runs!Accepts(b) \/ Runs!TakeCancel(b)
                                   \/ Runs!CloseRaises(b) \/ Runs!Joined(b) \/ Runs!ForcedExit(b)
                                   \/ Runs!Turn(b) \/ Runs!Reads(b)
  <2> PICK b \in Runs!Bridges : \/ Runs!TakePrompt(b) \/ Runs!Accepts(b) \/ Runs!TakeCancel(b)
                                \/ Runs!CloseRaises(b) \/ Runs!Joined(b) \/ Runs!ForcedExit(b)
                                \/ Runs!Turn(b) \/ Runs!Reads(b)
    BY <1>6
  <2>1. b = pool /\ pool' = pool /\ pool # 0
    BY <1>0, PoolMoves
  <2>2. InPlaces(b)
    BY <1>r, <2>1
  <2>3. InPlaces(b)'
    BY <1>0, <2>2, ProcessPlaces, ThreadPlaces, ReadsPlaces
  <2> QED
    BY <1>q, <2>1, <2>3
<1>7. CASE \E b \in Runs!Bridges : Runs!Exits(b)
  BY <1>7 DEF Runs!Exits
<1>8. CASE \E b \in Runs!Bridges : \E x \in calls[b] : Runs!TimesOut(b, x)
  <2> PICK b \in Runs!Bridges : \E x \in calls[b] : Runs!TimesOut(b, x)
    BY <1>8
  <2>1. b = pool /\ pool' = pool /\ InPlaces(b)'
    BY TimesOutPlaces
  <2> QED
    BY <1>q, <2>1
<1> QED
  BY <1>1, <1>2, <1>3, <1>4, <1>5, <1>6, <1>7, <1>8 DEF Runs!Next

-------------------------------------------------------------------------------
(* Outcomes are of their own runs                                                 *)

\* What OutcomeIsOwn says of record i.
OwnRecord(i) ==
  /\ ledger[i].outcome = "completed" => ledger[i].prompt \in finished
  /\ ledger[i].outcome = "cancelled" =>
       \A b \in Runs!Bridges : \A t \in threads[b] : t.prompt = ledger[i].prompt => t.at # "run"
\* No record of prompt n is cancelled.
NotCancelled(n) == \A i \in DOMAIN ledger : ledger[i].prompt = n => ledger[i].outcome # "cancelled"
\* The turns that run ran before, or are of runs that nobody cancelled.
RunsKept == \A b \in Runs!Bridges : \A t \in threads'[b] :
  t.at = "run" => t \in threads[b] \/ NotCancelled(t.prompt)
\* Records are as they were, are open, failed, or have an outcome of their own.
RecordsKept == \A i \in DOMAIN ledger' :
  \/ i \in DOMAIN ledger /\ ledger'[i] = ledger[i]
  \/ ledger'[i].outcome \in {"running", "failed"}
  \/ OwnRecord(i)'

(* Then outcomes stay those of their own runs.                                    *)
LEMMA OwnStays ==
  ASSUME Runs!OutcomeIsOwn, crossed => crossed', finished \subseteq finished', RunsKept, RecordsKept
  PROVE  Runs!OutcomeIsOwn'
<1> SUFFICES ASSUME ~crossed', NEW i \in DOMAIN ledger' PROVE OwnRecord(i)'
  BY DEF Runs!OutcomeIsOwn, OwnRecord
<1>1. CASE i \in DOMAIN ledger /\ ledger'[i] = ledger[i]
  <2>1. OwnRecord(i)
    BY <1>1 DEF Runs!OutcomeIsOwn, OwnRecord
  <2>2. ASSUME ledger'[i].outcome = "cancelled", NEW b \in Runs!Bridges, NEW t \in threads'[b],
               t.prompt = ledger'[i].prompt, t.at = "run"
        PROVE  FALSE
    <3>1. ~NotCancelled(t.prompt)
      BY <1>1, <2>2 DEF NotCancelled
    <3>2. t \in threads[b]
      BY <2>2, <3>1 DEF RunsKept
    <3> QED
      BY <1>1, <2>1, <2>2, <3>2 DEF OwnRecord
  <2>3. ledger'[i].outcome = "completed" => ledger'[i].prompt \in finished'
    BY <1>1, <2>1 DEF OwnRecord
  <2> QED
    BY <2>2, <2>3 DEF OwnRecord
<1>2. CASE ledger'[i].outcome \in {"running", "failed"}
  BY <1>2 DEF OwnRecord
<1> QED
  BY <1>1, <1>2 DEF RecordsKept

(* Runs that fail have no outcome to own.                                         *)
LEMMA FailuresKept ==
  ASSUME Whole, crossed => crossed', NEW S \in SUBSET Sessions, Closing(S, "failed")
  PROVE  RecordsKept
<1>1. LedgerWhole /\ "failed" \in Outcomes \ {"running"}
  BY DEF Whole, Outcomes
<1>2. /\ DOMAIN ledger' = DOMAIN ledger
      /\ \A i \in DOMAIN ledger : ledger'[i] = ledger[i] \/ (ClosedBy(S, i) /\ ledger'[i].outcome = "failed")
  BY <1>1, ClosingKeeps
<1> QED
  BY <1>2 DEF RecordsKept

(* A prompt that begins has one record, which is open, or failed.                 *)
LEMMA BeginningsKept ==
  ASSUME Whole, NEW n \in Runs!Prompts, Runs!Start(n) \/ Runs!StartFails(n), crossed => crossed'
  PROVE  RecordsKept
<1> PICK s \in Sessions : s = prompts[n].session
  BY WholeParts
<1> PICK o \in {"running", "failed"} :
      ledger' = Append(ledger, [session |-> s, prompt |-> n, outcome |-> o])
  BY DEF Runs!Start, Runs!StartFails
<1>1. ledger \in Seq(Records) /\ [session |-> s, prompt |-> n, outcome |-> o] \in Records
  BY DEF Whole, LedgerWhole, LedgerTyped, Records, Outcomes
<1>2. \A i \in DOMAIN ledger' : \/ i \in DOMAIN ledger /\ ledger'[i] = ledger[i]
                                \/ ledger'[i] = [session |-> s, prompt |-> n, outcome |-> o]
  BY <1>1, Appends
<1> QED
  BY <1>2 DEF RecordsKept

(* A turn that begins is of the run that is open.                                 *)
LEMMA TurnBegins ==
  ASSUME Whole, NEW b \in Runs!Bridges, Runs!TakePrompt(b), InPlaces(b)
  PROVE  RunsKept
<1> PICK x \in InRows : x = inbox[b][1] /\ x = Head(inbox[b])
  BY ProcessParts, Tails DEF Runs!TakePrompt
<1> PICK r \in Sessions : r = x.session
  BY DEF InRows
<1>1. procs[b].state = "up" /\ inbox[b] # <<>> /\ x.kind = "prompt"
  BY DEF Runs!TakePrompt, Runs!Idle
<1>2. 1 \in DOMAIN inbox[b] /\ LedgerOnce /\ threads \in [Runs!Bridges -> SUBSET ThreadRows]
  BY <1>1, WholeParts, Tails DEF LinesParts
<1>3. Runs!IsOpen(r, x.id)
  <2>1. Runs!Asked(b, 1, r, "prompt") /\ PromptAhead(b, r)
    BY <1>1, <1>2, RunParts DEF Runs!Asked, InPlaces
  <2> QED
    BY <1>2, <2>1 DEF PromptAhead
<1>4. NotCancelled(x.id)
  <2>1. PICK i \in DOMAIN ledger : ledger[i] = [session |-> r, prompt |-> x.id, outcome |-> "running"]
    BY <1>3 DEF Runs!IsOpen
  <2>2. ledger[i].prompt = x.id /\ ledger[i].outcome = "running"
    BY <2>1
  <2> QED
    BY <1>2, <2>2 DEF NotCancelled, LedgerOnce
<1>5. ASSUME NEW c \in Runs!Bridges, NEW t \in threads'[c] PROVE t \in threads[c] \/ t.prompt = x.id
  <2>1. threads' = threads \/ threads' = [threads EXCEPT ![b] = @ \cup
          {[prompt |-> x.id, session |-> x.session, at |-> "run"]}]
    BY DEF Runs!TakePrompt
  <2> QED
    BY <1>2, <1>5, <2>1
<1> QED
  BY <1>4, <1>5 DEF RunsKept

(* What is read settles the run it is of, whose turn has run to its end, or is not on. *)
LEMMA ReadsOwn ==
  ASSUME Whole, NEW b \in Runs!Bridges, Runs!Reads(b), ~crossed, InPlaces(b)
  PROVE  RecordsKept
<1> PICK x \in OutRows : x = outbox[b][1] /\ x = Head(outbox[b])
  BY ProcessParts, Tails DEF Runs!Reads
<1> PICK r \in Sessions : r = x.session
  BY DEF OutRows
<1>1. ReadFacts(b, x, r)
  BY HeadLine
<1>2. /\ outbox[b] # <<>> /\ b = pool
      /\ UNCHANGED <<prompts, threads, finished, crossed>>
  BY <1>1 DEF ReadFacts
<1>3. CASE ledger' = ledger
  BY <1>3 DEF RecordsKept
<1>4. CASE /\ Runs!Closes(b, 1, r) \/ Settles(b, 1, r)
           /\ \E o \in Outcomes \ {"running"} :
                /\ Closing({r}, o)
                /\ o = "completed" => x.kind = "finished"
                /\ o = "cancelled" => x.kind \in {"aborted", "cancelled"}
  <2> PICK o \in Outcomes \ {"running"} :
             /\ Closing({r}, o)
             /\ o = "completed" => x.kind = "finished"
             /\ o = "cancelled" => x.kind \in {"aborted", "cancelled"}
    BY <1>4
  <2>1. LedgerWhole /\ LinesParts /\ LedgerOnce /\ {r} \in SUBSET Sessions /\ (crossed => crossed')
    BY <1>2, WholeParts DEF LinesParts
  <2>2. /\ DOMAIN ledger' = DOMAIN ledger /\ LedgerGrows
        /\ \A i \in DOMAIN ledger : ledger'[i] = ledger[i] \/ (ClosedBy({r}, i) /\ ledger'[i].outcome = o)
    BY <2>1, ClosingKeeps
  <2>3. \A t \in threads[b] : Runs!Active(b, t, r) => Runs!Denies(b, 1, r)
    BY <1>2, <1>4, NothingLeft
  <2>4. ASSUME NEW i \in DOMAIN ledger, ClosedBy({r}, i), ledger'[i].outcome = o
        PROVE  OwnRecord(i)' \/ o = "failed"
    <3>1. /\ ledger[i].session = r /\ ledger[i].outcome = "running" /\ ledger[i] \in Records
          /\ ledger'[i].prompt = ledger[i].prompt
      BY <2>1, <2>2, <2>4 DEF ClosedBy, LedgerWhole, LedgerTyped, LedgerGrows
    <3>2. Runs!IsOpen(r, ledger[i].prompt)
      BY <3>1 DEF Runs!IsOpen, Records
    <3>3. CASE o = "completed"
      <4>1. x.kind = "finished" /\ 1 \in DOMAIN outbox[b] /\ x.session = r
        BY <1>2, <3>3, ProcessParts, Tails
      <4>2. Runs!Closes(b, 1, r)
        BY <4>1 DEF Runs!Closes, Runs!Forced, Runs!Told
      <4>3. Runs!IsOpen(r, x.id)
        BY <4>1, <4>2, RunParts DEF InPlaces, EndIsTold
      <4>4. ledger[i].prompt = x.id
        BY <2>1, <3>2, <4>3, OneIsOpen
      <4>5. x.id \in finished
        BY <2>1, <4>1 DEF LinesParts, OutLine
      <4> QED
        BY <1>2, <2>4, <3>1, <3>3, <4>4, <4>5 DEF OwnRecord
    <3>4. CASE o = "cancelled"
      <4>1. ~Runs!Denies(b, 1, r)
        BY <3>4 DEF Runs!Denies, Runs!Told
      <4>2. ASSUME NEW c \in Runs!Bridges, NEW t \in threads[c], t.prompt = ledger[i].prompt PROVE t.at # "run"
        <5>1. c = b /\ ThreadOK(t)
          BY <1>2, ProcessParts
        <5>2. t.session = r
          BY <2>1, <3>1, <4>2, <5>1 DEF ThreadOK, LedgerOnce
        <5>3. ~Runs!Active(b, t, r)
          BY <2>3, <4>1, <5>1
        <5> QED
          BY <5>1, <5>2, <5>3 DEF Runs!Active
      <4> QED
        BY <1>2, <2>4, <3>1, <3>4, <4>2 DEF OwnRecord
    <3> QED
      BY <3>3, <3>4 DEF Outcomes
  <2>5. ASSUME NEW i \in DOMAIN ledger'
        PROVE  \/ i \in DOMAIN ledger /\ ledger'[i] = ledger[i]
               \/ ledger'[i].outcome \in {"running", "failed"}
               \/ OwnRecord(i)'
    <3>1. i \in DOMAIN ledger
      BY <2>2
    <3>2. CASE ClosedBy({r}, i) /\ ledger'[i].outcome = o
      BY <2>4, <3>1, <3>2
    <3> QED
      BY <2>2, <3>1, <3>2
  <2> QED
    BY <2>5 DEF RecordsKept
<1> QED
  BY <1>1, <1>3, <1>4 DEF ReadFacts

(* No step gives a run an outcome that is not its own.                            *)
LEMMA NextOwn ==
  ASSUME Whole, Runs!Next, Runs!NothingIsMixedUp, Runs!OutcomeIsOwn
  PROVE  Runs!OutcomeIsOwn'
<1> SUFFICES ASSUME ~crossed' PROVE Runs!OutcomeIsOwn'
  BY DEF Runs!OutcomeIsOwn
<1>0. (crossed => crossed') /\ ~crossed
  BY CrossedStays
<1>t. threads \in [Runs!Bridges -> SUBSET ThreadRows] /\ LedgerWhole
  BY WholeParts
<1>k. UNCHANGED threads => RunsKept
  BY DEF RunsKept
<1>l. UNCHANGED ledger => RecordsKept
  BY DEF RecordsKept
<1>e. \A b \in Runs!Bridges : threads' = [threads EXCEPT ![b] = {}] => RunsKept
  BY <1>t DEF RunsKept
<1>f. \A s \in Sessions : Runs!Outcome(s, "failed") => RecordsKept
  <2> SUFFICES ASSUME NEW s \in Sessions, Runs!Outcome(s, "failed") PROVE RecordsKept
    OBVIOUS
  <2>1. Closing({s}, "failed") /\ {s} \in SUBSET Sessions
    BY <1>t, OutcomeCloses DEF Outcomes
  <2> QED
    BY <1>0, <2>1, FailuresKept
<1>m. \A b \in Runs!Bridges : b = pool /\ pool # 0 => InPlaces(b)
  BY <1>0 DEF Runs!NothingIsMixedUp, InPlaces
<1>1. CASE \E n \in Runs!Prompts : \/ \E s \in Sessions : Runs!Prompt(n, s)
                                   \/ Runs!Start(n) \/ Runs!StartFails(n)
  <2>1. UNCHANGED <<threads, finished>>
    BY <1>1 DEF Runs!Prompt, Runs!Start, Runs!StartFails
  <2>2. RecordsKept
    BY <1>0, <1>1, <1>l, BeginningsKept DEF Runs!Prompt
  <2> QED
    BY <1>0, <1>k, <2>1, <2>2, OwnStays
<1>2. CASE \E n \in Runs!Prompts : Runs!Replaced(n)
  <2> PICK n \in Runs!Prompts : Runs!Replaced(n)
    BY <1>2
  <2> PICK s \in Sessions : s = prompts[n].session
    BY WholeParts
  <2>1. Runs!Outcome(s, "failed") /\ finished' = finished
    BY DEF Runs!Replaced
  <2>2. UNCHANGED threads \/ (pool # 0 /\ threads' = [threads EXCEPT ![pool] = {}])
    BY DEF Runs!Replaced, Runs!Killed
  <2>3. pool # 0 => pool \in Runs!Bridges
    BY RunsAssumption DEF Whole, Runs!TypeOK, Runs!Bridges
  <2>4. RunsKept
    BY <1>e, <1>k, <2>2, <2>3
  <2> QED
    BY <1>0, <1>f, <2>1, <2>4, OwnStays
<1>3. CASE \E s \in Sessions : Runs!Cancel(s) \/ Runs!CancelFails(s)
  <2>1. UNCHANGED <<threads, finished>> /\ RecordsKept
    BY <1>3, <1>f, <1>l DEF Runs!Cancel, Runs!CancelFails
  <2> QED
    BY <1>0, <1>k, <2>1, OwnStays
<1>4. CASE \E b \in Runs!Bridges : Runs!TakePrompt(b)
  <2> PICK b \in Runs!Bridges : Runs!TakePrompt(b)
    BY <1>4
  <2>1. RunsKept
    BY <1>0, <1>m, PoolMoves, TurnBegins
  <2>2. UNCHANGED <<ledger, finished>>
    BY DEF Runs!TakePrompt
  <2> QED
    BY <1>0, <1>l, <2>1, <2>2, OwnStays
<1>5. CASE \E b \in Runs!Bridges : \/ Runs!Accepts(b) \/ Runs!TakeCancel(b) \/ Runs!CloseRaises(b)
                                   \/ Runs!Joined(b) \/ Runs!ForcedExit(b)
  <2>1. UNCHANGED <<ledger, finished>>
    BY <1>5 DEF Runs!Accepts, Runs!TakeCancel, Runs!CloseRaises, Runs!CancelTaken, Runs!Joined, Runs!ForcedExit
  <2>2. UNCHANGED threads \/ \E b \in Runs!Bridges : threads' = [threads EXCEPT ![b] = {}]
    BY <1>5 DEF Runs!Accepts, Runs!TakeCancel, Runs!CloseRaises, Runs!CancelTaken, Runs!Joined, Runs!ForcedExit
  <2> QED
    BY <1>0, <1>e, <1>k, <1>l, <2>1, <2>2, OwnStays
<1>6. CASE \E b \in Runs!Bridges : Runs!Turn(b)
  <2> PICK b \in Runs!Bridges : Runs!Turn(b)
    BY <1>6
  <2> PICK t \in threads[b] : \/ Runs!TurnEnds(b, t) \/ Runs!TurnRaises(b, t)
                              \/ Runs!Says(b, t) \/ Runs!Ends(b, t)
    BY DEF Runs!Turn
  <2>1. ledger' = ledger /\ finished \subseteq finished'
    BY DEF Runs!TurnEnds, Runs!TurnRaises, Runs!Says, Runs!Ends
  <2>2. \/ \E at \in {"last", "finish", "abort", "fail"} : Runs!Moves(b, t, at)
        \/ threads' = [threads EXCEPT ![b] = @ \ {t}]
    BY DEF Runs!TurnEnds, Runs!TurnRaises, Runs!Says, Runs!Ends
  <2>3. RunsKept
    <3>1. CASE threads' = [threads EXCEPT ![b] = @ \ {t}]
      BY <1>t, <3>1 DEF RunsKept
    <3>2. CASE \E at \in {"last", "finish", "abort", "fail"} : Runs!Moves(b, t, at)
      <4> PICK at \in {"last", "finish", "abort", "fail"} : Runs!Moves(b, t, at)
        BY <3>2
      <4> PICK v : v = [t EXCEPT !.at = at]
        OBVIOUS
      <4>1. t \in ThreadRows
        BY <1>t
      <4>2. v.at # "run" /\ threads' = [threads EXCEPT ![b] = (@ \ {t}) \cup {v}]
        BY <4>1 DEF Runs!Moves, ThreadRows
      <4> QED
        BY <1>t, <4>2 DEF RunsKept
    <3> QED
      BY <2>2, <3>1, <3>2
  <2> QED
    BY <1>0, <1>l, <2>1, <2>3, OwnStays
<1>7. CASE \E b \in Runs!Bridges : Runs!Reads(b)
  <2> PICK b \in Runs!Bridges : Runs!Reads(b)
    BY <1>7
  <2>1. RecordsKept
    BY <1>0, <1>m, PoolMoves, ReadsOwn
  <2>2. UNCHANGED <<threads, finished>>
    BY DEF Runs!Reads
  <2> QED
    BY <1>0, <1>k, <2>1, <2>2, OwnStays
<1>8. CASE \E b \in Runs!Bridges : Runs!Exits(b)
  <2> PICK b \in Runs!Bridges : Runs!Exits(b)
    BY <1>8
  <2>1. Closing(Sessions, "failed") /\ Sessions \in SUBSET Sessions
    BY <1>t, ExitCloses
  <2>2. RecordsKept
    BY <1>0, <2>1, FailuresKept
  <2>3. finished' = finished /\ threads' = [threads EXCEPT ![b] = {}]
    BY DEF Runs!Exits
  <2> QED
    BY <1>0, <1>e, <2>2, <2>3, OwnStays
<1>9. CASE \E b \in Runs!Bridges : \E x \in calls[b] : Runs!TimesOut(b, x)
  <2> PICK b \in Runs!Bridges : \E x \in calls[b] : Runs!TimesOut(b, x)
    BY <1>9
  <2> PICK x \in calls[b] : Runs!TimesOut(b, x)
    OBVIOUS
  <2>1. calls \in [Runs!Bridges -> SUBSET InRows]
    BY WholeParts
  <2>2. x.session \in Sessions
    BY <2>1 DEF InRows
  <2>3. /\ Runs!Outcome(x.session, "failed") /\ finished' = finished
        /\ threads' = [threads EXCEPT ![b] = {}]
    BY DEF Runs!TimesOut, Runs!Killed
  <2> QED
    BY <1>0, <1>e, <1>f, <2>2, <2>3, OwnStays
<1> QED
  BY <1>1, <1>2, <1>3, <1>4, <1>5, <1>6, <1>7, <1>8, <1>9 DEF Runs!Next

\* The invariant of the turns, whatever part moves.
RunsInv == Whole /\ Runs!NothingIsMixedUp /\ Runs!OutcomeIsOwn

(* It holds at first,                                                             *)
LEMMA InitRuns == Init => RunsInv
<1> SUFFICES ASSUME Init PROVE RunsInv
  OBVIOUS
<1>1. Runs!Init
  BY DEF Init
<1>2. Runs!NothingIsMixedUp /\ Runs!OutcomeIsOwn
  BY <1>1 DEF Runs!Init, Runs!NothingIsMixedUp, Runs!OutcomeIsOwn
<1> QED
  BY <1>1, <1>2, InitWhole DEF RunsInv

(* and every step keeps it.                                                       *)
LEMMA NextRuns == RunsInv /\ [Next]_vars => RunsInv'
<1> SUFFICES ASSUME RunsInv, [Next]_vars PROVE RunsInv'
  OBVIOUS
<1>1. CASE Runs!Next
  <2>1. Whole'
    BY <1>1, NextWhole DEF RunsInv
  <2> QED
    BY <1>1, <2>1, NextPlaces, NextOwn DEF RunsInv
<1>2. CASE UNCHANGED runsVars
  <2>1. Whole'
    BY <1>2, RestWhole DEF RunsInv
  <2>2. Runs!OutcomeIsOwn'
    BY <1>2 DEF RunsInv, runsVars, Runs!OutcomeIsOwn
  <2>3. Runs!NothingIsMixedUp'
    BY <1>2 DEF RunsInv, runsVars, Runs!NothingIsMixedUp, Runs!RunInOnePlace, Runs!CancelInOnePlace,
       Runs!Asked, Runs!Active, Runs!Told, Runs!Forced, Runs!Closes, Runs!Replies, Runs!Grants,
       Runs!Denies, Runs!Joins, Runs!JoinedFor, Runs!IsOpen, Runs!Silenced
  <2> QED
    BY <2>1, <2>2, <2>3 DEF RunsInv
<1> QED
  BY <1>1, <1>2, OnePartMoves

(* Where no prompt overlaps another of its session or a cancel of it, and no      *)
(* process goes with lines unread, a run is recorded as completed only when its   *)
(* own turn completed, and as cancelled only when its turn is over: the lines of  *)
(* the bridge, that name a session and no run (store.ts:187, dsh-bridge.py:75),   *)
(* are always those of the run that is open, whatever was asked, and a session    *)
(* that is on has its newest record open.                                         *)
THEOREM RunsAreTheirOwn == Spec => []DshInv
<1>1. RunsInv => DshInv
  BY DEF RunsInv, Whole, LedgerWhole, DshInv, Runs!DshInv
<1> QED
  BY <1>1, InitRuns, NextRuns, PTL DEF Spec
================================================================================
