-------------------------------- MODULE PagesProofs -------------------------------
(* What TLAPS proves of the pages of MCParts, for any values of their constants:  *)
(* the rows of a session page, the trajectory of a dsh run and the window of a     *)
(* Claude transcript have no hole, and a session page shows what its session had.  *)
EXTENDS MCParts, PartsProofs, WellFoundedInduction, TLAPS

-------------------------------------------------------------------------------
(* TranscriptPages. A cursor c stands for the first message that is loaded; 0 is  *)
(* that the first of all is. R is a page of the messages lo..hi, each one once.   *)
From(c) == IF c = 0 THEN 1 ELSE c
Once(R) == \A m, n \in R : m[1] = n[1] => m = n
IsPage(R, lo, hi) ==
  R \subseteq Nat \X BOOLEAN /\ Rows!Ids(R) = lo..hi /\ Once(R)

(* A page of rows is as long as its interval.                                     *)
LEMMA PageCount ==
  ASSUME NEW R, NEW lo \in Nat, NEW hi \in Nat, lo <= hi, IsPage(R, lo, hi)
  PROVE  IsFiniteSet(R) /\ Rows!Cardinality(R) = hi - lo + 1
         /\ Rows!Cardinality(lo..hi) = hi - lo + 1
<1> DEFINE f == [m \in R |-> m[1]]
<1>1. f \in [R -> lo..hi] /\ \A m \in R : f[m] = m[1]
  BY DEF IsPage, Rows!Ids
<1>2. \A m, n \in R : f[m] = f[n] => m = n
  BY DEF IsPage, Once
<1>3. \A i \in lo..hi : \E m \in R : f[m] = i
  BY DEF IsPage, Rows!Ids
<1> HIDE DEF f
<1>4. f \in Bijection(R, lo..hi)
  <2>1. f \in Injection(R, lo..hi)
    BY <1>1, <1>2 DEF Injection, IsInjective
  <2>2. f \in Surjection(R, lo..hi)
    BY <1>1, <1>3 DEF Surjection
  <2> QED
    BY <2>1, <2>2 DEF Bijection
<1>5. f \in Injection(R, lo..hi) /\ f \in Surjection(R, lo..hi)
  BY <1>4 DEF Bijection
<1>6. IsFiniteSet(lo..hi) /\ Cardinality(lo..hi) = hi - lo + 1
  BY FS_Interval
<1>7. IsFiniteSet(R) /\ Cardinality(R) = Cardinality(lo..hi)
  BY <1>5, <1>6, FS_Injection
<1>8. \A S : Rows!Cardinality(S) = Cardinality(S)
  BY DEF Rows!Cardinality, Cardinality
<1> QED
  BY <1>6, <1>7, <1>8

(* The least and the greatest number of an interval are its ends.                 *)
LEMMA IntervalEnds ==
  ASSUME NEW lo \in Nat, NEW hi \in Nat, lo <= hi
  PROVE  Rows!Min(lo..hi) = lo /\ Rows!Max(lo..hi) = hi
<1>1. \A x \in lo..hi : (\A y \in lo..hi : x <= y) <=> x = lo
  OBVIOUS
<1>2. \A x \in lo..hi : (\A y \in lo..hi : x >= y) <=> x = hi
  OBVIOUS
<1> QED
  BY <1>1, <1>2 DEF Rows!Min, Rows!Max

(* A merge holds the rows of both, the second one's where both have a message.    *)
LEMMA MergeFacts ==
  ASSUME NEW A, NEW B
  PROVE  /\ Rows!Ids(Rows!Merge(A, B)) = Rows!Ids(A) \union Rows!Ids(B)
         /\ \A m \in Rows!Merge(A, B) : m \in B \/ (m \in A /\ m[1] \notin Rows!Ids(B))
         /\ Once(A) /\ Once(B) => Once(Rows!Merge(A, B))
<1>1. \A S, i : i \in Rows!Ids(S) <=> \E m \in S : m[1] = i
  BY DEF Rows!Ids
<1>2. \A m : m \in Rows!Merge(A, B) <=> (m \in A /\ m[1] \notin Rows!Ids(B)) \/ m \in B
  BY DEF Rows!Merge
<1>3. Rows!Ids(Rows!Merge(A, B)) \subseteq Rows!Ids(A) \union Rows!Ids(B)
  BY <1>1, <1>2
<1>4. Rows!Ids(A) \union Rows!Ids(B) \subseteq Rows!Ids(Rows!Merge(A, B))
  BY <1>1, <1>2
<1>5. Once(A) /\ Once(B) => Once(Rows!Merge(A, B))
  BY <1>1, <1>2 DEF Once
<1> QED
  BY <1>2, <1>3, <1>4, <1>5

(* What is asked before b is a page that ends at b - 1 and fills the window, or   *)
(* begins with the first message.                                                 *)
LEMMA PageAsked ==
  ASSUME sent \in 1..MaxMessages, NEW b \in 2..(sent + 1)
  PROVE  LET p == Rows!PageBefore(b) IN
         /\ p.rows \subseteq (1..sent) \X BOOLEAN
         /\ IsPage(p.rows, From(p.cursor), b - 1)
         /\ p.cursor \in 0..sent /\ p.cursor # 1 /\ From(p.cursor) <= b - 1
         /\ b - From(p.cursor) <= Window /\ (p.cursor # 0 => b - p.cursor = Window)
<1> DEFINE I == {i \in 1..sent : i < b /\ i + Window >= b}
           p == Rows!PageBefore(b)
           lo == IF b > Window THEN IF b - Window > 1 THEN b - Window ELSE 1 ELSE 1
<1>1. /\ MaxMessages \in Nat \ {0} /\ Window \in Nat \ {0} /\ sent \in Nat \ {0}
      /\ b \in Nat /\ b > 1 /\ b <= sent + 1
  BY PagesAssumption
<1>2. I = lo..(b - 1) /\ lo \in Nat /\ 1 <= lo /\ lo <= b - 1 /\ b - 1 \in Nat /\ b - 1 <= sent
  BY <1>1
<1>3. /\ p.rows = {<<i, i \in edited>> : i \in I}
      /\ p.cursor = IF I = {} \/ 1 \in I THEN 0 ELSE Rows!Min(I)
  BY DEF Rows!PageBefore
<1>4. Rows!Min(I) = lo
  BY <1>2, IntervalEnds
<1>5. I # {} /\ (1 \in I <=> lo = 1)
  BY <1>2
<1>6. p.cursor = (IF lo = 1 THEN 0 ELSE lo) /\ From(p.cursor) = lo
  <2>1. p.cursor = (IF lo = 1 THEN 0 ELSE lo)
    BY <1>3, <1>4, <1>5
  <2> QED
    BY <1>2, <2>1 DEF From
<1>7. b - lo <= Window /\ (lo # 1 => b - lo = Window)
  BY <1>1
<1>8. \A m : m \in p.rows <=> \E i \in I : m = <<i, i \in edited>>
  BY <1>3
<1> HIDE DEF p, I, lo
<1>9. I \subseteq 1..sent /\ I \subseteq Nat
  BY <1>1, <1>2
<1>10. p.rows \subseteq (1..sent) \X BOOLEAN
  <2> SUFFICES ASSUME NEW m \in p.rows PROVE m \in (1..sent) \X BOOLEAN
    OBVIOUS
  <2>1. PICK i \in I : m = <<i, i \in edited>>
    BY <1>8
  <2>2. (i \in edited) \in BOOLEAN
    OBVIOUS
  <2> QED
    BY <1>9, <2>1, <2>2
<1>11. IsPage(p.rows, lo, b - 1)
  <2>1. p.rows \subseteq Nat \X BOOLEAN
    BY <1>1, <1>10
  <2>2. Rows!Ids(p.rows) = I
    <3>1. \A i : i \in Rows!Ids(p.rows) <=> \E m \in p.rows : m[1] = i
      BY DEF Rows!Ids
    <3>2. \A i \in I : <<i, i \in edited>> \in p.rows /\ <<i, i \in edited>>[1] = i
      BY <1>8
    <3>3. \A m \in p.rows : m[1] \in I
      BY <1>8
    <3>4. \A i \in I : i \in Rows!Ids(p.rows)
      BY <3>1, <3>2, Zenon
    <3>5. \A i \in Rows!Ids(p.rows) : i \in I
      BY <3>1, <3>3, Zenon
    <3> QED
      BY <3>4, <3>5
  <2>3. Once(p.rows)
    BY <1>8 DEF Once
  <2> QED
    BY <1>2, <2>1, <2>2, <2>3 DEF IsPage
<1> QED
  BY <1>1, <1>2, <1>6, <1>7, <1>10, <1>11 DEF p

(* R is a newest page with its cursor, up to message hi: as many as the window    *)
(* holds, and no more than that were sent since.                                  *)
IsNewest(R, c, hi) ==
  /\ IsPage(R, From(c), hi) /\ c # 1 /\ From(c) <= hi /\ sent <= hi + Window
  /\ hi + 1 <= From(c) + Window /\ (c # 0 => hi + 1 = c + Window)

RowRequests == [pc : {"none", "asked", "read"}, live : BOOLEAN,
                rows : SUBSET ((1..sent) \X BOOLEAN), cursor : 0..sent]

RowsTyped ==
  /\ sent \in 1..MaxMessages /\ edited \subseteq 1..sent /\ used \in 0..MaxEvents
  /\ backfill \in BOOLEAN /\ outlived \in BOOLEAN /\ up \in BOOLEAN
  /\ poll \in RowRequests /\ load \in RowRequests /\ (load.live => load.pc # "none")
  /\ newest \subseteq (1..sent) \X BOOLEAN /\ older \subseteq (1..sent) \X BOOLEAN
  /\ cursor \in 0..sent /\ newestCursor \in 0..sent

\* Before the first answer nothing is shown and nothing was loaded.
RowsUnloaded ==
  newest = {} => older = {} /\ cursor = 0 /\ newestCursor = 0 /\ ~backfill /\ ~load.live /\ ~outlived

\* The newest page is one, and the page a poll has read is one that is not older.
NewestWhole == newest # {} => \E hi \in 1..sent : IsNewest(newest, newestCursor, hi)
PollFollows ==
  poll.pc = "read" =>
    \E hi \in 1..sent : /\ IsNewest(poll.rows, poll.cursor, hi) /\ (newest = {} => hi = sent)
                        /\ \A i \in Rows!Ids(newest) : i <= hi

\* The older rows reach from the cursor to the newest page, and may hold its first
\* message too.
OlderReaches ==
  newest # {} /\ ~outlived =>
    /\ cursor # 1 /\ From(cursor) <= From(newestCursor) /\ Once(older)
    /\ \A i \in Rows!Ids(older) : From(cursor) <= i /\ i <= From(newestCursor)
    /\ \A i \in From(cursor)..(From(newestCursor) - 1) : i \in Rows!Ids(older)

\* A load whose history stands reads what lies before the cursor.
LoadAdjoins ==
  load.live /\ ~outlived =>
    /\ cursor # 0 /\ backfill /\ (load.pc = "asked" => load.cursor = cursor)
    /\ load.pc = "read" =>
         /\ load.cursor # 1 /\ From(load.cursor) < cursor
         /\ IsPage(load.rows, From(load.cursor), cursor - 1)

RowsOK == /\ RowsTyped /\ RowsUnloaded /\ NewestWhole /\ PollFollows /\ OlderReaches
          /\ LoadAdjoins

LEMMA RowsInit == Rows!Init => RowsOK
<1> SUFFICES ASSUME Rows!Init PROVE RowsOK
  OBVIOUS
<1>1. MaxMessages \in Nat \ {0} /\ MaxEvents \in Nat
  BY PagesAssumption
<1>2. Rows!Idle \in RowRequests /\ ~Rows!Idle.live /\ Rows!Idle.pc = "none"
  BY <1>1 DEF Rows!Init, Rows!Idle, RowRequests
<1>3. newest = {} /\ poll = Rows!Idle /\ load = Rows!Idle
  BY DEF Rows!Init
<1>4. RowsTyped
  <2>1. /\ sent \in 1..MaxMessages /\ edited = {} /\ used = 0 /\ older = {} /\ up = TRUE
        /\ backfill = FALSE /\ outlived = FALSE /\ cursor = 0 /\ newestCursor = 0
    BY DEF Rows!Init
  <2>2. edited \subseteq 1..sent /\ used \in 0..MaxEvents /\ 0 \in 0..sent
    BY <1>1, <2>1
  <2>3. /\ newest \subseteq (1..sent) \X BOOLEAN /\ older \subseteq (1..sent) \X BOOLEAN
    BY <1>3, <2>1
  <2>4. poll \in RowRequests /\ load \in RowRequests /\ ~load.live
    BY <1>2, <1>3
  <2> QED
    BY <2>1, <2>2, <2>3, <2>4 DEF RowsTyped
<1>5. RowsUnloaded /\ NewestWhole /\ PollFollows /\ OlderReaches /\ LoadAdjoins
  BY <1>2, <1>3 DEF Rows!Init, RowsUnloaded, NewestWhole, PollFollows, OlderReaches, LoadAdjoins
<1> QED
  BY <1>4, <1>5 DEF RowsOK

(* The invariant is enough: what is shown has no hole and no message twice.       *)
LEMMA RowsShown ==
  ASSUME RowsOK
  PROVE  Rows!TypeOK /\ Rows!PagesAdjoin
<1>1. /\ RowsTyped /\ RowsUnloaded /\ NewestWhole /\ OlderReaches
      /\ MaxMessages \in Nat \ {0} /\ Window \in Nat \ {0} /\ sent \in Nat \ {0}
  BY PagesAssumption DEF RowsOK, RowsTyped
<1>2. Rows!Cardinality(newest) <= Window
  <2>1. CASE newest = {}
    <3>1. Rows!Cardinality(newest) = 0
      BY <2>1, FS_EmptySet DEF Rows!Cardinality, Cardinality
    <3> QED
      BY <1>1, <3>1
  <2>2. CASE newest # {}
    <3>1. PICK hi \in 1..sent : IsNewest(newest, newestCursor, hi)
      BY <1>1, <2>2 DEF NewestWhole
    <3>2. /\ IsPage(newest, From(newestCursor), hi) /\ From(newestCursor) <= hi
          /\ hi + 1 <= From(newestCursor) + Window
      BY <3>1 DEF IsNewest
    <3>3. From(newestCursor) \in Nat /\ hi \in Nat
      BY <1>1 DEF From, RowsTyped
    <3>4. Rows!Cardinality(newest) = hi - From(newestCursor) + 1
      BY <3>2, <3>3, PageCount
    <3> QED
      BY <1>1, <3>2, <3>3, <3>4
  <2> QED
    BY <2>1, <2>2
<1>3. Rows!TypeOK
  BY <1>1, <1>2 DEF Rows!TypeOK, RowsTyped
<1>4. ASSUME newest # {}, ~outlived
      PROVE  LET I == Rows!Ids(Rows!Shown) IN
               /\ I = Rows!Min(I)..Rows!Max(I) /\ Rows!Cardinality(Rows!Shown) = Rows!Cardinality(I)
               /\ cursor = IF Rows!Min(I) = 1 THEN 0 ELSE Rows!Min(I)
  <2>1. PICK hi \in 1..sent : IsNewest(newest, newestCursor, hi)
    BY <1>1, <1>4 DEF NewestWhole
  <2> DEFINE lo == From(cursor)
             mid == From(newestCursor)
  <2>2. lo \in Nat /\ mid \in Nat /\ hi \in Nat /\ lo # 0 /\ cursor = IF lo = 1 THEN 0 ELSE lo
    BY <1>1, <1>4 DEF From, RowsTyped, OlderReaches
  <2>3. /\ Rows!Ids(newest) = mid..hi /\ Once(newest) /\ mid <= hi
        /\ lo <= mid /\ Once(older)
        /\ \A i \in Rows!Ids(older) : lo <= i /\ i <= mid
        /\ \A i \in lo..(mid - 1) : i \in Rows!Ids(older)
    BY <1>1, <1>4, <2>1 DEF IsNewest, IsPage, OlderReaches
  <2>4. newest \subseteq Nat \X BOOLEAN /\ older \subseteq Nat \X BOOLEAN
    BY <1>1 DEF RowsTyped
  <2> HIDE DEF lo, mid
  <2>5. Rows!Ids(older) \subseteq Nat
    BY <2>4 DEF Rows!Ids
  <2>6. Rows!Ids(older) \union Rows!Ids(newest) = lo..hi
    BY <2>2, <2>3, <2>5
  <2>7. /\ Rows!Ids(Rows!Shown) = lo..hi /\ Once(Rows!Shown)
        /\ Rows!Shown \subseteq Nat \X BOOLEAN
    <3>1. \A m \in Rows!Merge(older, newest) : m \in older \/ m \in newest
      BY MergeFacts
    <3> QED
      BY <2>3, <2>4, <2>6, <3>1, MergeFacts DEF Rows!Shown
  <2>8. IsPage(Rows!Shown, lo, hi)
    BY <2>7 DEF IsPage
  <2>9. lo <= hi
    BY <2>2, <2>3
  <2>10. Rows!Cardinality(Rows!Shown) = Rows!Cardinality(lo..hi)
    <3>1. \A R : IsPage(R, lo, hi) => /\ Rows!Cardinality(R) = hi - lo + 1
                                     /\ Rows!Cardinality(lo..hi) = hi - lo + 1
      BY <2>2, <2>9, PageCount
    <3> QED
      BY <2>8, <3>1
  <2>11. Rows!Min(lo..hi) = lo /\ Rows!Max(lo..hi) = hi
    BY <2>2, <2>9, IntervalEnds
  <2> QED
    BY <2>2, <2>7, <2>10, <2>11
<1> QED
  BY <1>3, <1>4 DEF Rows!PagesAdjoin

(* A page that a poll or a load has read holds what was asked for.                *)
LEMMA PageAnswered ==
  ASSUME RowsTyped, NEW q \in RowRequests, NEW b \in 2..(sent + 1)
  PROVE  LET r == Rows!Answered(q, b) IN
         /\ r \in RowRequests /\ r.pc = "read" /\ r.live = q.live
         /\ IsPage(r.rows, From(r.cursor), b - 1)
         /\ r.cursor # 1 /\ From(r.cursor) <= b - 1
         /\ b - From(r.cursor) <= Window /\ (r.cursor # 0 => b - r.cursor = Window)
<1> DEFINE p == Rows!PageBefore(b)
           r == Rows!Answered(q, b)
<1>1. /\ p.rows \subseteq (1..sent) \X BOOLEAN
      /\ IsPage(p.rows, From(p.cursor), b - 1)
      /\ p.cursor \in 0..sent /\ p.cursor # 1 /\ From(p.cursor) <= b - 1
      /\ b - From(p.cursor) <= Window /\ (p.cursor # 0 => b - p.cursor = Window)
  BY PageAsked DEF RowsTyped
<1>2. r = [q EXCEPT !.pc = "read", !.rows = p.rows, !.cursor = p.cursor]
  BY DEF Rows!Answered
<1> HIDE DEF p, r
<1>3. /\ r.pc = "read" /\ r.live = q.live /\ r.rows = p.rows /\ r.cursor = p.cursor
      /\ r \in RowRequests
  BY <1>1, <1>2 DEF RowRequests
<1> QED
  BY <1>1, <1>3 DEF r

(* What the steps that show nothing new leave as it is.                           *)
LEMMA RowsRest ==
  ASSUME RowsOK, UNCHANGED <<sent, newest, older, cursor, newestCursor, backfill, load, outlived>>,
         edited' \subseteq 1..sent, used' \in 0..MaxEvents, up' \in BOOLEAN,
         poll' \in RowRequests, poll'.pc = "read" => poll' = poll
  PROVE  RowsOK'
<1>1. RowsTyped'
  BY DEF RowsOK, RowsTyped, RowRequests
<1>2. RowsUnloaded' /\ OlderReaches' /\ LoadAdjoins'
  BY DEF RowsOK, RowsUnloaded, OlderReaches, LoadAdjoins
<1>3. NewestWhole' /\ PollFollows'
  BY DEF RowsOK, NewestWhole, PollFollows, IsNewest
<1> QED
  BY <1>1, <1>2, <1>3 DEF RowsOK

LEMMA RowsUsed ==
  ASSUME RowsTyped, Rows!Outside \/ Rows!Inside
  PROVE  used' \in 0..MaxEvents
BY PagesAssumption DEF RowsTyped, Rows!Outside, Rows!Inside

(* Messages are sent and changed, the stream breaks, a poll starts.               *)
LEMMA RowsOutside ==
  ASSUME RowsOK, Rows!Revert \/ Rows!StreamBreaks \/ Rows!PollStart \/ \E i \in 1..MaxMessages : Rows!Edit(i)
  PROVE  RowsOK'
<1>1. RowsTyped
  BY DEF RowsOK
<1>2. /\ UNCHANGED <<sent, newest, older, cursor, newestCursor, backfill, load, outlived>>
      /\ used' \in 0..MaxEvents
  BY <1>1, RowsUsed DEF Rows!Revert, Rows!StreamBreaks, Rows!PollStart, Rows!Edit, Rows!shown, Rows!opencode
<1>3. edited' \subseteq 1..sent /\ up' \in BOOLEAN
  BY <1>1 DEF RowsTyped, Rows!Revert, Rows!StreamBreaks, Rows!PollStart, Rows!Edit, Rows!shown, Rows!opencode
<1>4. poll' \in RowRequests /\ (poll'.pc = "read" => poll' = poll)
  <2>1. CASE poll' = poll
    BY <1>1, <2>1 DEF RowsTyped
  <2>2. CASE Rows!PollStart
    BY <1>1, <2>2 DEF RowsTyped, Rows!PollStart, RowRequests
  <2> QED
    BY <2>1, <2>2 DEF Rows!Revert, Rows!StreamBreaks, Rows!Edit
<1> QED
  BY <1>2, <1>3, <1>4, RowsRest

LEMMA RowsSent ==
  ASSUME RowsOK, Rows!Send
  PROVE  RowsOK'
<1>1. /\ RowsTyped /\ sent \in Nat /\ Window \in Nat \ {0} /\ MaxMessages \in Nat
      /\ sent < MaxMessages /\ newest # {} /\ sent < Rows!Max(Rows!Ids(newest)) + Window
      /\ sent' = sent + 1
      /\ UNCHANGED <<edited, newest, older, cursor, newestCursor, backfill, poll, load, up, outlived>>
      /\ used' \in 0..MaxEvents
  BY PagesAssumption, RowsUsed DEF RowsOK, RowsTyped, Rows!Send, Rows!shown
<1>2. RowRequests \subseteq RowRequests'
  BY <1>1 DEF RowRequests
<1>3. RowsTyped'
  BY <1>1, <1>2 DEF RowsTyped
<1>4. PICK hi \in 1..sent : IsNewest(newest, newestCursor, hi)
  BY <1>1 DEF RowsOK, NewestWhole
<1>5. /\ Rows!Ids(newest) = From(newestCursor)..hi /\ From(newestCursor) <= hi
      /\ From(newestCursor) \in Nat /\ hi \in Nat /\ hi \in 1..sent'
  BY <1>1, <1>4 DEF IsNewest, IsPage, From, RowsTyped
<1>6. Rows!Max(Rows!Ids(newest)) = hi
  BY <1>5, IntervalEnds
<1>7. sent' <= hi + Window
  BY <1>1, <1>5, <1>6
<1>8. NewestWhole'
  BY <1>1, <1>4, <1>5, <1>7 DEF NewestWhole, IsNewest
<1>9. PollFollows'
  <2> SUFFICES ASSUME poll.pc = "read"
               PROVE  \E h \in 1..sent' : /\ IsNewest(poll.rows, poll.cursor, h)'
                                          /\ \A i \in Rows!Ids(newest) : i <= h
    BY <1>1 DEF PollFollows, IsNewest
  <2>1. PICK h \in 1..sent : /\ IsNewest(poll.rows, poll.cursor, h)
                             /\ \A i \in Rows!Ids(newest) : i <= h
    BY DEF RowsOK, PollFollows
  <2>2. hi <= h
    BY <1>5, <2>1
  <2>3. sent' <= h + Window
    BY <1>1, <1>5, <1>7, <2>2
  <2> QED
    BY <1>1, <2>1, <2>3 DEF IsNewest
<1>10. RowsUnloaded' /\ OlderReaches' /\ LoadAdjoins'
  BY <1>1 DEF RowsOK, RowsUnloaded, OlderReaches, LoadAdjoins
<1> QED
  BY <1>3, <1>8, <1>9, <1>10 DEF RowsOK

LEMMA RowsPolled ==
  ASSUME RowsOK, Rows!PollRead
  PROVE  RowsOK'
<1>1. /\ RowsTyped /\ sent \in Nat \ {0} /\ Window \in Nat \ {0} /\ poll.pc = "asked"
      /\ poll' = Rows!Answered(poll, sent + 1)
      /\ UNCHANGED <<sent, edited, newest, older, cursor, newestCursor, backfill, load, up, outlived>>
      /\ used' \in 0..MaxEvents
  BY PagesAssumption, RowsUsed DEF RowsOK, RowsTyped, Rows!PollRead, Rows!shown, Rows!opencode
<1>2. sent + 1 \in 2..(sent + 1) /\ poll \in RowRequests
  BY <1>1 DEF RowsTyped
<1>3. /\ poll' \in RowRequests
      /\ IsPage(poll'.rows, From(poll'.cursor), sent)
      /\ poll'.cursor # 1 /\ From(poll'.cursor) <= sent
      /\ (sent + 1) - From(poll'.cursor) <= Window /\ (poll'.cursor # 0 => (sent + 1) - poll'.cursor = Window)
  <2>1. PICK b \in 2..(sent + 1) : b = sent + 1
    BY <1>2
  <2>2. PICK r : r = Rows!Answered(poll, b)
    OBVIOUS
  <2>3. /\ r \in RowRequests /\ IsPage(r.rows, From(r.cursor), b - 1)
        /\ r.cursor # 1 /\ From(r.cursor) <= b - 1
        /\ b - From(r.cursor) <= Window /\ (r.cursor # 0 => b - r.cursor = Window)
    BY <1>1, <1>2, <2>2, PageAnswered
  <2>4. b - 1 = sent /\ poll' = r
    BY <1>1, <2>1, <2>2
  <2>5. IsPage(r.rows, From(r.cursor), sent) /\ From(r.cursor) <= sent
    BY <2>3, <2>4
  <2>6. /\ (sent + 1) - From(r.cursor) <= Window
        /\ (r.cursor # 0 => (sent + 1) - r.cursor = Window)
    BY <2>1, <2>3
  <2> QED
    BY <2>3, <2>4, <2>5, <2>6
<1>4. poll'.cursor \in Nat /\ From(poll'.cursor) \in Nat
  BY <1>1, <1>3 DEF RowRequests, From
<1>6. /\ IsPage(poll'.rows, From(poll'.cursor), sent) /\ poll'.cursor # 1
      /\ From(poll'.cursor) <= sent /\ sent <= sent + Window
      /\ sent + 1 <= From(poll'.cursor) + Window
      /\ (poll'.cursor # 0 => sent + 1 = poll'.cursor + Window)
  BY <1>1, <1>3, <1>4
<1>7. \A i \in Rows!Ids(newest) : i <= sent
  BY <1>1 DEF RowsTyped, Rows!Ids
<1>8. PollFollows'
  <2>1. sent \in 1..sent'
    BY <1>1
  <2> QED
    BY <1>1, <1>6, <1>7, <2>1 DEF PollFollows, IsNewest
<1>9. RowsTyped'
  BY <1>1, <1>3 DEF RowsTyped, RowRequests
<1>10. RowsUnloaded' /\ NewestWhole' /\ OlderReaches' /\ LoadAdjoins'
  BY <1>1 DEF RowsOK, RowsUnloaded, NewestWhole, IsNewest, OlderReaches, LoadAdjoins
<1> QED
  BY <1>8, <1>9, <1>10 DEF RowsOK

(* A poll is answered: the newest page is its page, and the rows it pushes out    *)
(* join the older ones while the history stands.                                  *)
LEMMA RowsDelivered ==
  ASSUME RowsOK, Rows!PollDeliver
  PROVE  RowsOK'
<1> DEFINE whole == poll.rows = {} \/ poll.cursor = 0 \/ ~backfill
<1>1. /\ RowsTyped /\ sent \in Nat \ {0} /\ Window \in Nat \ {0} /\ poll.pc = "read"
      /\ poll' = Rows!Idle /\ newest' = poll.rows /\ newestCursor' = poll.cursor
      /\ older' = (IF whole THEN {} ELSE Rows!Displaced(poll.rows))
      /\ cursor' = (IF whole THEN poll.cursor ELSE cursor)
      /\ outlived' = (outlived /\ (whole => load.live))
      /\ UNCHANGED <<sent, edited, backfill, load, up, events>>
      /\ used' \in 0..MaxEvents
  BY PagesAssumption, RowsUsed DEF RowsOK, RowsTyped, Rows!PollDeliver, Rows!opencode
<1> HIDE DEF whole
<1>2. PICK hi \in 1..sent : /\ IsNewest(poll.rows, poll.cursor, hi)
                            /\ \A i \in Rows!Ids(newest) : i <= hi
  BY <1>1 DEF RowsOK, PollFollows
<1>3. /\ poll.rows \subseteq (1..sent) \X BOOLEAN /\ poll.cursor \in 0..sent
      /\ poll.cursor \in Nat /\ hi \in Nat /\ cursor \in Nat /\ newestCursor \in Nat
      /\ From(poll.cursor) \in Nat /\ From(cursor) \in Nat /\ From(newestCursor) \in Nat
  BY <1>1, <1>2 DEF RowsTyped, RowRequests, From
<1>4. /\ IsPage(poll.rows, From(poll.cursor), hi) /\ poll.cursor # 1 /\ From(poll.cursor) <= hi
      /\ sent <= hi + Window
      /\ hi + 1 <= From(poll.cursor) + Window /\ (poll.cursor # 0 => hi + 1 = poll.cursor + Window)
      /\ Rows!Ids(poll.rows) = From(poll.cursor)..hi
  BY <1>2 DEF IsNewest, IsPage
<1>5. poll.rows # {}
  <2>1. hi \in Rows!Ids(poll.rows)
    BY <1>3, <1>4
  <2> QED
    BY <2>1 DEF Rows!Ids
<1>6. older' \subseteq (1..sent) \X BOOLEAN
  <2>1. Rows!Displaced(poll.rows) \subseteq older \union newest
    BY MergeFacts DEF Rows!Displaced, Rows!Merge
  <2> QED
    BY <1>1, <2>1 DEF RowsTyped
<1>7. RowsTyped'
  <2>1. Rows!Idle \in RowRequests'
    BY <1>1 DEF Rows!Idle, RowRequests
  <2>2. cursor' \in 0..sent /\ outlived' \in BOOLEAN
    BY <1>1, <1>3 DEF RowsTyped
  <2> QED
    BY <1>1, <1>3, <1>6, <2>1, <2>2 DEF RowsTyped, RowRequests
<1>8. RowsUnloaded'
  BY <1>1, <1>5 DEF RowsUnloaded
<1>9. NewestWhole'
  BY <1>1, <1>2 DEF NewestWhole, IsNewest
<1>10. PollFollows'
  BY <1>1 DEF PollFollows, Rows!Idle
<1>11. CASE whole
  <2>1. ~outlived' => ~load.live
    <3> SUFFICES ASSUME ~outlived', load.live PROVE FALSE
      OBVIOUS
    <3>1. ~outlived
      BY <1>1
    <3>2. cursor # 0 /\ backfill
      BY <3>1 DEF RowsOK, LoadAdjoins
    <3>3. poll.cursor = 0
      BY <1>5, <1>11, <3>2 DEF whole
    <3>4. newest # {}
      BY <3>2 DEF RowsOK, RowsUnloaded
    <3>5. PICK h \in 1..sent : IsNewest(newest, newestCursor, h)
      BY <3>4 DEF RowsOK, NewestWhole
    <3>6. /\ Rows!Ids(newest) = From(newestCursor)..h /\ From(newestCursor) <= h
          /\ newestCursor # 1 /\ (newestCursor # 0 => h + 1 = newestCursor + Window)
      BY <3>5 DEF IsNewest, IsPage
    <3>7. From(cursor) <= From(newestCursor) /\ cursor # 1
      BY <3>1, <3>4 DEF RowsOK, OlderReaches
    <3>8. newestCursor # 0 /\ newestCursor >= 2
      BY <1>3, <3>2, <3>7 DEF From
    <3>9. h <= hi /\ h \in Nat
      BY <1>2, <1>3, <3>6
    <3>10. hi + 1 <= 1 + Window
      BY <1>4, <3>3 DEF From
    <3> QED
      BY <1>1, <1>3, <3>6, <3>8, <3>9, <3>10
  <2>2. older' = {} /\ cursor' = poll.cursor /\ newestCursor' = poll.cursor
    BY <1>1, <1>11
  <2>3. OlderReaches'
    <3>1. Rows!Ids({}) = {} /\ Once({})
      BY DEF Rows!Ids, Once
    <3> QED
      BY <1>3, <1>4, <2>2, <3>1 DEF OlderReaches
  <2>4. LoadAdjoins'
    BY <1>1, <2>1 DEF LoadAdjoins
  <2> QED
    BY <1>7, <1>8, <1>9, <1>10, <2>3, <2>4 DEF RowsOK
<1>12. CASE ~whole
  <2>1. /\ older' = Rows!Displaced(poll.rows) /\ cursor' = cursor /\ outlived' = outlived
        /\ poll.cursor # 0 /\ backfill
    BY <1>1, <1>12 DEF RowsTyped, whole
  <2>2. LoadAdjoins'
    BY <1>1, <2>1 DEF RowsOK, LoadAdjoins
  <2>3. newest # {}
    BY <2>1 DEF RowsOK, RowsUnloaded
  <2>4. OlderReaches'
    <3> SUFFICES ASSUME ~outlived
                 PROVE  /\ cursor # 1 /\ From(cursor) <= From(poll.cursor) /\ Once(older')
                        /\ \A i \in Rows!Ids(older') : From(cursor) <= i /\ i <= From(poll.cursor)
                        /\ \A i \in From(cursor)..(From(poll.cursor) - 1) : i \in Rows!Ids(older')
      BY <1>1, <2>1 DEF OlderReaches
    <3>1. PICK h \in 1..sent : IsNewest(newest, newestCursor, h)
      BY <2>3 DEF RowsOK, NewestWhole
    <3>2. /\ Rows!Ids(newest) = From(newestCursor)..h /\ From(newestCursor) <= h
          /\ hi + Window >= sent /\ sent <= h + Window /\ Once(newest) /\ h \in Nat /\ hi <= sent
      BY <1>1, <1>2, <1>4, <3>1 DEF IsNewest, IsPage
    <3>3. /\ cursor # 1 /\ From(cursor) <= From(newestCursor) /\ Once(older)
          /\ \A i \in Rows!Ids(older) : From(cursor) <= i /\ i <= From(newestCursor)
          /\ \A i \in From(cursor)..(From(newestCursor) - 1) : i \in Rows!Ids(older)
      BY <2>3 DEF RowsOK, OlderReaches
    <3>4. From(poll.cursor) = poll.cursor /\ hi + 1 = poll.cursor + Window /\ poll.cursor <= h + 1
      BY <1>1, <1>3, <1>4, <2>1, <3>2 DEF From
    <3>5. From(newestCursor) <= poll.cursor
      <4>1. CASE newestCursor = 0
        BY <1>3, <2>1, <4>1 DEF From
      <4>2. CASE newestCursor # 0
        <5>1. h + 1 = newestCursor + Window /\ From(newestCursor) = newestCursor
          BY <3>1, <4>2 DEF IsNewest, From
        <5>2. h <= hi
          BY <1>2, <1>3, <3>2
        <5> QED
          BY <1>1, <1>3, <3>2, <3>4, <5>1, <5>2
      <4> QED
        BY <4>1, <4>2
    <3>6. Rows!Min(Rows!Ids(poll.rows)) = poll.cursor
      BY <1>3, <1>4, <3>4, IntervalEnds
    <3>7. Rows!Cardinality(poll.rows) >= Window
      <4>1. Rows!Cardinality(poll.rows) = hi - poll.cursor + 1
        BY <1>3, <1>4, <3>4, PageCount
      <4> QED
        BY <1>1, <1>3, <3>4, <4>1
    <3>8. older' = {m \in Rows!Merge(older, newest) : m[1] <= poll.cursor}
      BY <2>1, <3>6, <3>7 DEF Rows!Displaced
    <3>9. Once(older')
      BY <3>2, <3>3, <3>8, MergeFacts DEF Once
    <3>10. \A i : i \in Rows!Ids(older') <=>
                    i \in Rows!Ids(older) \union Rows!Ids(newest) /\ i <= poll.cursor
      <4>1. \A i : i \in Rows!Ids(Rows!Merge(older, newest)) <=>
                     \E m \in Rows!Merge(older, newest) : m[1] = i
        BY DEF Rows!Ids
      <4>2. \A i : i \in Rows!Ids(older') <=> \E m \in older' : m[1] = i
        BY DEF Rows!Ids
      <4>3. Rows!Ids(Rows!Merge(older, newest)) = Rows!Ids(older) \union Rows!Ids(newest)
        BY MergeFacts
      <4> QED
        BY <3>8, <4>1, <4>2, <4>3
    <3>11. Rows!Ids(older) \subseteq Nat /\ Rows!Ids(newest) \subseteq Nat
      BY <1>1 DEF RowsTyped, Rows!Ids
    <3>12. \A i \in Rows!Ids(older') : From(cursor) <= i /\ i <= poll.cursor
      BY <1>3, <3>2, <3>3, <3>10, <3>11
    <3>13. \A i \in From(cursor)..(poll.cursor - 1) : i \in Rows!Ids(older')
      BY <1>3, <3>2, <3>3, <3>4, <3>10
    <3> QED
      BY <1>3, <3>3, <3>4, <3>5, <3>9, <3>12, <3>13
  <2> QED
    BY <1>7, <1>8, <1>9, <1>10, <2>2, <2>4 DEF RowsOK
<1> QED
  BY <1>11, <1>12

(* A load starts, is read, comes in or fails.                                     *)
LEMMA RowsAsked ==
  ASSUME RowsOK, Rows!LoadStart
  PROVE  RowsOK'
<1>1. /\ RowsTyped /\ sent \in Nat \ {0} /\ cursor # 0 /\ ~load.live /\ backfill' = TRUE
      /\ load' = [Rows!Idle EXCEPT !.pc = "asked", !.live = TRUE, !.cursor = cursor]
      /\ UNCHANGED <<sent, edited, newest, older, cursor, newestCursor, poll, up, events, outlived>>
      /\ used' \in 0..MaxEvents
  BY PagesAssumption, RowsUsed DEF RowsOK, RowsTyped, Rows!LoadStart, Rows!opencode
<1>2. cursor \in 0..sent
  BY <1>1 DEF RowsTyped
<1>3. load' \in RowRequests /\ load'.pc = "asked" /\ load'.live /\ load'.cursor = cursor
  BY <1>1, <1>2 DEF Rows!Idle, RowRequests
<1>4. RowsTyped'
  BY <1>1, <1>3 DEF RowsTyped, RowRequests
<1>5. newest # {}
  BY <1>1 DEF RowsOK, RowsUnloaded
<1>6. RowsUnloaded' /\ NewestWhole' /\ PollFollows' /\ OlderReaches'
  BY <1>1, <1>5 DEF RowsOK, RowsUnloaded, NewestWhole, PollFollows, OlderReaches, IsNewest
<1>7. LoadAdjoins'
  BY <1>1, <1>3 DEF LoadAdjoins
<1> QED
  BY <1>4, <1>6, <1>7 DEF RowsOK

(* A load that was given up may ask from anywhere, and reads rows of the session.  *)
LEMMA LoadAnswered ==
  ASSUME RowsTyped, NEW q \in RowRequests
  PROVE  LET r == Rows!Answered(q, q.cursor) IN
         r \in RowRequests /\ r.pc = "read" /\ r.live = q.live
<1> DEFINE b == q.cursor
           p == Rows!PageBefore(b)
           r == Rows!Answered(q, b)
<1>1. b \in 0..sent /\ sent \in Nat \ {0} /\ Window \in Nat
  BY PagesAssumption DEF RowRequests, RowsTyped
<1>2. r = [q EXCEPT !.pc = "read", !.rows = p.rows, !.cursor = p.cursor]
  BY DEF Rows!Answered
<1> HIDE DEF b, r
<1>3. p.rows \subseteq (1..sent) \X BOOLEAN /\ p.cursor \in 0..sent
  <2>1. CASE b \in 2..(sent + 1)
    BY <2>1, PageAsked DEF RowsTyped
  <2>2. CASE b <= 1
    <3>1. {i \in 1..sent : i < b /\ i + Window >= b} = {}
      BY <1>1, <2>2
    <3>2. p.rows = {} /\ p.cursor = 0
      BY <3>1 DEF Rows!PageBefore
    <3> QED
      BY <1>1, <3>2
  <2> QED
    BY <1>1, <2>1, <2>2
<1> HIDE DEF p
<1>4. r.pc = "read" /\ r.live = q.live /\ r \in RowRequests
  BY <1>2, <1>3 DEF RowRequests
<1> QED
  BY <1>4 DEF r, b

LEMMA RowsLoadRead ==
  ASSUME RowsOK, Rows!LoadRead
  PROVE  RowsOK'
<1>1. /\ RowsTyped /\ sent \in Nat \ {0} /\ load.pc = "asked" /\ load.live
      /\ load' = Rows!Answered(load, load.cursor)
      /\ UNCHANGED <<sent, edited, newest, older, cursor, newestCursor, backfill, poll, up, events, outlived>>
      /\ used' \in 0..MaxEvents
  BY PagesAssumption, RowsUsed DEF RowsOK, RowsTyped, Rows!LoadRead, Rows!shown, Rows!opencode
<1>2. load \in RowRequests /\ load.cursor \in 0..sent /\ cursor \in Nat
  BY <1>1 DEF RowsTyped, RowRequests
<1>3. newest # {}
  BY <1>1 DEF RowsOK, RowsUnloaded
<1>4. RowsUnloaded' /\ NewestWhole' /\ PollFollows' /\ OlderReaches'
  BY <1>1, <1>3 DEF RowsOK, RowsUnloaded, NewestWhole, PollFollows, OlderReaches, IsNewest
<1>5. PICK r : r = Rows!Answered(load, load.cursor)
  OBVIOUS
<1>6. load' = r /\ r \in RowRequests /\ r.pc = "read" /\ r.live
  BY <1>1, <1>2, <1>5, LoadAnswered
<1>7. RowsTyped'
  BY <1>1, <1>6 DEF RowsTyped, RowRequests
<1>8. ASSUME ~outlived
      PROVE  /\ cursor # 0 /\ backfill /\ r.cursor # 1 /\ From(r.cursor) < cursor
             /\ IsPage(r.rows, From(r.cursor), cursor - 1)
  <2>1. cursor # 0 /\ backfill /\ load.cursor = cursor /\ cursor # 1
    BY <1>1, <1>3, <1>8 DEF RowsOK, LoadAdjoins, OlderReaches
  <2>2. PICK b \in 2..(sent + 1) : b = cursor
    BY <1>1, <1>2, <2>1
  <2>3. r = Rows!Answered(load, b)
    BY <1>5, <2>1, <2>2
  <2>4. /\ r \in RowRequests /\ IsPage(r.rows, From(r.cursor), b - 1)
        /\ r.cursor # 1 /\ From(r.cursor) <= b - 1
    BY <1>1, <1>2, <2>3, PageAnswered
  <2>5. From(r.cursor) \in Nat
    BY <1>6 DEF RowRequests, From
  <2> QED
    BY <1>2, <2>1, <2>2, <2>4, <2>5
<1>9. LoadAdjoins'
  BY <1>1, <1>6, <1>8 DEF LoadAdjoins
<1> QED
  BY <1>4, <1>7, <1>9 DEF RowsOK

LEMMA RowsLoaded ==
  ASSUME RowsOK, Rows!LoadDeliver
  PROVE  RowsOK'
<1>1. /\ RowsTyped /\ sent \in Nat \ {0} /\ load.pc = "read" /\ load' = Rows!Idle
      /\ load.live => /\ older' = {m \in Rows!Merge(load.rows, older) : m[1] \notin Rows!Ids(newest)}
                      /\ cursor' = load.cursor
      /\ ~load.live => older' = older /\ cursor' = cursor
      /\ UNCHANGED <<sent, edited, newest, newestCursor, backfill, poll, up, events, outlived>>
      /\ used' \in 0..MaxEvents
  BY PagesAssumption, RowsUsed DEF RowsOK, RowsTyped, Rows!LoadDeliver, Rows!opencode
<1>2. /\ load.rows \subseteq (1..sent) \X BOOLEAN /\ load.cursor \in 0..sent
      /\ load.live \in BOOLEAN /\ older \subseteq (1..sent) \X BOOLEAN /\ cursor \in 0..sent
  BY <1>1 DEF RowsTyped, RowRequests
<1>3. Rows!Idle \in RowRequests /\ ~Rows!Idle.live
  BY <1>1 DEF Rows!Idle, RowRequests
<1>4. older' \subseteq (1..sent) \X BOOLEAN /\ cursor' \in 0..sent
  <2>1. Rows!Merge(load.rows, older) \subseteq load.rows \union older
    BY DEF Rows!Merge
  <2> QED
    BY <1>1, <1>2, <2>1
<1>5. RowsTyped'
  BY <1>1, <1>3, <1>4 DEF RowsTyped, RowRequests
<1>6. RowsUnloaded'
  BY <1>1, <1>3 DEF RowsOK, RowsUnloaded
<1>7. NewestWhole' /\ PollFollows' /\ LoadAdjoins'
  BY <1>1, <1>3 DEF RowsOK, NewestWhole, PollFollows, IsNewest, LoadAdjoins
<1>8. OlderReaches'
  <2>1. CASE ~load.live
    BY <1>1, <2>1 DEF RowsOK, OlderReaches
  <2>2. CASE load.live
    <3> SUFFICES ASSUME newest # {}, ~outlived
                 PROVE  /\ load.cursor # 1 /\ From(load.cursor) <= From(newestCursor) /\ Once(older')
                        /\ \A i \in Rows!Ids(older') : From(load.cursor) <= i /\ i <= From(newestCursor)
                        /\ \A i \in From(load.cursor)..(From(newestCursor) - 1) : i \in Rows!Ids(older')
      BY <1>1, <2>2 DEF OlderReaches
    <3>1. /\ cursor # 1 /\ From(cursor) <= From(newestCursor) /\ Once(older)
          /\ \A i \in Rows!Ids(older) : From(cursor) <= i /\ i <= From(newestCursor)
          /\ \A i \in From(cursor)..(From(newestCursor) - 1) : i \in Rows!Ids(older)
      BY DEF RowsOK, OlderReaches
    <3>2. /\ cursor # 0 /\ load.cursor # 1 /\ From(load.cursor) < cursor
          /\ Rows!Ids(load.rows) = From(load.cursor)..(cursor - 1) /\ Once(load.rows)
      BY <1>1, <2>2 DEF RowsOK, LoadAdjoins, IsPage
    <3>3. PICK h \in 1..sent : IsNewest(newest, newestCursor, h)
      BY DEF RowsOK, NewestWhole
    <3>4. Rows!Ids(newest) = From(newestCursor)..h
      BY <3>3 DEF IsNewest, IsPage
    <3>5. /\ From(cursor) = cursor /\ From(load.cursor) \in Nat /\ From(newestCursor) \in Nat
          /\ cursor \in Nat /\ h \in Nat
      BY <1>1, <1>2, <3>2 DEF From, RowsTyped
    <3>6. \A i : i \in Rows!Ids(older') <=>
                   i \in Rows!Ids(load.rows) \union Rows!Ids(older) /\ i \notin Rows!Ids(newest)
      <4>1. \A i : i \in Rows!Ids(Rows!Merge(load.rows, older)) <=>
                     \E m \in Rows!Merge(load.rows, older) : m[1] = i
        BY DEF Rows!Ids
      <4>2. \A i : i \in Rows!Ids(older') <=> \E m \in older' : m[1] = i
        BY DEF Rows!Ids
      <4>3. Rows!Ids(Rows!Merge(load.rows, older)) = Rows!Ids(load.rows) \union Rows!Ids(older)
        BY MergeFacts
      <4>4. \A m : m \in older' <=> m \in Rows!Merge(load.rows, older) /\ m[1] \notin Rows!Ids(newest)
        BY <1>1, <2>2
      <4> QED
        BY <4>1, <4>2, <4>3, <4>4, Zenon
    <3>7. Once(older')
      <4>1. Once(Rows!Merge(load.rows, older))
        BY <3>1, <3>2, MergeFacts
      <4>2. older' \subseteq Rows!Merge(load.rows, older)
        BY <1>1, <2>2
      <4> QED
        BY <4>1, <4>2 DEF Once
    <3>8. Rows!Ids(older) \subseteq Nat
      BY <1>1, <1>2 DEF Rows!Ids
    <3>9. \A i \in Rows!Ids(older') : From(load.cursor) <= i /\ i <= From(newestCursor)
      BY <3>1, <3>2, <3>5, <3>6, <3>8
    <3>10. From(load.cursor) <= From(newestCursor)
      BY <3>1, <3>2, <3>5
    <3>11. \A i \in From(load.cursor)..(From(newestCursor) - 1) : i \in Rows!Ids(older')
      <4> SUFFICES ASSUME NEW i \in From(load.cursor)..(From(newestCursor) - 1)
                   PROVE  i \in Rows!Ids(load.rows) \union Rows!Ids(older) /\ i \notin Rows!Ids(newest)
        BY <3>6
      <4>1. i \in Nat /\ i < From(newestCursor) /\ From(load.cursor) <= i
        BY <3>5
      <4>2. CASE i < cursor
        BY <3>2, <3>4, <3>5, <4>1, <4>2
      <4>3. CASE i >= cursor
        BY <3>1, <3>4, <3>5, <4>1, <4>3
      <4> QED
        BY <3>5, <4>1, <4>2, <4>3
    <3> QED
      BY <3>2, <3>7, <3>9, <3>10, <3>11
  <2> QED
    BY <1>2, <2>1, <2>2
<1> QED
  BY <1>5, <1>6, <1>7, <1>8 DEF RowsOK

LEMMA RowsLoadFails ==
  ASSUME RowsOK, Rows!LoadFails
  PROVE  RowsOK'
<1>1. /\ RowsTyped /\ sent \in Nat \ {0} /\ load' = Rows!Idle
      /\ UNCHANGED <<sent, edited, newest, older, cursor, newestCursor, backfill, poll, up, events, outlived>>
      /\ used' \in 0..MaxEvents
  BY PagesAssumption, RowsUsed DEF RowsOK, RowsTyped, Rows!LoadFails, Rows!shown, Rows!opencode
<1>2. Rows!Idle \in RowRequests /\ ~Rows!Idle.live
  BY <1>1 DEF Rows!Idle, RowRequests
<1>3. RowsTyped'
  BY <1>1, <1>2 DEF RowsTyped, RowRequests
<1>4. RowsUnloaded' /\ NewestWhole' /\ PollFollows' /\ OlderReaches' /\ LoadAdjoins'
  BY <1>1, <1>2 DEF RowsOK, RowsUnloaded, NewestWhole, PollFollows, OlderReaches, IsNewest, LoadAdjoins
<1> QED
  BY <1>3, <1>4 DEF RowsOK

(* The older rows are given up, or not, and the load with them or not: an event   *)
(* and a stream that is back.                                                     *)
LEMMA RowsGivenUp ==
  ASSUME RowsOK, UNCHANGED <<sent, edited, newest, newestCursor, poll>>,
         used' \in 0..MaxEvents, up' \in BOOLEAN,
         \/ load' = load
         \/ load' = [load EXCEPT !.live = FALSE],
         \/ UNCHANGED <<older, backfill, cursor, outlived>>
         \/ /\ newest # {} /\ Rows!GiveUp
            /\ \/ outlived' = load'.live
               \/ outlived' = FALSE /\ ~load'.live
  PROVE  RowsOK'
<1>1. /\ RowsTyped /\ load' \in RowRequests /\ (load'.live => load' = load)
      /\ load'.live \in BOOLEAN /\ load'.pc = load.pc
  BY DEF RowsOK, RowsTyped, RowRequests
<1>2. NewestWhole' /\ PollFollows'
  BY DEF RowsOK, NewestWhole, PollFollows, IsNewest
<1>3. CASE UNCHANGED <<older, backfill, cursor, outlived>>
  <2>1. RowsTyped'
    BY <1>1, <1>3 DEF RowsTyped, RowRequests
  <2>2. RowsUnloaded' /\ OlderReaches' /\ LoadAdjoins'
    BY <1>1, <1>3 DEF RowsOK, RowsUnloaded, OlderReaches, LoadAdjoins
  <2> QED
    BY <1>2, <2>1, <2>2 DEF RowsOK
<1>4. CASE newest # {} /\ Rows!GiveUp /\ (outlived' = load'.live \/ (outlived' = FALSE /\ ~load'.live))
  <2>1. /\ older' = {} /\ backfill' = FALSE /\ cursor' = newestCursor
        /\ outlived' \in BOOLEAN /\ (~outlived' => ~load'.live)
    BY <1>1, <1>4 DEF Rows!GiveUp
  <2>2. RowsTyped'
    BY <1>1, <2>1 DEF RowsTyped, RowRequests
  <2>3. PICK h \in 1..sent : IsNewest(newest, newestCursor, h)
    BY <1>4 DEF RowsOK, NewestWhole
  <2>4. newestCursor # 1 /\ From(newestCursor) \in Nat
    BY <1>1, <2>3 DEF IsNewest, RowsTyped, From
  <2>5. Rows!Ids({}) = {} /\ Once({})
    BY DEF Rows!Ids, Once
  <2>6. OlderReaches'
    BY <2>1, <2>4, <2>5 DEF OlderReaches
  <2>7. RowsUnloaded' /\ LoadAdjoins'
    BY <1>4, <2>1 DEF RowsUnloaded, LoadAdjoins
  <2> QED
    BY <1>2, <2>2, <2>6, <2>7 DEF RowsOK
<1> QED
  BY <1>3, <1>4

LEMMA RowsStep ==
  ASSUME RowsOK, Rows!Next \/ UNCHANGED rowsVars
  PROVE  RowsOK'
<1>1. RowsTyped /\ up \in BOOLEAN
  BY DEF RowsOK, RowsTyped
<1>2. CASE Rows!PollStart \/ Rows!Revert \/ Rows!StreamBreaks \/ \E i \in 1..MaxMessages : Rows!Edit(i)
  BY <1>2, RowsOutside
<1>3. CASE Rows!Send
  BY <1>3, RowsSent
<1>4. CASE Rows!PollRead
  BY <1>4, RowsPolled
<1>5. CASE Rows!PollDeliver
  BY <1>5, RowsDelivered
<1>6. CASE Rows!LoadStart
  BY <1>6, RowsAsked
<1>7. CASE Rows!LoadRead
  BY <1>7, RowsLoadRead
<1>8. CASE Rows!LoadDeliver
  BY <1>8, RowsLoaded
<1>9. CASE Rows!LoadFails
  BY <1>9, RowsLoadFails
<1>10. ASSUME NEW i \in 0..MaxMessages, Rows!Event(i)
       PROVE  RowsOK'
  <2>1. /\ UNCHANGED <<sent, edited, newest, newestCursor, poll, up>>
        /\ used' \in 0..MaxEvents
        /\ load' = load \/ load' = [load EXCEPT !.live = FALSE]
    BY <1>1, <1>10, RowsUsed DEF Rows!Event, Rows!opencode
  <2>2. \/ UNCHANGED <<older, backfill, cursor, outlived>>
        \/ older # {} /\ Rows!GiveUp /\ outlived' = load'.live
    BY <1>10, Zenon DEF Rows!Event
  <2>3. older # {} => newest # {}
    BY DEF RowsOK, RowsUnloaded
  <2> QED
    BY <1>1, <2>1, <2>2, <2>3, RowsGivenUp
<1>11. CASE Rows!Reconnect
  <2>1. UNCHANGED <<sent, edited, newest, newestCursor, poll>> /\ up' = TRUE /\ used' \in 0..MaxEvents
    BY <1>1, <1>11, RowsUsed DEF Rows!Reconnect, Rows!opencode
  <2>2. CASE ~backfill
    <3>1. UNCHANGED <<older, backfill, cursor, load, outlived>>
      BY <1>11, <2>2 DEF Rows!Reconnect
    <3> QED
      BY <2>1, <3>1, RowsGivenUp
  <2>3. CASE backfill
    <3>1. Rows!GiveUp /\ load' = [load EXCEPT !.live = FALSE] /\ outlived' = FALSE
      BY <1>11, <2>3 DEF Rows!Reconnect
    <3>2. ~load'.live
      BY <1>1, <3>1 DEF RowsTyped, RowRequests
    <3>3. newest # {}
      BY <2>3 DEF RowsOK, RowsUnloaded
    <3> QED
      BY <2>1, <3>1, <3>2, <3>3, RowsGivenUp
  <2> QED
    BY <2>2, <2>3
<1>12. CASE UNCHANGED rowsVars
  BY <1>1, <1>12, RowsRest DEF rowsVars, RowsTyped
<1> QED
  BY <1>2, <1>3, <1>4, <1>5, <1>6, <1>7, <1>8, <1>9, <1>10, <1>11, <1>12 DEF Rows!Next

-------------------------------------------------------------------------------
(* Some number of a set is the lowest, and of a bounded one some is the highest.  *)
LEMMA LowestNumber ==
  ASSUME NEW S \in SUBSET Nat, S # {}
  PROVE  \E m \in S : \A k \in S : m <= k
<1>1. PICK m \in S : \A c \in S : <<c, m>> \notin OpToRel(<, Nat)
  BY WFMin, NatLessThanWellFounded
<1>2. \A c, d \in Nat : c < d => <<c, d>> \in OpToRel(<, Nat)
  BY DEF OpToRel
<1>3. S \subseteq Nat
  OBVIOUS
<1>4. \A c \in S : ~(c < m)
  BY <1>1, <1>2, <1>3, Zenon
<1>5. m \in Nat /\ \A c \in S : c \in Nat
  BY <1>1, <1>3
<1> QED
  BY <1>4, <1>5

LEMMA HighestNumber ==
  ASSUME NEW n \in Nat, NEW S \in SUBSET (0..n), S # {}
  PROVE  \E m \in S : \A k \in S : k <= m
<1> DEFINE B == {b \in 0..n : \A k \in S : k <= b}
<1>1. n \in B /\ B \subseteq Nat /\ S \subseteq Nat
  OBVIOUS
<1>2. PICK m \in B : \A b \in B : m <= b
  <2> HIDE DEF B
  <2> QED
    BY <1>1, LowestNumber
<1>3. m \in Nat /\ m <= n /\ \A k \in S : k <= m
  BY <1>2
<1>4. m \in S
  <2> SUFFICES ASSUME m \notin S PROVE FALSE
    OBVIOUS
  <2>1. \A k \in S : k < m
    BY <1>1, <1>3
  <2>4. PICK k \in S : k \in Nat /\ k < m
    BY <1>1, <2>1
  <2>2. m - 1 \in Nat /\ m - 1 <= n
    BY <1>3, <2>4
  <2>3. m - 1 \in B
    BY <1>1, <1>3, <2>1, <2>2
  <2> QED
    BY <1>2, <1>3, <2>2, <2>3
<1> QED
  BY <1>3, <1>4

(* DshPages. Of a page of a trajectory: what it shows and how it goes on.         *)
LEMMA DshCounts ==
  ASSUME NEW S
  PROVE  Dsh!Cardinality(S) = Cardinality(S)
BY DEF Dsh!Cardinality, Cardinality

LEMMA DshMin ==
  ASSUME NEW S \in SUBSET Nat, S # {}
  PROVE  Dsh!Min(S) \in S /\ \A k \in S : Dsh!Min(S) <= k
<1>1. \E m \in S : \A k \in S : m <= k
  BY LowestNumber
<1> QED
  BY <1>1 DEF Dsh!Min

DshWorld == world \in Seq({"native", "life"}) /\ Len(world) <= MaxHappenings

LEMMA PageTyped ==
  ASSUME DshWorld, NEW b
  PROVE  LET p == Dsh!Page(b) IN p.events \subseteq 1..Len(world) /\ p.next \in 0..Len(world)
<1> DEFINE E == {t \in Dsh!Times : b = None \/ Dsh!Number(t) < b}
           C == {t \in E : Dsh!Cardinality({u \in E : u > t}) < Limit}
           p == Dsh!Page(b)
<1>1. /\ p.events = C
      /\ p.next = IF C = E THEN 0 ELSE Dsh!Number(Dsh!Min(C))
  BY DEF Dsh!Page
<1>2. Dsh!Times = 1..Len(world) /\ Len(world) \in Nat /\ Limit \in Nat \ {0}
  BY PagesAssumption DEF DshWorld, Dsh!Times
<1>3. C \subseteq E /\ E \subseteq 1..Len(world)
  BY <1>2
<1>4. \A t \in 1..Len(world) : Dsh!Number(t) \in 0..Len(world)
  <2> SUFFICES ASSUME NEW t \in 1..Len(world) PROVE Dsh!Number(t) \in 0..Len(world)
    OBVIOUS
  <2>1. t \in 0..Len(world) /\ t \in Nat
    BY <1>2
  <2>2. IsFiniteSet(1..t) /\ Cardinality(1..t) = t
    BY <2>1, FS_Interval
  <2>3. {u \in 1..t : world[u] = "native"} \in SUBSET (1..t)
    OBVIOUS
  <2>4. Dsh!Natives(t) \in Nat /\ Dsh!Natives(t) <= t
    BY <2>2, <2>3, FS_Subset, FS_CardinalityType, DshCounts DEF Dsh!Natives
  <2>5. Dsh!Number(t) = Dsh!Natives(t) \/ Dsh!Number(t) = t
    BY DEF Dsh!Number
  <2> QED
    BY <1>2, <2>1, <2>4, <2>5
<1>5. E # {} => C # {}
  <2> SUFFICES ASSUME E # {} PROVE C # {}
    OBVIOUS
  <2>1. E \in SUBSET (0..Len(world))
    BY <1>2, <1>3
  <2> HIDE DEF E
  <2>2. PICK m \in E : \A k \in E : k <= m
    BY <1>2, <2>1, HighestNumber
  <2>3. {u \in E : u > m} = {}
    <3> SUFFICES ASSUME NEW u \in E, u > m PROVE FALSE
      OBVIOUS
    <3>1. u \in Nat /\ m \in Nat /\ u <= m
      BY <1>2, <2>1, <2>2
    <3> QED
      BY <3>1
  <2>4. Dsh!Cardinality({u \in E : u > m}) = 0
    BY <2>3, FS_EmptySet, DshCounts
  <2> QED
    BY <1>2, <2>2, <2>4
<1> HIDE DEF C, E, p
<1>6. C # E => Dsh!Min(C) \in 1..Len(world)
  <2> SUFFICES ASSUME C # E PROVE Dsh!Min(C) \in 1..Len(world)
    OBVIOUS
  <2>1. C # {} /\ C \in SUBSET Nat
    BY <1>2, <1>3, <1>5
  <2> QED
    BY <1>3, <2>1, DshMin
<1> QED
  BY <1>1, <1>2, <1>3, <1>4, <1>6 DEF p

(* While the pages come from the capture: the last Limit of those before e + 1.   *)
LEMMA PageCaptured ==
  ASSUME DshWorld, ~durable, NEW b, NEW e \in 0..Len(world),
         (b = None /\ e = Len(world)) \/ (b \in Nat /\ b = e + 1)
  PROVE  LET p == Dsh!Page(b) IN
         /\ p.events = {t \in 1..e : e < t + Limit}
         /\ p.next = IF e <= Limit THEN 0 ELSE (e + 1) - Limit
<1> DEFINE E == {t \in Dsh!Times : b = None \/ Dsh!Number(t) < b}
           C == {t \in E : Dsh!Cardinality({u \in E : u > t}) < Limit}
           p == Dsh!Page(b)
<1>1. /\ p.events = C
      /\ p.next = IF C = E THEN 0 ELSE Dsh!Number(Dsh!Min(C))
  BY DEF Dsh!Page
<1>2. /\ Dsh!Times = 1..Len(world) /\ Len(world) \in Nat /\ Limit \in Nat \ {0}
      /\ e \in Nat /\ None \notin Nat /\ e <= Len(world)
  BY PagesAssumption, PartsAssumption DEF DshWorld, Dsh!Times
<1>3. \A t : Dsh!Number(t) = t
  BY DEF Dsh!Number
<1>4. E = 1..e
  BY <1>2, <1>3
<1>5. \A t \in E : Dsh!Cardinality({u \in E : u > t}) = e - t
  <2> SUFFICES ASSUME NEW t \in 1..e PROVE Dsh!Cardinality({u \in 1..e : u > t}) = e - t
    BY <1>4
  <2>1. {u \in 1..e : u > t} = (t + 1)..e
    BY <1>2
  <2>2. Cardinality((t + 1)..e) = IF t + 1 > e THEN 0 ELSE (e - (t + 1)) + 1
    BY <1>2, FS_Interval
  <2> QED
    <3>1. t \in Nat /\ t <= e /\ Cardinality((t + 1)..e) = e - t
      BY <1>2, <2>2
    <3> QED
      BY <2>1, <3>1, DshCounts
<1>6. C = {t \in 1..e : e < t + Limit}
  <2>1. C = {t \in E : e - t < Limit}
    BY <1>5
  <2>2. \A t \in 1..e : e - t < Limit <=> e < t + Limit
    BY <1>2
  <2> HIDE DEF C, E
  <2> QED
    BY <1>4, <2>1, <2>2
<1> HIDE DEF C, E, p
<1>7. CASE e <= Limit
  <2>1. C = E
    BY <1>2, <1>4, <1>6, <1>7
  <2> QED
    BY <1>1, <1>6, <1>7, <2>1 DEF p
<1>8. CASE ~(e <= Limit)
  <2>1. /\ 1 \in E /\ 1 \notin C /\ C \in SUBSET Nat
        /\ (e + 1) - Limit \in C /\ \A k \in C : (e + 1) - Limit <= k
    BY <1>2, <1>4, <1>6, <1>8
  <2>2. Dsh!Min(C) \in C /\ \A k \in C : Dsh!Min(C) <= k
    BY <2>1, DshMin
  <2>3. Dsh!Min(C) = (e + 1) - Limit
    <3>1. Dsh!Min(C) \in Nat /\ (e + 1) - Limit \in Nat
      BY <2>1, <2>2
    <3> QED
      BY <2>1, <2>2, <3>1
  <2>4. C # E
    BY <2>1
  <2> QED
    BY <1>1, <1>3, <1>6, <1>8, <2>3, <2>4 DEF p
<1> QED
  BY <1>7, <1>8

(* What a reader has loaded, S: all from the cursor to the last poll that landed.  *)
Covers(S) == \A t \in 1..Len(world) : before <= t /\ t + unseen <= Len(world) => t \in S

DshTyped ==
  /\ DshWorld /\ durable \in BOOLEAN /\ shown \subseteq 1..Len(world) /\ unseen \in 0..Limit
  /\ before = None \/ before \in 0..Len(world)
  /\ before = None => loading = None /\ unseen = 0
  /\ loading # None => /\ loading.before = before /\ before # 0
                       /\ loading \in [before : 1..Len(world), snapshot : SUBSET (1..Len(world))]

\* While an earlier page is on its way, what counts is what it will be added to.
DshCovered ==
  ~durable /\ before # None =>
    /\ loading = None => Covers(shown)
    /\ loading # None => Covers(loading.snapshot)

DshOK == DshTyped /\ DshCovered

LEMMA DshInit == Dsh!Init => DshOK
<1> SUFFICES ASSUME Dsh!Init PROVE DshOK
  OBVIOUS
<1>1. /\ world = <<>> /\ durable \in BOOLEAN /\ shown = {} /\ before = None /\ loading = None
      /\ unseen = 0 /\ Limit \in Nat /\ MaxHappenings \in Nat
  BY PagesAssumption DEF Dsh!Init
<1>2. world \in Seq({"native", "life"}) /\ Len(world) = 0
  BY <1>1
<1>3. DshTyped
  BY <1>1, <1>2 DEF DshTyped, DshWorld
<1> QED
  BY <1>1, <1>3 DEF DshOK, DshCovered

LEMMA DshShown ==
  ASSUME DshOK
  PROVE  Dsh!TypeOK /\ Dsh!CapturedAllShown
<1>1. /\ DshTyped /\ DshWorld /\ Len(world) \in Nat /\ Len(world) <= MaxHappenings
      /\ MaxHappenings \in Nat /\ Limit \in Nat /\ Dsh!Times = 1..Len(world)
  BY PagesAssumption DEF DshOK, DshTyped, DshWorld, Dsh!Times
<1>2. 1..Len(world) \subseteq 1..MaxHappenings /\ 0..Len(world) \subseteq 0..MaxHappenings
  BY <1>1
<1>3. loading = None \/ loading \in Dsh!Earlier
  <2> SUFFICES ASSUME loading # None PROVE loading \in Dsh!Earlier
    OBVIOUS
  <2>1. loading \in [before : 1..Len(world), snapshot : SUBSET (1..Len(world))]
    BY <1>1 DEF DshTyped
  <2> QED
    BY <1>2, <2>1 DEF Dsh!Earlier
<1>4. Dsh!TypeOK
  BY <1>1, <1>2, <1>3 DEF DshTyped, DshWorld, Dsh!TypeOK
<1>5. ASSUME ~durable, before = 0, loading = None
      PROVE  1..(Len(world) - unseen) \subseteq shown
  <2>1. None \notin Nat /\ before # None /\ unseen \in Nat
    BY <1>1, <1>5, PartsAssumption DEF DshTyped
  <2>2. Covers(shown)
    BY <1>5, <2>1 DEF DshOK, DshCovered
  <2> SUFFICES ASSUME NEW t \in 1..(Len(world) - unseen) PROVE t \in shown
    OBVIOUS
  <2>3. t \in 1..Len(world) /\ 0 <= t /\ t + unseen <= Len(world)
    BY <1>1, <2>1
  <2> QED
    BY <1>5, <2>2, <2>3 DEF Covers
<1> QED
  BY <1>4, <1>5 DEF Dsh!CapturedAllShown, Dsh!AllShown

LEMMA DshStep ==
  ASSUME DshOK, Dsh!Next \/ UNCHANGED dshVars
  PROVE  DshOK'
<1>1. /\ DshTyped /\ DshCovered /\ DshWorld /\ Len(world) \in Nat /\ None \notin Nat
      /\ Limit \in Nat \ {0} /\ unseen \in Nat /\ unseen <= Limit /\ durable \in BOOLEAN
      /\ MaxHappenings \in Nat
  <2>1. /\ Limit \in Nat \ {0} /\ MaxHappenings \in Nat /\ None \notin Nat
        /\ DshTyped /\ DshCovered
    BY PagesAssumption, PartsAssumption DEF DshOK
  <2>2. DshWorld /\ unseen \in 0..Limit /\ durable \in BOOLEAN
    BY <2>1 DEF DshTyped
  <2>3. Len(world) \in Nat
    BY <2>2 DEF DshWorld
  <2> QED
    BY <2>1, <2>2, <2>3
<1>2. ASSUME NEW kind \in {"native", "life"}, Dsh!Happens(kind)
      PROVE  DshOK'
  <2>1. /\ Len(world) < MaxHappenings /\ (before = None \/ unseen < Limit)
        /\ world' = Append(world, kind)
        /\ unseen' = (IF before = None THEN 0 ELSE unseen + 1)
        /\ UNCHANGED <<durable, shown, before, loading>>
    BY <1>2 DEF Dsh!Happens
  <2>2. world' \in Seq({"native", "life"}) /\ Len(world') = Len(world) + 1
    BY <1>1, <2>1 DEF DshWorld
  <2>3. DshWorld'
    BY <1>1, <2>1, <2>2 DEF DshWorld
  <2>4. 1..Len(world) \subseteq 1..Len(world') /\ 0..Len(world) \subseteq 0..Len(world')
    BY <1>1, <2>2
  <2>5. loading # None =>
          loading \in [before : 1..Len(world'), snapshot : SUBSET (1..Len(world'))]
    <3> SUFFICES ASSUME loading # None
                 PROVE  loading \in [before : 1..Len(world'), snapshot : SUBSET (1..Len(world'))]
      OBVIOUS
    <3>1. loading \in [before : 1..Len(world), snapshot : SUBSET (1..Len(world))]
      BY <1>1 DEF DshTyped
    <3> QED
      BY <2>4, <3>1
  <2>6. unseen' \in 0..Limit /\ (before = None => unseen' = 0)
    BY <1>1, <2>1
  <2>7. DshTyped'
    BY <1>1, <2>1, <2>3, <2>4, <2>5, <2>6 DEF DshTyped
  <2>8. DshCovered'
    <3> SUFFICES ASSUME ~durable, before # None
                 PROVE  /\ loading = None => Covers(shown)'
                        /\ loading # None => Covers(loading.snapshot)'
      BY <2>1 DEF DshCovered
    <3>1. unseen' = unseen + 1
      BY <2>1
    <3>2. \A S : Covers(S) => \A t \in 1..Len(world') :
                    before <= t /\ t + unseen' <= Len(world') => t \in S
      BY <1>1, <2>2, <3>1 DEF Covers
    <3>3. loading = None => Covers(shown)'
      BY <1>1, <2>1, <3>2 DEF DshCovered, Covers
    <3>4. loading # None => Covers(loading.snapshot)'
      BY <1>1, <2>1, <3>2 DEF DshCovered, Covers
    <3> QED
      BY <3>3, <3>4
  <2> QED
    BY <2>7, <2>8 DEF DshOK
<1>3. CASE Dsh!Poll
  <2> DEFINE p == Dsh!Page(None)
  <2>1. /\ shown' = shown \union p.events
        /\ before' = (IF before = None THEN p.next ELSE before)
        /\ unseen' = (IF loading = None THEN 0 ELSE unseen)
        /\ UNCHANGED <<world, durable, loading>>
    BY <1>3 DEF Dsh!Poll
  <2>2. p.events \subseteq 1..Len(world) /\ p.next \in 0..Len(world)
    BY <1>1, PageTyped
  <2>3. ~durable => /\ p.events = {t \in 1..Len(world) : Len(world) < t + Limit}
                    /\ p.next = IF Len(world) <= Limit THEN 0 ELSE (Len(world) + 1) - Limit
    <3>1. Len(world) \in 0..Len(world)
      BY <1>1
    <3> QED
      BY <1>1, <3>1, PageCaptured
  <2> HIDE DEF p
  <2>4. before' \in 0..Len(world) /\ before' # None
    BY <1>1, <2>1, <2>2 DEF DshTyped
  <2>5. DshTyped'
    <3>1. DshWorld' /\ durable' \in BOOLEAN /\ shown' \subseteq 1..Len(world') /\ unseen' \in 0..Limit
      <4>1. DshWorld'
        BY <1>1, <2>1 DEF DshWorld
      <4>2. shown \subseteq 1..Len(world)
        BY <1>1 DEF DshTyped
      <4>3. shown' \subseteq 1..Len(world') /\ durable' = durable
        BY <2>1, <2>2, <4>2
      <4>4. unseen' \in 0..Limit
        BY <1>1, <2>1
      <4> QED
        BY <1>1, <4>1, <4>3, <4>4
    <3>2. loading' # None =>
            /\ loading'.before = before' /\ before' # 0
            /\ loading' \in [before : 1..Len(world'), snapshot : SUBSET (1..Len(world'))]
      BY <1>1, <2>1 DEF DshTyped
    <3> QED
      BY <2>1, <2>4, <3>1, <3>2 DEF DshTyped
  <2>6. DshCovered'
    <3> SUFFICES ASSUME ~durable
                 PROVE  /\ loading = None => Covers(shown)'
                        /\ loading # None => Covers(loading.snapshot)'
      BY <2>1 DEF DshCovered
    <3>1. CASE loading # None
      BY <1>1, <2>1, <3>1 DEF DshTyped, DshCovered, Covers
    <3>2. CASE loading = None
      <4> SUFFICES ASSUME NEW t \in 1..Len(world), before' <= t PROVE t \in shown'
        BY <2>1, <3>2 DEF Covers
      <4>1. CASE Len(world) < t + Limit
        BY <2>1, <2>3, <4>1
      <4>2. CASE before # None /\ ~(Len(world) < t + Limit)
        <5>1. t + unseen <= Len(world) /\ before <= t
          BY <1>1, <2>1, <4>2
        <5> QED
          BY <1>1, <2>1, <3>2, <4>2, <5>1 DEF DshCovered, Covers
      <4>3. CASE before = None /\ ~(Len(world) < t + Limit)
        BY <1>1, <2>1, <2>3, <4>3
      <4> QED
        BY <4>1, <4>2, <4>3
    <3> QED
      BY <3>1, <3>2
  <2> QED
    BY <2>5, <2>6 DEF DshOK
<1>4. CASE Dsh!Click
  <2>1. /\ loading = None /\ before \notin {None, 0}
        /\ loading' = [before |-> before, snapshot |-> shown]
        /\ UNCHANGED <<world, durable, shown, before, unseen>>
    BY <1>4 DEF Dsh!Click
  <2>2. /\ before \in 1..Len(world) /\ loading'.before = before /\ loading'.snapshot = shown
        /\ loading' \in [before : 1..Len(world), snapshot : SUBSET (1..Len(world))]
    BY <1>1, <2>1 DEF DshTyped
  <2>3. DshTyped'
    BY <1>1, <2>1, <2>2 DEF DshTyped, DshWorld
  <2>4. DshCovered'
    BY <1>1, <2>1, <2>2 DEF DshCovered, Covers
  <2> QED
    BY <2>3, <2>4 DEF DshOK
<1>5. CASE Dsh!Loaded
  <2>1. /\ loading # None /\ loading.before = before /\ before # 0 /\ before # None
        /\ loading \in [before : 1..Len(world), snapshot : SUBSET (1..Len(world))]
    BY <1>1, <1>5 DEF Dsh!Loaded, DshTyped
  <2>2. before \in 1..Len(world) /\ loading.snapshot \subseteq 1..Len(world)
    BY <2>1
  <2> DEFINE p == Dsh!Page(before)
  <2>3. /\ shown' = loading.snapshot \union p.events /\ before' = p.next /\ loading' = None
        /\ UNCHANGED <<world, durable, unseen>>
    BY <1>5, <2>1 DEF Dsh!Loaded
  <2>4. p.events \subseteq 1..Len(world) /\ p.next \in 0..Len(world)
    BY <1>1, PageTyped
  <2>5. ~durable => /\ p.events = {t \in 1..(before - 1) : before - 1 < t + Limit}
                    /\ p.next = IF before - 1 <= Limit THEN 0 ELSE ((before - 1) + 1) - Limit
    <3>1. before - 1 \in 0..Len(world) /\ before \in Nat /\ before = (before - 1) + 1
      BY <1>1, <2>2
    <3> QED
      BY <1>1, <3>1, PageCaptured
  <2> HIDE DEF p
  <2>6. DshTyped'
    BY <1>1, <2>2, <2>3, <2>4 DEF DshTyped, DshWorld
  <2>7. DshCovered'
    <3> SUFFICES ASSUME ~durable PROVE Covers(shown)'
      BY <2>3 DEF DshCovered
    <3> SUFFICES ASSUME NEW t \in 1..Len(world), p.next <= t, t + unseen <= Len(world)
                 PROVE  t \in shown'
      BY <2>3 DEF Covers
    <3>1. CASE before <= t
      BY <1>1, <2>1, <2>3, <3>1 DEF DshCovered, Covers
    <3>2. CASE ~(before <= t)
      <4>1. t \in 1..(before - 1) /\ before - 1 < t + Limit
        BY <1>1, <2>2, <2>5, <3>2
      <4> QED
        BY <2>3, <2>5, <4>1
    <3> QED
      BY <3>1, <3>2
  <2> QED
    BY <2>6, <2>7 DEF DshOK
<1>6. CASE UNCHANGED dshVars
  <2>1. UNCHANGED <<world, durable, shown, before, loading, unseen>>
    BY <1>6 DEF dshVars
  <2> QED
    BY <1>1, <2>1 DEF DshOK, DshTyped, DshWorld, DshCovered, Covers
<1> QED
  BY <1>2, <1>3, <1>4, <1>5, <1>6 DEF Dsh!Next

-------------------------------------------------------------------------------
(* ClaudeTranscript. Rows with consecutive numbers, from lo on; rows in order; and  *)
(* rows that the store has and that are as it has them, or changed after revision r. *)
Row == [id : Nat, edited : BOOLEAN]
Run(R, lo) == R \in Seq(Row) /\ \A k \in DOMAIN R : R[k].id = (lo + k) - 1
Rising(R) == R \in Seq(Row) /\ \A j, k \in DOMAIN R : j < k => R[j].id < R[k].id
Current(R, r) ==
  \A k \in DOMAIN R : /\ R[k].id \in first..last
                      /\ (R[k].edited <=> R[k].id \in changed) \/ rev[R[k].id] > r
Later(i, r) == \A j \in first..last : j > i => rev[j] > r

LogOK ==
  /\ first \in Nat \ {0} /\ last \in Nat /\ first <= last /\ last <= MaxRows
  /\ last - first < Retained
  /\ changed \in SUBSET Claude!Ids /\ rev \in [Claude!Ids -> Nat]
  /\ revision \in Nat /\ epoch \in Nat /\ spent \in 0..MaxOutside
  /\ {pinned, queued, visible} \subseteq BOOLEAN
  /\ \A i \in first..last : rev[i] <= revision

WindowOK ==
  /\ known \in Nat /\ known <= epoch
  /\ since \in Nat \union {None} /\ (since # None => since <= revision)
  /\ since = None => window = <<>> /\ back = None /\ forth = None
  /\ since # None => /\ window # <<>> /\ Run(window, window[1].id)
                     /\ window[1].id >= 1 /\ Claude!End(window) <= MaxRows
                     /\ Len(window) <= Resident
                     /\ back \in {None, window[1].id}
                     /\ forth \in {None, Claude!End(window)}
  /\ ~pinned => forth = None
  /\ known = epoch /\ since # None =>
       /\ Current(window, since)
       /\ back = None => window[1].id = first
       /\ forth = None => Later(Claude!End(window), since)

\* A request asks of the window, which is as it was when it was made.
AskedOK ==
  /\ flight \in [to : {None, "refresh", "before", "after", "latest"}, epoch : Nat,
                  since : Nat \union {None}, at : Nat \union {None},
                  page : [rows : Seq(Row), delta : BOOLEAN, reset : BOOLEAN, revision : Nat,
                          epoch : Nat, before : Nat \union {None}, after : Nat \union {None}],
                  read : BOOLEAN]
  /\ flight.read => flight.to # None
  /\ flight.to # None => flight.epoch = known
  /\ flight.since = (IF flight.to = "refresh" THEN since ELSE None)
  /\ flight.at = (IF flight.to = "before" THEN back ELSE IF flight.to = "after" THEN forth ELSE None)
  /\ flight.to \in {"before", "after"} => flight.at # None

\* The answers there are: the changes, the rows before a cursor, those after it, and
\* the newest.
DeltaOK(p) ==
  /\ flight.to = "refresh" /\ since # None /\ p.epoch = known
  /\ p.epoch = epoch =>
       \A i \in first..last : rev[i] > since => Claude!Has(p.rows, i) \/ rev[i] > p.revision
  /\ forth = None => \E m \in Nat : \A i \in Nat :
       i > Claude!End(window) => (Claude!Has(p.rows, i) <=> i <= m)
EarlierOK(p) ==
  /\ p.epoch = known /\ (p.epoch = epoch => Current(p.rows, p.revision))
  /\ p.before \in Nat => p.rows # <<>> /\ p.before = p.rows[1].id
  /\ p.rows # <<>> => Run(p.rows, p.rows[1].id) /\ Claude!End(p.rows) = back - 1
  /\ p.epoch = epoch /\ p.before = None =>
       IF p.rows = <<>> THEN back <= first ELSE p.rows[1].id = first
LaterOK(p) ==
  /\ p.epoch = known
  /\ Run(p.rows, forth + 1)
  /\ p.after \in Nat => p.rows # <<>> /\ p.after = Claude!End(p.rows)
  /\ p.epoch = epoch /\ p.after = None =>
       Later(IF p.rows = <<>> THEN forth ELSE Claude!End(p.rows), p.revision)
NewestOK(p) ==
  /\ p.rows # <<>> /\ Run(p.rows, p.rows[1].id)
  /\ p.after = None /\ p.before \in {None, p.rows[1].id}
  /\ p.epoch = epoch => /\ p.before = None => p.rows[1].id = first
                        /\ Later(Claude!End(p.rows), p.revision)

AnswerOK == flight.read =>
  LET p == flight.page  beside == flight.to \in {"before", "after"} /\ ~p.reset IN
  /\ p.revision <= revision /\ p.epoch <= epoch /\ known <= p.epoch
  /\ since # None => since <= p.revision
  /\ Rising(p.rows) /\ \A k \in DOMAIN p.rows : p.rows[k].id \in Claude!Ids
  /\ p.epoch = epoch => Current(p.rows, p.revision)
  /\ p.delta => DeltaOK(p)
  /\ beside /\ flight.to = "before" => EarlierOK(p)
  /\ beside /\ flight.to = "after" => LaterOK(p)
  /\ ~p.delta /\ ~beside => NewestOK(p)

TranscriptOK == LogOK /\ WindowOK /\ AskedOK /\ AnswerOK
LEMMA ClaudeCounts ==
  ASSUME NEW S
  PROVE  Claude!Cardinality(S) = Cardinality(S)
BY DEF Claude!Cardinality, Cardinality

\* The numbers of S in order, each once.
LEMMA RankedFacts ==
  ASSUME NEW S \in SUBSET Nat, IsFiniteSet(S), NEW n \in Nat, n = Cardinality(S)
  PROVE  /\ Claude!Ranked(S) \in [1..n -> S]
         /\ \A i \in S : \E k \in 1..n : Claude!Ranked(S)[k] = i
         /\ \A j, k \in 1..n : j < k => Claude!Ranked(S)[j] < Claude!Ranked(S)[k]
<1> DEFINE T(i) == {j \in S : j < i}
           r == [i \in S |-> Cardinality(T(i))]
           K == Claude!Ranked(S)
<1>0. \A i \in S : i \in Nat
  OBVIOUS
<1>1. \A i \in S : IsFiniteSet(T(i)) /\ Cardinality(T(i)) \in Nat
  <2> SUFFICES ASSUME NEW i \in S PROVE IsFiniteSet(T(i)) /\ Cardinality(T(i)) \in Nat
    OBVIOUS
  <2>1. T(i) \in SUBSET S
    OBVIOUS
  <2> QED
    BY <2>1, FS_Subset, FS_CardinalityType
<1>2. \A i, j \in S : i < j => r[i] < r[j]
  <2> SUFFICES ASSUME NEW i \in S, NEW j \in S, i < j PROVE r[i] < r[j]
    OBVIOUS
  <2>0. i \in Nat /\ j \in Nat
    BY <1>0
  <2>1. T(i) \in SUBSET T(j) /\ i \in T(j) /\ i \notin T(i)
    <3>1. \A k \in T(i) : k \in T(j)
      BY <1>0, <2>0
    <3>2. i \in T(j) /\ i \notin T(i)
      BY <2>0
    <3> QED
      BY <3>1, <3>2
  <2>2. IsFiniteSet(T(j)) /\ Cardinality(T(i)) \in Nat /\ Cardinality(T(j)) \in Nat
    BY <1>1
  <2>3. Cardinality(T(i)) <= Cardinality(T(j)) /\ Cardinality(T(i)) # Cardinality(T(j))
    <3> HIDE DEF T
    <3> QED
      BY <2>1, <2>2, FS_Subset
  <2> QED
    BY <2>2, <2>3
<1>3. \A i \in S : r[i] \in 0..(n - 1)
  <2> SUFFICES ASSUME NEW i \in S PROVE r[i] \in 0..(n - 1)
    OBVIOUS
  <2>1. T(i) \in SUBSET S /\ i \notin T(i) /\ i \in Nat
    BY <1>0
  <2>2. Cardinality(T(i)) <= n /\ Cardinality(T(i)) # n
    <3> HIDE DEF T
    <3> QED
      BY <2>1, FS_Subset
  <2> QED
    BY <1>1, <2>2
<1>4. \A k \in 1..n : \E i \in S : r[i] = k - 1
  <2> SUFFICES ASSUME NEW k \in 1..n, \A i \in S : r[i] # k - 1 PROVE FALSE
    OBVIOUS
  <2> DEFINE U == (0..(n - 1)) \ {k - 1}
  <2>1. IsFiniteSet(0..(n - 1)) /\ Cardinality(0..(n - 1)) = n
    <3>1. n - 1 \in Int /\ 0 \in Int /\ n > 0
      OBVIOUS
    <3>2. /\ IsFiniteSet(0..(n - 1))
          /\ Cardinality(0..(n - 1)) = IF 0 > n - 1 THEN 0 ELSE (n - 1) - 0 + 1
      BY <3>1, FS_Interval
    <3>3. (n - 1) - 0 + 1 = n /\ ~(0 > n - 1)
      BY <3>1
    <3> QED
      BY <3>2, <3>3
  <2>2. k - 1 \in 0..(n - 1)
    OBVIOUS
  <2>3. IsFiniteSet(U) /\ Cardinality(U) = n - 1
    <3> DEFINE A == 0..(n - 1)
    <3>1. IsFiniteSet(A) /\ Cardinality(A) = n /\ k - 1 \in A /\ U = A \ {k - 1}
      BY <2>1, <2>2
    <3> HIDE DEF A, U
    <3> QED
      BY <3>1, FS_RemoveElement
  <2>4. r \in [S -> U]
    BY <1>3
  <2>5. Cardinality(U) < Cardinality(S)
    BY <2>3
  <2> HIDE DEF r, U
  <2>6. PICK i \in S, j \in S : i # j /\ r[i] = r[j]
    BY <2>3, <2>4, <2>5, FS_PigeonHole
  <2>7. i < j \/ j < i
    BY <2>6
  <2>8. r[i] \in Nat /\ r[j] \in Nat
    BY <1>3
  <2> QED
    BY <1>2, <2>6, <2>7, <2>8
<1>5. K = [k \in 1..n |-> CHOOSE i \in S : Cardinality(T(i)) = k - 1]
  <2>1. \A X : Claude!Cardinality(X) = Cardinality(X)
    BY ClaudeCounts
  <2>2. K = [k \in 1..Claude!Cardinality(S) |->
               CHOOSE i \in S : Claude!Cardinality(T(i)) = k - 1]
    BY DEF Claude!Ranked
  <2> QED
    BY <2>1, <2>2
<1>6. \A k \in 1..n : K[k] \in S /\ r[K[k]] = k - 1
  <2> SUFFICES ASSUME NEW k \in 1..n PROVE K[k] \in S /\ r[K[k]] = k - 1
    OBVIOUS
  <2>1. PICK i \in S : Cardinality(T(i)) = k - 1
    BY <1>4
  <2>2. K[k] = CHOOSE h \in S : Cardinality(T(h)) = k - 1
    BY <1>5
  <2>3. K[k] \in S /\ Cardinality(T(K[k])) = k - 1
    <3> HIDE DEF T, K
    <3> QED
      BY <2>1, <2>2
  <2> QED
    BY <2>3
<1>7. DOMAIN K = 1..n /\ K = [k \in DOMAIN K |-> K[k]]
  BY <1>5
<1> HIDE DEF r, K
<1>8. K \in [1..n -> S]
  BY <1>6, <1>7
<1>9. \A i \in S : \E k \in 1..n : K[k] = i
  <2> SUFFICES ASSUME NEW i \in S PROVE \E k \in 1..n : K[k] = i
    OBVIOUS
  <2>1. r[i] \in 0..(n - 1)
    BY <1>3
  <2>2. PICK k \in 1..n : k - 1 = r[i]
    <3>1. r[i] + 1 \in 1..n /\ (r[i] + 1) - 1 = r[i]
      BY <2>1
    <3> QED
      BY <3>1
  <2>3. PICK x \in S : x = K[k] /\ r[x] = r[i]
    BY <1>6, <2>2
  <2>4. i \in Nat /\ x \in Nat
    BY <1>0
  <2>5. ~(x < i) /\ ~(i < x)
    BY <1>2, <2>1, <2>3
  <2> QED
    BY <2>3, <2>4, <2>5
<1>10. \A j, k \in 1..n : j < k => K[j] < K[k]
  <2> SUFFICES ASSUME NEW j \in 1..n, NEW k \in 1..n, j < k, ~(K[j] < K[k]) PROVE FALSE
    OBVIOUS
  <2>1. PICK x \in S, y \in S : x = K[j] /\ y = K[k] /\ r[x] = j - 1 /\ r[y] = k - 1
    BY <1>6
  <2>2. x \in Nat /\ y \in Nat /\ ~(x < y)
    BY <1>0, <2>1
  <2>3. CASE y < x
    <3>1. r[y] < r[x]
      BY <1>2, <2>3
    <3> QED
      BY <2>1, <3>1
  <2>4. CASE y = x
    BY <2>1, <2>4
  <2> QED
    BY <2>2, <2>3, <2>4
<1> QED
  BY <1>8, <1>9, <1>10 DEF K

\* Numbers in order that fill a..b are a, a + 1, and so on up to b.
LEMMA InOrder ==
  ASSUME NEW n \in Nat, NEW a \in Nat, NEW b \in Int, NEW T \in [1..n -> a..b],
         \A j, k \in 1..n : j < k => T[j] < T[k],
         \A i \in a..b : \E k \in 1..n : T[k] = i
  PROVE  /\ \A k \in 1..n : T[k] = (a + k) - 1
         /\ a <= b => n = (b - a) + 1
         /\ n = 0 <=> b < a
<1>1. \A k \in 1..n : T[k] \in Nat /\ a <= T[k] /\ T[k] <= b
  OBVIOUS
<1>2. \A k \in 1..n : T[k] = (a + k) - 1
  <2> DEFINE W == {k \in 1..n : T[k] # (a + k) - 1}
  <2> SUFFICES ASSUME W # {} PROVE FALSE
    OBVIOUS
  <2>1. W \in SUBSET Nat
    OBVIOUS
  <2>2. PICK k \in W : \A j \in W : k <= j
    <3> HIDE DEF W
    <3> QED
      BY <2>1, LowestNumber
  <2>3. k \in 1..n /\ T[k] \in Nat /\ a <= T[k] /\ T[k] <= b /\ T[k] # (a + k) - 1
    BY <1>1, <2>2
  <2>4. \A j \in 1..n : j < k => T[j] = (a + j) - 1
    BY <2>2
  <2>5. CASE T[k] > (a + k) - 1
    <3>1. PICK j \in 1..n : T[j] = (a + k) - 1
      BY <2>3, <2>5
    <3>2. CASE j < k
      BY <2>3, <2>4, <3>1, <3>2
    <3>3. CASE k < j
      <4>1. T[k] < T[j]
        BY <2>3, <3>3
      <4> QED
        BY <2>3, <2>5, <3>1, <4>1
    <3> QED
      BY <2>3, <3>1, <3>2, <3>3
  <2>6. CASE T[k] < (a + k) - 1
    <3>1. k > 1 /\ k - 1 \in 1..n /\ k - 1 < k
      BY <2>3, <2>6
    <3>2. T[k - 1] = (a + (k - 1)) - 1 /\ T[k - 1] < T[k]
      BY <2>3, <2>4, <3>1
    <3> QED
      BY <2>3, <2>6, <3>1, <3>2
  <2> QED
    BY <2>3, <2>5, <2>6
<1>3. ASSUME a <= b PROVE n = (b - a) + 1
  <2>1. PICK k \in 1..n : T[k] = b
    BY <1>3
  <2>2. n \in 1..n /\ T[n] = (a + n) - 1 /\ T[n] <= b
    BY <1>1, <1>2, <2>1
  <2> QED
    BY <1>2, <2>1, <2>2
<1>4. ASSUME b < a PROVE n = 0
  <2>1. a..b = {}
    BY <1>4
  <2> QED
    BY <1>1, <1>4
<1> QED
  BY <1>2, <1>3, <1>4

\* Of consecutive numbers, the newest are the last ones and the oldest the first.
LEMMA NewestOfRun ==
  ASSUME NEW lo \in Nat, NEW hi \in Int, NEW n \in Nat \ {0}
  PROVE  Claude!Newest(lo..hi, n) = (IF hi - n >= lo THEN (hi - n) + 1 ELSE lo)..hi
<1>1. \A i \in lo..hi : Claude!Cardinality({k \in lo..hi : k > i}) = hi - i
  <2> SUFFICES ASSUME NEW i \in lo..hi
               PROVE  Claude!Cardinality({k \in lo..hi : k > i}) = hi - i
    OBVIOUS
  <2>1. {k \in lo..hi : k > i} = (i + 1)..hi
    <3>1. \A k : k \in {m \in lo..hi : m > i} <=> k \in (i + 1)..hi
      OBVIOUS
    <3> QED
      BY <3>1
  <2>2. i + 1 \in Int /\ i <= hi
    OBVIOUS
  <2>3. Cardinality((i + 1)..hi) = IF i + 1 > hi THEN 0 ELSE hi - (i + 1) + 1
    BY <2>2, FS_Interval
  <2>4. Cardinality((i + 1)..hi) = hi - i
    BY <2>2, <2>3
  <2> QED
    BY <2>1, <2>4, ClaudeCounts
<1> DEFINE a == IF hi - n >= lo THEN (hi - n) + 1 ELSE lo
<1>3. Claude!Newest(lo..hi, n) = {i \in lo..hi : hi - i < n}
  BY <1>1 DEF Claude!Newest
<1>4. {i \in lo..hi : hi - i < n} = a..hi
  <2>1. \A i : i \in {m \in lo..hi : hi - m < n} <=> i \in a..hi
    OBVIOUS
  <2> HIDE DEF a
  <2> QED
    BY <2>1
<1> QED
  BY <1>3, <1>4

LEMMA OldestOfRun ==
  ASSUME NEW lo \in Nat, NEW hi \in Int, NEW n \in Nat \ {0}
  PROVE  \E b \in Int : /\ b <= hi /\ (lo <= hi => lo <= b)
                        /\ Claude!Oldest(lo..hi, n) = lo..b
<1>1. \A i \in lo..hi : Claude!Cardinality({k \in lo..hi : k < i}) = i - lo
  <2> SUFFICES ASSUME NEW i \in lo..hi
               PROVE  Claude!Cardinality({k \in lo..hi : k < i}) = i - lo
    OBVIOUS
  <2>1. {k \in lo..hi : k < i} = lo..(i - 1)
    <3>1. \A k : k \in {m \in lo..hi : m < i} <=> k \in lo..(i - 1)
      OBVIOUS
    <3> QED
      BY <3>1
  <2>2. i - 1 \in Int /\ lo <= i
    OBVIOUS
  <2>3. Cardinality(lo..(i - 1)) = IF lo > i - 1 THEN 0 ELSE (i - 1) - lo + 1
    BY <2>2, FS_Interval
  <2>4. Cardinality(lo..(i - 1)) = i - lo
    BY <2>2, <2>3
  <2> QED
    BY <2>1, <2>4, ClaudeCounts
<1> DEFINE b == IF lo + n <= hi THEN (lo + n) - 1 ELSE hi
<1>2. b \in Int /\ b <= hi /\ (lo <= hi => lo <= b)
  OBVIOUS
<1>3. Claude!Oldest(lo..hi, n) = {i \in lo..hi : i - lo < n}
  BY <1>1 DEF Claude!Oldest
<1>4. {i \in lo..hi : i - lo < n} = lo..b
  <2>1. \A i : i \in {m \in lo..hi : m - lo < n} <=> i \in lo..b
    OBVIOUS
  <2> HIDE DEF b
  <2> QED
    BY <2>1
<1> QED
  BY <1>2, <1>3, <1>4

\* The rows of a set of events: each once, in order, as the store has it.
LEMMA RowsOfSet ==
  ASSUME NEW S \in SUBSET Nat, IsFiniteSet(S)
  PROVE  /\ Rising(Claude!RowsOf(S))
         /\ \A k \in DOMAIN Claude!RowsOf(S) :
              /\ Claude!RowsOf(S)[k].id \in S
              /\ Claude!RowsOf(S)[k].edited <=> Claude!RowsOf(S)[k].id \in changed
         /\ \A i \in S : Claude!Has(Claude!RowsOf(S), i)
<1> DEFINE R == Claude!RowsOf(S)
<1>1. PICK n \in Nat : n = Cardinality(S)
  BY FS_CardinalityType
<1>2. PICK K \in [1..n -> S] :
        /\ K = Claude!Ranked(S)
        /\ \A i \in S : \E k \in 1..n : K[k] = i
        /\ \A j, k \in 1..n : j < k => K[j] < K[k]
  BY <1>1, RankedFacts
<1>3. R = [k \in 1..n |-> [id |-> K[k], edited |-> K[k] \in changed]]
  BY <1>2 DEF Claude!RowsOf
<1>4. DOMAIN R = 1..n
  BY <1>3
<1>5. \A k \in 1..n : R[k].id = K[k] /\ R[k].edited = (K[k] \in changed) /\ R[k] \in Row
  <2> SUFFICES ASSUME NEW k \in 1..n
               PROVE  R[k].id = K[k] /\ R[k].edited = (K[k] \in changed) /\ R[k] \in Row
    OBVIOUS
  <2>1. R[k] = [id |-> K[k], edited |-> K[k] \in changed]
    BY <1>3
  <2>2. K[k] \in Nat
    BY <1>2
  <2> QED
    BY <2>1, <2>2 DEF Row
<1>6. R \in Seq(Row)
  <2>1. R \in [1..n -> Row]
    BY <1>3, <1>5
  <2> QED
    BY <2>1
<1> HIDE DEF R
<1>7. Rising(R)
  BY <1>2, <1>4, <1>5, <1>6 DEF Rising
<1>8. \A k \in DOMAIN R : R[k].id \in S /\ (R[k].edited <=> R[k].id \in changed)
  BY <1>2, <1>4, <1>5
<1>9. \A i \in S : Claude!Has(R, i)
  BY <1>2, <1>4, <1>5 DEF Claude!Has
<1> QED
  BY <1>7, <1>8, <1>9 DEF R

\* Rows in order whose numbers fill a..b.
LEMMA RisingFills ==
  ASSUME NEW R, Rising(R), NEW a \in Nat, NEW b \in Int,
         \A k \in DOMAIN R : R[k].id \in a..b,
         \A i \in a..b : Claude!Has(R, i)
  PROVE  /\ Run(R, a)
         /\ a <= b => Len(R) = (b - a) + 1
         /\ R = <<>> <=> b < a
         /\ R # <<>> => R[1].id = a /\ Claude!End(R) = b
<1>1. R \in Seq(Row) /\ \A j, k \in DOMAIN R : j < k => R[j].id < R[k].id
  BY DEF Rising
<1>2. PICK n \in Nat : n = Len(R) /\ DOMAIN R = 1..n
  BY <1>1
<1> DEFINE T == [k \in 1..n |-> R[k].id]
<1>3. T \in [1..n -> a..b]
  BY <1>2
<1>4. \A j, k \in 1..n : j < k => T[j] < T[k]
  BY <1>1, <1>2
<1>5. \A i \in a..b : \E k \in 1..n : T[k] = i
  BY <1>2 DEF Claude!Has
<1>6. \A k \in 1..n : T[k] = R[k].id
  OBVIOUS
<1> HIDE DEF T
<1>7. /\ \A k \in 1..n : T[k] = (a + k) - 1
      /\ a <= b => n = (b - a) + 1
      /\ n = 0 <=> b < a
  BY <1>3, <1>4, <1>5, InOrder
<1>8. Run(R, a)
  BY <1>1, <1>2, <1>6, <1>7 DEF Run
<1>9. R = <<>> <=> n = 0
  BY <1>1, <1>2
<1>10. ASSUME R # <<>> PROVE R[1].id = a /\ Claude!End(R) = b
  <2>1. 1 \in 1..n /\ n \in 1..n /\ n = (b - a) + 1
    BY <1>7, <1>9, <1>10
  <2>2. R[1].id = (a + 1) - 1 /\ R[n].id = (a + n) - 1
    BY <1>6, <1>7, <2>1
  <2> QED
    BY <1>2, <1>10, <2>1, <2>2 DEF Claude!End
<1> QED
  BY <1>2, <1>7, <1>8, <1>9, <1>10

\* The ends of a run.
LEMMA RunEnds ==
  ASSUME NEW R, NEW lo \in Nat, Run(R, lo), R # <<>>
  PROVE  /\ R[1].id = lo /\ Claude!End(R) = (lo + Len(R)) - 1 /\ Len(R) \in Nat \ {0}
         /\ Claude!End(R) \in Nat /\ lo <= Claude!End(R)
         /\ \A k \in DOMAIN R : R[k].id \in lo..Claude!End(R)
         /\ \A i \in lo..Claude!End(R) : Claude!Has(R, i)
<1>1. PICK n \in Nat : n = Len(R) /\ DOMAIN R = 1..n /\ n > 0
  BY DEF Run
<1>2. \A k \in 1..n : R[k].id = (lo + k) - 1
  BY <1>1 DEF Run
<1>3. 1 \in 1..n /\ n \in 1..n
  BY <1>1
<1>4. Claude!End(R) = (lo + n) - 1
  BY <1>1, <1>2, <1>3 DEF Claude!End
<1>5. R[1].id = lo
  BY <1>2, <1>3
<1>6. \A i \in lo..((lo + n) - 1) : Claude!Has(R, i)
  <2> SUFFICES ASSUME NEW i \in lo..((lo + n) - 1) PROVE \E k \in DOMAIN R : R[k].id = i
    BY DEF Claude!Has
  <2>1. (i - lo) + 1 \in 1..n /\ (lo + ((i - lo) + 1)) - 1 = i
    OBVIOUS
  <2> QED
    BY <1>1, <1>2, <2>1
<1> QED
  BY <1>1, <1>2, <1>4, <1>5, <1>6

\* Two runs, the second from where the first ends, are one.
LEMMA RunsTogether ==
  ASSUME NEW A, NEW B, NEW lo \in Nat, Run(A, lo), Run(B, lo + Len(A))
  PROVE  /\ Run(A \o B, lo) /\ Len(A \o B) = Len(A) + Len(B)
         /\ \A k \in DOMAIN (A \o B) :
              \/ \E j \in DOMAIN A : (A \o B)[k] = A[j]
              \/ \E j \in DOMAIN B : (A \o B)[k] = B[j]
<1>1. A \in Seq(Row) /\ B \in Seq(Row)
  BY DEF Run
<1>2. PICK m \in Nat, n \in Nat : m = Len(A) /\ n = Len(B) /\ DOMAIN A = 1..m /\ DOMAIN B = 1..n
  BY <1>1
<1>3. PICK C : C = A \o B
  OBVIOUS
<1>4. C \in Seq(Row) /\ Len(C) = m + n /\ DOMAIN C = 1..(m + n)
  BY <1>1, <1>2, <1>3
<1>5. \A k \in 1..(m + n) : C[k] = IF k <= m THEN A[k] ELSE B[k - m]
  BY <1>1, <1>2, <1>3
<1>6. /\ \A k \in 1..m : A[k].id = (lo + k) - 1
      /\ \A k \in 1..n : B[k].id = ((lo + m) + k) - 1
  BY <1>2 DEF Run
<1>7. \A k \in 1..(m + n) : /\ C[k].id = (lo + k) - 1
                            /\ \/ \E j \in 1..m : C[k] = A[j]
                               \/ \E j \in 1..n : C[k] = B[j]
  <2> SUFFICES ASSUME NEW k \in 1..(m + n)
               PROVE  /\ C[k].id = (lo + k) - 1
                      /\ \/ \E j \in 1..m : C[k] = A[j]
                         \/ \E j \in 1..n : C[k] = B[j]
    OBVIOUS
  <2>1. CASE k <= m
    <3>1. k \in 1..m /\ C[k] = A[k]
      BY <1>5, <2>1
    <3> QED
      BY <1>6, <3>1
  <2>2. CASE ~(k <= m)
    <3>1. k - m \in 1..n /\ C[k] = B[k - m] /\ ((lo + m) + (k - m)) - 1 = (lo + k) - 1
      BY <1>5, <2>2
    <3> QED
      BY <1>6, <3>1
  <2> QED
    BY <2>1, <2>2
<1>8. Run(C, lo)
  BY <1>4, <1>7 DEF Run
<1> QED
  BY <1>2, <1>3, <1>4, <1>7, <1>8

\* Part of a run is a run.
LEMMA PartOfRun ==
  ASSUME NEW R, NEW lo \in Nat, Run(R, lo), NEW m \in 1..Len(R), NEW n \in m..Len(R)
  PROVE  /\ Run(SubSeq(R, m, n), (lo + m) - 1) /\ SubSeq(R, m, n) # <<>>
         /\ Len(SubSeq(R, m, n)) = (n - m) + 1
         /\ \A k \in DOMAIN SubSeq(R, m, n) : \E j \in DOMAIN R : SubSeq(R, m, n)[k] = R[j]
<1>1. PICK l \in Nat : R \in Seq(Row) /\ l = Len(R) /\ DOMAIN R = 1..l
  BY DEF Run
<1>2. PICK C : C = SubSeq(R, m, n)
  OBVIOUS
<1>3. m \in 1..l /\ n \in m..l
  BY <1>1
<1>4. Len(C) = (n - m) + 1 /\ DOMAIN C = 1..((n - m) + 1)
  BY <1>1, <1>2, <1>3
<1>5. \A k \in 1..((n - m) + 1) : C[k] = R[(m + k) - 1]
  BY <1>1, <1>2, <1>3
<1>6. \A k \in 1..((n - m) + 1) : (m + k) - 1 \in 1..l
  BY <1>3
<1>7. C \in Seq(Row)
  BY <1>1, <1>2, <1>3
<1>8. \A k \in 1..((n - m) + 1) : C[k].id = (((lo + m) - 1) + k) - 1
  <2> SUFFICES ASSUME NEW k \in 1..((n - m) + 1) PROVE C[k].id = (((lo + m) - 1) + k) - 1
    OBVIOUS
  <2>1. R[(m + k) - 1].id = (lo + ((m + k) - 1)) - 1
    BY <1>1, <1>6 DEF Run
  <2> QED
    BY <1>3, <1>5, <2>1
<1>9. \A k \in DOMAIN C : \E j \in DOMAIN R : C[k] = R[j]
  BY <1>1, <1>4, <1>5, <1>6
<1>10. Run(C, (lo + m) - 1)
  BY <1>4, <1>7, <1>8 DEF Run
<1>11. C # <<>>
  BY <1>3, <1>4, <1>7
<1> QED
  BY <1>2, <1>4, <1>9, <1>10, <1>11

\* What is renewed has the same events, each as the one or the other has it.
LEMMA RenewedFacts ==
  ASSUME NEW A \in Seq(Row), NEW B \in Seq(Row)
  PROVE  /\ Claude!Renewed(A, B) \in Seq(Row)
         /\ DOMAIN Claude!Renewed(A, B) = DOMAIN A /\ Len(Claude!Renewed(A, B)) = Len(A)
         /\ \A k \in DOMAIN A :
              /\ Claude!Renewed(A, B)[k].id = A[k].id
              /\ IF Claude!Has(B, A[k].id)
                   THEN \E j \in DOMAIN B : Claude!Renewed(A, B)[k] = B[j]
                   ELSE Claude!Renewed(A, B)[k] = A[k]
<1> DEFINE C == Claude!Renewed(A, B)
<1>1. PICK n \in Nat : n = Len(A) /\ DOMAIN A = 1..n /\ \A k \in 1..n : A[k] \in Row
  OBVIOUS
<1>2. \A j \in DOMAIN B : B[j] \in Row
  OBVIOUS
<1>3. C = [k \in 1..n |-> IF Claude!Has(B, A[k].id)
                            THEN B[CHOOSE j \in DOMAIN B : B[j].id = A[k].id] ELSE A[k]]
  BY <1>1 DEF Claude!Renewed
<1>4. \A k \in 1..n :
        /\ C[k] \in Row /\ C[k].id = A[k].id
        /\ IF Claude!Has(B, A[k].id) THEN \E j \in DOMAIN B : C[k] = B[j] ELSE C[k] = A[k]
  <2> SUFFICES ASSUME NEW k \in 1..n
               PROVE  /\ C[k] \in Row /\ C[k].id = A[k].id
                      /\ IF Claude!Has(B, A[k].id) THEN \E j \in DOMAIN B : C[k] = B[j]
                           ELSE C[k] = A[k]
    OBVIOUS
  <2>1. CASE Claude!Has(B, A[k].id)
    <3>1. PICK h \in DOMAIN B : B[h].id = A[k].id
      BY <2>1 DEF Claude!Has
    <3>2. PICK j : j = CHOOSE m \in DOMAIN B : B[m].id = A[k].id
      OBVIOUS
    <3>3. j \in DOMAIN B /\ B[j].id = A[k].id
      BY <3>1, <3>2
    <3>4. C[k] = B[j]
      BY <1>3, <2>1, <3>2
    <3> QED
      BY <1>2, <2>1, <3>3, <3>4
  <2>2. CASE ~Claude!Has(B, A[k].id)
    BY <1>1, <1>3, <2>2
  <2> QED
    BY <2>1, <2>2
<1>5. DOMAIN C = 1..n
  BY <1>3
<1>6. C \in Seq(Row) /\ Len(C) = n
  <2>1. C = [k \in 1..n |-> C[k]]
    BY <1>3
  <2>2. C \in [1..n -> Row]
    <3> HIDE DEF C
    <3> QED
      BY <1>4, <2>1
  <2> HIDE DEF C
  <2> QED
    BY <1>5, <2>2
<1> HIDE DEF C
<1> QED
  BY <1>1, <1>4, <1>5, <1>6 DEF C

\* Runs with no event in common join by concatenation.
LEMMA JoinedRuns ==
  ASSUME NEW A \in Seq(Row), NEW B \in Seq(Row), \A k \in DOMAIN B : ~Claude!Has(A, B[k].id)
  PROVE  Claude!Joined(A, B) = A \o B
<1>1. PICK m \in Nat, n \in Nat : m = Len(A) /\ n = Len(B) /\ DOMAIN A = 1..m /\ DOMAIN B = 1..n
  OBVIOUS
<1>2. Claude!Renewed(A, B) = A
  <2>1. \A k \in DOMAIN A : ~Claude!Has(B, A[k].id)
    BY DEF Claude!Has
  <2>2. PICK C : C = Claude!Renewed(A, B)
    OBVIOUS
  <2>3. C \in Seq(Row) /\ Len(C) = Len(A) /\ \A k \in DOMAIN A : C[k] = A[k]
    BY <2>1, <2>2, RenewedFacts
  <2>4. C = A
    BY <1>1, <2>3
  <2> QED
    BY <2>2, <2>4
<1>3. Claude!Others(A, B) = B
  <2> DEFINE S == {k \in DOMAIN B : ~Claude!Has(A, B[k].id)}
  <2>1. S = 1..n
    BY <1>1
  <2>2. 1..n \in SUBSET Nat /\ IsFiniteSet(1..n) /\ n = Cardinality(1..n)
    <3>1. IsFiniteSet(1..n) /\ Cardinality(1..n) = IF 1 > n THEN 0 ELSE n - 1 + 1
      BY FS_Interval
    <3> QED
      BY <3>1
  <2>3. PICK K \in [1..n -> 1..n] :
          /\ K = Claude!Ranked(1..n)
          /\ \A i \in 1..n : \E k \in 1..n : K[k] = i
          /\ \A j, k \in 1..n : j < k => K[j] < K[k]
    <3>1. PICK V : V = 1..n
      OBVIOUS
    <3>2. V \in SUBSET Nat /\ IsFiniteSet(V) /\ n = Cardinality(V)
      BY <2>2, <3>1
    <3>3. /\ Claude!Ranked(V) \in [1..n -> V]
          /\ \A i \in V : \E k \in 1..n : Claude!Ranked(V)[k] = i
          /\ \A j, k \in 1..n : j < k => Claude!Ranked(V)[j] < Claude!Ranked(V)[k]
      BY <3>2, RankedFacts
    <3> QED
      BY <3>1, <3>3
  <2>4. \A k \in 1..n : K[k] = (1 + k) - 1
    <3>1. PICK a \in Nat, b \in Int : a = 1 /\ b = n
      OBVIOUS
    <3>2. K \in [1..n -> a..b] /\ \A i \in a..b : \E k \in 1..n : K[k] = i
      BY <2>3, <3>1
    <3>3. PICK T \in [1..n -> a..b] : T = K
      BY <3>2
    <3>4. \A j, k \in 1..n : j < k => T[j] < T[k]
      BY <2>3, <3>3
    <3>5. \A i \in a..b : \E k \in 1..n : T[k] = i
      BY <2>3, <3>2, <3>3
    <3>6. /\ \A k \in 1..n : T[k] = (a + k) - 1
          /\ a <= b => n = (b - a) + 1
          /\ n = 0 <=> b < a
      BY <3>4, <3>5, InOrder
    <3> QED
      BY <3>1, <3>3, <3>6
  <2>5. \A k \in 1..n : K[k] = k
    BY <2>4
  <2>6. Claude!Others(A, B) = [k \in DOMAIN K |-> B[K[k]]]
    BY <2>1, <2>3 DEF Claude!Others
  <2>7. DOMAIN K = 1..n
    BY <2>3
  <2>8. Claude!Others(A, B) = [k \in 1..n |-> B[k]]
    BY <2>5, <2>6, <2>7
  <2> QED
    BY <1>1, <2>8
<1> QED
  BY <1>2, <1>3 DEF Claude!Joined

\* The additions are the rows of a delta beyond the window, in order.
LEMMA AdditionsFacts ==
  ASSUME NEW p, Rising(p.rows), NEW e \in Nat, e = Claude!End(window),
         \A k \in DOMAIN window : window[k].id \in Nat /\ window[k].id <= e
  PROVE  /\ Rising(Claude!Additions(p))
         /\ \A k \in DOMAIN Claude!Additions(p) :
              \E j \in DOMAIN p.rows : Claude!Additions(p)[k] = p.rows[j] /\ p.rows[j].id > e
         /\ \A j \in DOMAIN p.rows :
              p.rows[j].id > e => Claude!Has(Claude!Additions(p), p.rows[j].id)
<1>1. PICK R \in Seq(Row) : R = p.rows
  BY DEF Rising
<1>2. PICK l \in Nat : l = Len(R) /\ DOMAIN R = 1..l /\ \A k \in 1..l : R[k] \in Row
  BY <1>1
<1>3. \A j, k \in 1..l : j < k => R[j].id < R[k].id
  BY <1>1, <1>2 DEF Rising
<1>4. \A k \in 1..l : R[k].id \in Nat
  BY <1>2 DEF Row
<1> DEFINE S == {k \in DOMAIN R : ~Claude!Has(window, R[k].id) /\ R[k].id > e}
           A == Claude!Additions(p)
<1>5. S \subseteq 1..l /\ S \in SUBSET Nat
  BY <1>2
<1>6. \A k \in 1..l : k \in S <=> R[k].id > e
  <2> SUFFICES ASSUME NEW k \in 1..l, R[k].id > e PROVE ~Claude!Has(window, R[k].id)
    BY <1>2
  <2> SUFFICES ASSUME NEW j \in DOMAIN window, window[j].id = R[k].id PROVE FALSE
    BY DEF Claude!Has
  <2>1. R[k].id \in Nat /\ R[k].id <= e
    BY <1>4
  <2> QED
    BY <2>1
<1>7. IsFiniteSet(S)
  <2>1. IsFiniteSet(1..l)
    BY <1>2, FS_Interval
  <2> HIDE DEF S
  <2> QED
    BY <1>5, <2>1, FS_Subset
<1>8. PICK n \in Nat : n = Cardinality(S)
  BY <1>7, FS_CardinalityType
<1>9. PICK K \in [1..n -> S] :
        /\ K = Claude!Ranked(S)
        /\ \A i \in S : \E k \in 1..n : K[k] = i
        /\ \A j, k \in 1..n : j < k => K[j] < K[k]
  <2> HIDE DEF S
  <2> QED
    BY <1>5, <1>7, <1>8, RankedFacts
<1>10. A = [m \in 1..n |-> R[K[m]]]
  BY <1>1, <1>9 DEF Claude!Additions
<1>11. \A k \in 1..n : K[k] \in S /\ K[k] \in 1..l /\ A[k] = R[K[k]] /\ A[k] \in Row
  BY <1>2, <1>5, <1>9, <1>10
<1>12. A \in Seq(Row) /\ DOMAIN A = 1..n
  <2>1. A \in [1..n -> Row] /\ DOMAIN A = 1..n
    BY <1>2, <1>5, <1>9, <1>10
  <2> QED
    BY <2>1
<1> HIDE DEF A, S
<1>13. Rising(A)
  <2>1. \A j, k \in 1..n : j < k => A[j].id < A[k].id
    BY <1>3, <1>9, <1>11
  <2> QED
    BY <1>12, <2>1 DEF Rising
<1>14. \A k \in DOMAIN A : \E j \in DOMAIN R : A[k] = R[j] /\ R[j].id > e
  BY <1>2, <1>6, <1>11, <1>12
<1>15. \A j \in DOMAIN R : R[j].id > e => Claude!Has(A, R[j].id)
  <2> SUFFICES ASSUME NEW j \in DOMAIN R, R[j].id > e
               PROVE  \E k \in DOMAIN A : A[k].id = R[j].id
    BY DEF Claude!Has
  <2>1. j \in S
    BY <1>2, <1>6
  <2>2. PICK k \in 1..n : K[k] = j
    BY <1>9, <2>1
  <2>3. A[k] = R[j] /\ k \in DOMAIN A
    BY <1>11, <1>12, <2>2
  <2> QED
    BY <2>3
<1> QED
  BY <1>1, <1>13, <1>14, <1>15 DEF A

\* What is kept of a run is a run, and its cursors are the ones it had or its new ends.
Kept(R, lo, b, a, keep) ==
  /\ window' # <<>> /\ Run(window', window'[1].id) /\ Len(window') <= Resident
  /\ window'[1].id \in Nat /\ lo <= window'[1].id
  /\ Claude!End(window') <= Claude!End(R)
  /\ back' \in {None, window'[1].id} /\ forth' \in {None, Claude!End(window')}
  /\ back' = None => b = None /\ window'[1].id = lo
  /\ forth' = None => a = None /\ Claude!End(window') = Claude!End(R)
  /\ ~keep => forth' = a
  /\ \A k \in DOMAIN window' : \E j \in DOMAIN R : window'[k] = R[j]

LEMMA EvictedRun ==
  ASSUME NEW R, NEW lo \in Nat, Run(R, lo), R # <<>>, NEW b, NEW a, NEW keep \in BOOLEAN,
         NEW limit \in Nat, limit <= Resident, NEW n, Claude!Evicted(R, b, a, keep, limit, n),
         b \in {None, lo}, a \in {None, Claude!End(R)}
  PROVE  Kept(R, lo, b, a, keep)
<1>1. PICK l \in Nat : R \in Seq(Row) /\ l = Len(R) /\ DOMAIN R = 1..l /\ l > 0
  BY DEF Run
<1>2. n \in 1..limit /\ n \in Nat /\ n > 0 /\ n <= Resident
  BY PagesAssumption DEF Claude!Evicted
<1>3. R[1].id = lo /\ Claude!End(R) = (lo + l) - 1
  BY <1>1, RunEnds
<1>4. CASE l <= n
  <2>1. window' = R /\ back' = b /\ forth' = a
    BY <1>1, <1>4 DEF Claude!Evicted
  <2>2. Claude!End(window') = Claude!End(R)
    BY <2>1 DEF Claude!End
  <2> QED
    BY <1>1, <1>2, <1>3, <1>4, <2>1, <2>2, PagesAssumption DEF Kept
<1>5. CASE ~(l <= n) /\ keep
  <2>1. PICK W : W = SubSeq(R, 1, n)
    OBVIOUS
  <2>2. 1 \in 1..Len(R) /\ n \in 1..Len(R) /\ (lo + 1) - 1 = lo /\ (n - 1) + 1 = n
    BY <1>1, <1>2, <1>5
  <2>3. /\ Run(W, lo) /\ W # <<>> /\ Len(W) = n
        /\ \A k \in DOMAIN W : \E j \in DOMAIN R : W[k] = R[j]
    BY <2>1, <2>2, PartOfRun
  <2>4. W # R
    BY <1>1, <1>5, <2>3
  <2>5. window' = W /\ back' = b /\ forth' = Claude!End(W)
    BY <1>1, <1>5, <2>1, <2>4 DEF Claude!Evicted
  <2>6. W[1].id = lo /\ Claude!End(W) = (lo + n) - 1 /\ Claude!End(W) \in Nat
    BY <2>3, RunEnds
  <2>7. Claude!End(window') = Claude!End(W)
    BY <2>5 DEF Claude!End
  <2>8. Claude!End(W) # None
    BY <2>6, PartsAssumption
  <2> QED
    BY <1>1, <1>2, <1>3, <1>5, <2>3, <2>5, <2>6, <2>7, <2>8 DEF Kept
<1>6. CASE ~(l <= n) /\ ~keep
  <2>1. PICK m \in 1..l : m = (l - n) + 1
    BY <1>2, <1>6
  <2>2. PICK W : W = SubSeq(R, m, l)
    OBVIOUS
  <2>3. m \in 1..Len(R) /\ l \in m..Len(R) /\ (l - m) + 1 = n /\ m > 1
    BY <1>1, <1>2, <1>6, <2>1
  <2>4. /\ Run(W, (lo + m) - 1) /\ W # <<>> /\ Len(W) = n
        /\ \A k \in DOMAIN W : \E j \in DOMAIN R : W[k] = R[j]
    BY <2>2, <2>3, PartOfRun
  <2>5. W # R
    BY <1>1, <1>6, <2>4
  <2>6. window' = W /\ back' = W[1].id /\ forth' = a
    <3>1. W = SubSeq(R, Len(R) - n + 1, Len(R))
      BY <1>1, <2>1, <2>2
    <3> QED
      BY <1>1, <1>6, <3>1, <2>5 DEF Claude!Evicted
  <2>7. PICK lw \in Nat : lw = (lo + m) - 1 /\ lo < lw
    BY <2>3
  <2>8. W[1].id = lw /\ Claude!End(W) = (lw + n) - 1
    BY <2>4, <2>7, RunEnds
  <2>9. Claude!End(window') = Claude!End(W)
    BY <2>6 DEF Claude!End
  <2>10. Claude!End(W) = Claude!End(R) /\ lw # None
    <3>1. (((lo + m) - 1) + n) - 1 = (lo + l) - 1
      BY <1>1, <1>2, <2>1
    <3> QED
      BY <1>3, <2>7, <2>8, <3>1, PartsAssumption
  <2> QED
    BY <1>1, <1>2, <1>3, <1>6, <2>4, <2>6, <2>7, <2>8, <2>9, <2>10 DEF Kept
<1> QED
  BY <1>4, <1>5, <1>6

\* What the store may do to its events while a window or an answer stays as it is: unless
\* its epoch ends it only gains events, and what it changes has a revision beyond.
Grows ==
  /\ revision <= revision' /\ epoch <= epoch'
  /\ epoch' = epoch =>
       /\ first' = first /\ last <= last'
       /\ \A j \in first..last' :
            \/ j <= last /\ rev'[j] = rev[j] /\ (j \in changed' <=> j \in changed)
            \/ rev'[j] > revision

LEMMA CurrentKept ==
  ASSUME LogOK, LogOK', Grows, epoch' = epoch, NEW R, NEW r \in Nat, r <= revision,
         Current(R, r)
  PROVE  Current(R, r)'
<1> SUFFICES ASSUME NEW k \in DOMAIN R
             PROVE  /\ R[k].id \in first'..last'
                    /\ (R[k].edited <=> R[k].id \in changed') \/ rev'[R[k].id] > r
  BY DEF Current
<1>1. /\ R[k].id \in first..last
      /\ (R[k].edited <=> R[k].id \in changed) \/ rev[R[k].id] > r
  BY DEF Current
<1>2. /\ first \in Nat \ {0} /\ last \in Nat /\ last' \in Nat /\ last' <= MaxRows
      /\ revision \in Nat /\ rev \in [Claude!Ids -> Nat] /\ rev' \in [Claude!Ids -> Nat]
  BY DEF LogOK
<1>3. /\ first' = first /\ last <= last'
      /\ \A j \in first..last' :
            \/ j <= last /\ rev'[j] = rev[j] /\ (j \in changed' <=> j \in changed)
            \/ rev'[j] > revision
  BY DEF Grows
<1>4. PICK i \in first..last' : i = R[k].id
  BY <1>1, <1>2, <1>3
<1>5. i \in Claude!Ids
  BY <1>2, <1>4, PagesAssumption DEF Claude!Ids
<1>6. CASE i <= last /\ rev'[i] = rev[i] /\ (i \in changed' <=> i \in changed)
  BY <1>1, <1>3, <1>4, <1>6
<1>7. CASE rev'[i] > revision
  <2>1. rev'[i] > r
    BY <1>2, <1>5, <1>7
  <2> QED
    BY <1>3, <1>4, <2>1
<1> QED
  BY <1>3, <1>4, <1>6, <1>7

LEMMA LaterKept ==
  ASSUME LogOK, LogOK', Grows, epoch' = epoch, NEW e \in Nat, NEW r \in Nat, r <= revision,
         Later(e, r)
  PROVE  Later(e, r)'
<1> SUFFICES ASSUME NEW j \in first'..last', j > e PROVE rev'[j] > r
  BY DEF Later
<1>1. /\ first \in Nat \ {0} /\ last \in Nat /\ last' \in Nat /\ last' <= MaxRows
      /\ revision \in Nat /\ rev \in [Claude!Ids -> Nat] /\ rev' \in [Claude!Ids -> Nat]
  BY DEF LogOK
<1>2. first' = first /\ last <= last'
  BY DEF Grows
<1>3. j \in Claude!Ids /\ j \in first..last'
  BY <1>1, <1>2, PagesAssumption DEF Claude!Ids
<1>4. CASE j <= last /\ rev'[j] = rev[j]
  BY <1>1, <1>3, <1>4 DEF Later
<1>5. CASE rev'[j] > revision
  BY <1>1, <1>3, <1>5
<1> QED
  BY <1>3, <1>4, <1>5 DEF Grows

LEMMA WindowKept ==
  ASSUME LogOK, LogOK', Grows, WindowOK,
         UNCHANGED <<window, known, since, back, forth, pinned>>
  PROVE  WindowOK'
<1>1. /\ known \in Nat /\ known <= epoch /\ epoch \in Nat /\ epoch' \in Nat /\ epoch <= epoch'
      /\ revision \in Nat /\ revision' \in Nat /\ revision <= revision'
      /\ since \in Nat \union {None} /\ (since # None => since <= revision)
  BY DEF LogOK, Grows, WindowOK
<1>2. Claude!End(window)' = Claude!End(window)
  BY DEF Claude!End
<1>3. ASSUME known = epoch', since # None
      PROVE  /\ Current(window, since)'
             /\ back = None => window[1].id = first'
             /\ forth = None => Later(Claude!End(window), since)'
  <2>1. epoch' = epoch /\ known = epoch /\ first' = first
    BY <1>1, <1>3 DEF Grows
  <2>2. PICK r \in Nat : r = since /\ r <= revision
    BY <1>1, <1>3
  <2>9. PICK e \in Nat : e = Claude!End(window)
    <3>1. window # <<>> /\ Run(window, window[1].id)
      BY <1>3 DEF WindowOK
    <3>2. window[1] \in Row
      BY <3>1 DEF Run
    <3>3. PICK l \in Nat : l = window[1].id
      BY <3>2 DEF Row
    <3> QED
      BY <3>1, <3>3, RunEnds
  <2>10. PICK R : R = window
    OBVIOUS
  <2>3. Current(R, r)
    BY <1>3, <2>1, <2>2, <2>10 DEF WindowOK
  <2>4. Current(R, r)'
    BY <2>1, <2>2, <2>3, <2>10, CurrentKept
  <2>5. forth = None => Later(e, r)
    BY <1>3, <2>1, <2>2, <2>9 DEF WindowOK
  <2>6. forth = None => Later(e, r)'
    BY <2>1, <2>2, <2>5, LaterKept
  <2>7. Current(window, since)'
    BY <2>2, <2>4, <2>10 DEF Current
  <2>8. forth = None => Later(Claude!End(window), since)'
    BY <1>2, <2>2, <2>6, <2>9 DEF Later
  <2> QED
    BY <1>3, <2>1, <2>7, <2>8 DEF WindowOK
<1>4. since # None => /\ window' # <<>> /\ Run(window', window'[1].id)
                      /\ window'[1].id >= 1 /\ Claude!End(window)' <= MaxRows
                      /\ Len(window') <= Resident
                      /\ back' \in {None, window'[1].id}
                      /\ forth' \in {None, Claude!End(window)'}
  BY <1>2 DEF WindowOK
<1>5. since = None => window' = <<>> /\ back' = None /\ forth' = None
  BY DEF WindowOK
<1>6. ~pinned' => forth' = None
  BY DEF WindowOK
<1> QED
  BY <1>1, <1>2, <1>3, <1>4, <1>5, <1>6 DEF WindowOK, Run

\* Of the answer that is there: what it is, whatever the request was.
LEMMA AnswerTyped ==
  ASSUME AskedOK, AnswerOK, flight.read, NEW p, p = flight.page
  PROVE  /\ p.rows \in Seq(Row) /\ p.delta \in BOOLEAN /\ p.reset \in BOOLEAN
         /\ p.revision \in Nat /\ p.epoch \in Nat
         /\ p.before \in Nat \union {None} /\ p.after \in Nat \union {None}
         /\ p.revision <= revision /\ p.epoch <= epoch /\ known <= p.epoch
         /\ since # None => since <= p.revision
         /\ Rising(p.rows) /\ \A k \in DOMAIN p.rows : p.rows[k].id \in Claude!Ids
         /\ p.epoch = epoch => Current(p.rows, p.revision)
         /\ p.delta => DeltaOK(p)
         /\ flight.to = "before" /\ ~p.reset => EarlierOK(p)
         /\ flight.to = "after" /\ ~p.reset => LaterOK(p)
         /\ ~p.delta /\ (flight.to \notin {"before", "after"} \/ p.reset) => NewestOK(p)
<1>1. flight.page \in [rows : Seq(Row), delta : BOOLEAN, reset : BOOLEAN, revision : Nat,
          epoch : Nat, before : Nat \union {None}, after : Nat \union {None}]
  BY DEF AskedOK
<1>2. /\ p.rows \in Seq(Row) /\ p.delta \in BOOLEAN /\ p.reset \in BOOLEAN
      /\ p.revision \in Nat /\ p.epoch \in Nat
      /\ p.before \in Nat \union {None} /\ p.after \in Nat \union {None}
  BY <1>1
<1>3. /\ p.revision <= revision /\ p.epoch <= epoch /\ known <= p.epoch
      /\ since # None => since <= p.revision
      /\ Rising(p.rows) /\ \A k \in DOMAIN p.rows : p.rows[k].id \in Claude!Ids
      /\ p.epoch = epoch => Current(p.rows, p.revision)
      /\ p.delta => DeltaOK(p)
  BY DEF AnswerOK
<1>4. /\ flight.to = "before" /\ ~p.reset => EarlierOK(p)
      /\ flight.to = "after" /\ ~p.reset => LaterOK(p)
      /\ ~p.delta /\ (flight.to \notin {"before", "after"} \/ p.reset) => NewestOK(p)
  BY DEF AnswerOK
<1> QED
  BY <1>2, <1>3, <1>4

\* An answer stays what it is while the store only grows.
LEMMA AnswerKept ==
  ASSUME LogOK, LogOK', Grows, WindowOK, AskedOK, AnswerOK,
         UNCHANGED <<window, known, since, back, forth, flight>>
  PROVE  AnswerOK'
<1> SUFFICES ASSUME flight.read PROVE AnswerOK'
  BY DEF AnswerOK
<1>1. PICK p : p = flight.page
  OBVIOUS
<1>2. /\ p.rows \in Seq(Row) /\ p.delta \in BOOLEAN /\ p.reset \in BOOLEAN
      /\ p.revision \in Nat /\ p.epoch \in Nat
      /\ p.before \in Nat \union {None} /\ p.after \in Nat \union {None}
      /\ p.revision <= revision /\ p.epoch <= epoch /\ known <= p.epoch
      /\ since # None => since <= p.revision
      /\ Rising(p.rows) /\ \A k \in DOMAIN p.rows : p.rows[k].id \in Claude!Ids
      /\ p.epoch = epoch => Current(p.rows, p.revision)
      /\ p.delta => DeltaOK(p)
      /\ flight.to = "before" /\ ~p.reset => EarlierOK(p)
      /\ flight.to = "after" /\ ~p.reset => LaterOK(p)
      /\ ~p.delta /\ (flight.to \notin {"before", "after"} \/ p.reset) => NewestOK(p)
  BY <1>1, AnswerTyped
<1>3. /\ epoch \in Nat /\ epoch' \in Nat /\ revision \in Nat /\ revision' \in Nat
      /\ epoch <= epoch' /\ revision <= revision'
      /\ first \in Nat \ {0} /\ last \in Nat /\ last' \in Nat /\ last' <= MaxRows
      /\ rev \in [Claude!Ids -> Nat] /\ rev' \in [Claude!Ids -> Nat]
  BY DEF LogOK, Grows
<1>4. ASSUME p.epoch = epoch' PROVE epoch' = epoch /\ p.epoch = epoch /\ first' = first
  <2>1. epoch' = epoch
    BY <1>2, <1>3, <1>4
  <2> QED
    BY <1>4, <2>1 DEF Grows
<1>15. PICK R : R = p.rows
  OBVIOUS
<1>5. PICK r \in Nat : R = p.rows /\ r = p.revision /\ r <= revision
  BY <1>2, <1>15
<1>6. ASSUME p.epoch = epoch' PROVE Current(R, r)'
  BY <1>2, <1>4, <1>5, <1>6, CurrentKept
<1>7. ASSUME NEW e \in Nat, p.epoch = epoch', Later(e, r) PROVE Later(e, r)'
  BY <1>4, <1>5, <1>7, LaterKept
<1>8. ASSUME p.delta PROVE DeltaOK(p)'
  <2>1. DeltaOK(p)
    BY <1>2, <1>8
  <2>2. ASSUME p.epoch = epoch', NEW i \in first'..last', rev'[i] > since
        PROVE  Claude!Has(p.rows, i) \/ rev'[i] > p.revision
    <3>1. i \in first..last' /\ i \in Claude!Ids
      BY <1>3, <1>4, <2>2, PagesAssumption DEF Claude!Ids
    <3>2. CASE i <= last /\ rev'[i] = rev[i]
      <4>1. i \in first..last /\ rev[i] > since
        BY <1>3, <2>2, <3>1, <3>2
      <4>2. Claude!Has(p.rows, i) \/ rev[i] > p.revision
        BY <1>4, <2>1, <2>2, <4>1 DEF DeltaOK
      <4> QED
        BY <3>2, <4>2
    <3>3. CASE rev'[i] > revision
      <4>1. rev'[i] > p.revision
        BY <1>2, <1>3, <3>1, <3>3
      <4> QED
        BY <4>1
    <3> QED
      BY <1>4, <2>2, <3>1, <3>2, <3>3 DEF Grows
  <2>3. forth' = None => \E m \in Nat : \A i \in Nat :
          i > Claude!End(window)' => (Claude!Has(p.rows, i) <=> i <= m)
    <3>1. Claude!End(window)' = Claude!End(window)
      BY DEF Claude!End
    <3> QED
      BY <2>1, <3>1 DEF DeltaOK
  <2>4. flight'.to = "refresh" /\ since' # None /\ p.epoch = known'
    BY <2>1 DEF DeltaOK
  <2> QED
    BY <2>2, <2>3, <2>4 DEF DeltaOK
<1>9. ASSUME EarlierOK(p) PROVE EarlierOK(p)'
  <2>1. p.epoch = epoch' => Current(p.rows, p.revision)'
    BY <1>5, <1>6 DEF Current
  <2>2. p.epoch = epoch' /\ p.before = None =>
          IF p.rows = <<>> THEN back' <= first' ELSE p.rows[1].id = first'
    BY <1>4, <1>9 DEF EarlierOK
  <2>3. p.rows # <<>> => Run(p.rows, p.rows[1].id) /\ Claude!End(p.rows) = back' - 1
    BY <1>9 DEF EarlierOK
  <2>4. p.epoch = known' /\ (p.before \in Nat => p.rows # <<>> /\ p.before = p.rows[1].id)
    BY <1>9 DEF EarlierOK
  <2> QED
    BY <2>1, <2>2, <2>3, <2>4 DEF EarlierOK, Run, Claude!End
<1>10. ASSUME flight.to = "after", LaterOK(p) PROVE LaterOK(p)'
  <2>1. forth \in Nat
    BY <1>10 DEF AskedOK
  <2>2. PICK e \in Nat : e = IF p.rows = <<>> THEN forth ELSE Claude!End(p.rows)
    <3>1. CASE p.rows = <<>>
      BY <2>1, <3>1
    <3>2. CASE p.rows # <<>>
      <4>1. PICK lo \in Nat : lo = forth + 1
        BY <2>1
      <4>2. Run(p.rows, lo)
        BY <1>10, <4>1 DEF LaterOK
      <4>3. Claude!End(p.rows) \in Nat
        BY <3>2, <4>2, RunEnds
      <4> QED
        BY <3>2, <4>3
    <3> QED
      BY <3>1, <3>2
  <2>3. p.epoch = epoch' /\ p.after = None => Later(e, r)'
    <3>1. p.epoch = epoch' /\ p.after = None => Later(e, r)
      BY <1>4, <1>5, <1>10, <2>2 DEF LaterOK
    <3> QED
      BY <1>7, <3>1
  <2>4. p.epoch = epoch' /\ p.after = None =>
          Later(IF p.rows = <<>> THEN forth ELSE Claude!End(p.rows), p.revision)'
    BY <1>5, <2>2, <2>3 DEF Later, Claude!End
  <2>5. p.epoch = known' /\ Run(p.rows, forth' + 1)
        /\ (p.after \in Nat => p.rows # <<>> /\ p.after = Claude!End(p.rows))
    BY <1>10 DEF LaterOK
  <2> QED
    BY <2>4, <2>5 DEF LaterOK, Run, Claude!End
<1>11. ASSUME NewestOK(p) PROVE NewestOK(p)'
  <2>1. p.rows # <<>> /\ Run(p.rows, p.rows[1].id)
    BY <1>11 DEF NewestOK
  <2>2. PICK e \in Nat : e = Claude!End(p.rows)
    <3>1. PICK lo \in Nat : lo = p.rows[1].id
      <4>1. p.rows[1] \in Row
        BY <2>1 DEF Run
      <4> QED
        BY <4>1 DEF Row
    <3> QED
      BY <2>1, <3>1, RunEnds
  <2>3. p.epoch = epoch' => Later(e, r)'
    <3>1. p.epoch = epoch' => Later(e, r)
      BY <1>4, <1>5, <1>11, <2>2 DEF NewestOK
    <3> QED
      BY <1>7, <3>1
  <2>4. p.epoch = epoch' => Later(Claude!End(p.rows), p.revision)'
    BY <1>5, <2>2, <2>3 DEF Later, Claude!End
  <2>5. p.epoch = epoch' => (p.before = None => p.rows[1].id = first')
    BY <1>4, <1>11 DEF NewestOK
  <2>6. p.after = None /\ p.before \in {None, p.rows[1].id}
    BY <1>11 DEF NewestOK
  <2> QED
    BY <2>1, <2>4, <2>5, <2>6 DEF NewestOK, Run, Claude!End
<1>12. p.epoch = epoch' => Current(p.rows, p.revision)'
  BY <1>5, <1>6 DEF Current
<1>13. PICK q : q = flight'.page /\ q = p
  BY <1>1
<1>14. /\ p.revision <= revision' /\ p.epoch <= epoch' /\ known' <= p.epoch
       /\ since' # None => since' <= p.revision
  BY <1>2, <1>3
<1> QED
  BY <1>1, <1>2, <1>8, <1>9, <1>10, <1>11, <1>12, <1>14
     DEF AnswerOK, DeltaOK, EarlierOK, LaterOK, NewestOK, Current, Later, Run, Rising, Claude!Has,
         Claude!End, Claude!Ids

\* A request that was just made, or none.
LEMMA FreshRequest ==
  ASSUME NEW to \in {None, "refresh", "before", "after", "latest"}, NEW e \in Nat,
         NEW s \in Nat \union {None}, NEW t \in Nat \union {None},
         flight' = [to |-> to, epoch |-> e, since |-> s, at |-> t, page |-> Claude!NoPage,
                    read |-> FALSE],
         to # None => e = known',
         s = (IF to = "refresh" THEN since' ELSE None),
         t = (IF to = "before" THEN back' ELSE IF to = "after" THEN forth' ELSE None),
         to \in {"before", "after"} => t # None
  PROVE  AskedOK' /\ AnswerOK'
<1>2. Claude!NoPage \in [rows : Seq(Row), delta : BOOLEAN, reset : BOOLEAN, revision : Nat,
          epoch : Nat, before : Nat \union {None}, after : Nat \union {None}]
  BY DEF Claude!NoPage
<1>3. /\ flight'.to = to /\ flight'.epoch = e /\ flight'.since = s /\ flight'.at = t
      /\ flight'.read = FALSE
  OBVIOUS
<1>4. flight' \in [to : {None, "refresh", "before", "after", "latest"}, epoch : Nat,
                  since : Nat \union {None}, at : Nat \union {None},
                  page : [rows : Seq(Row), delta : BOOLEAN, reset : BOOLEAN, revision : Nat,
                          epoch : Nat, before : Nat \union {None}, after : Nat \union {None}],
                  read : BOOLEAN]
  BY <1>2
<1>5. AskedOK'
  BY <1>3, <1>4 DEF AskedOK
<1>6. AnswerOK'
  BY <1>3 DEF AnswerOK
<1> QED
  BY <1>5, <1>6

LEMMA NoRequest ==
  ASSUME flight' = Claude!Free
  PROVE  AskedOK' /\ AnswerOK'
<1>1. flight' = [to |-> None, epoch |-> 0, since |-> None, at |-> None, page |-> Claude!NoPage,
                 read |-> FALSE]
  BY DEF Claude!Free
<1>2. None \notin {"refresh", "before", "after", "latest"}
  BY PagesAssumption
<1> QED
  BY <1>1, <1>2, FreshRequest

LEMMA RefreshRequest ==
  ASSUME flight' = [Claude!Free EXCEPT !.to = "refresh", !.since = since', !.epoch = known'],
         known' \in Nat, since' \in Nat \union {None}
  PROVE  AskedOK' /\ AnswerOK'
<1>1. PICK e \in Nat : e = known'
  OBVIOUS
<1>2. PICK s \in Nat \union {None} : s = since'
  OBVIOUS
<1>3. flight' = [to |-> "refresh", epoch |-> e, since |-> s, at |-> None,
                 page |-> Claude!NoPage, read |-> FALSE]
  BY <1>1, <1>2 DEF Claude!Free
<1> QED
  BY <1>1, <1>2, <1>3, FreshRequest

\* What a request leaves as it was.
LEMMA WindowSame ==
  ASSUME WindowOK, LogOK, UNCHANGED <<first, last, changed, rev, revision, epoch>>,
         UNCHANGED <<window, known, since, back, forth, pinned>>
  PROVE  WindowOK'
<1>1. Claude!End(window)' = Claude!End(window)
  BY DEF Claude!End
<1> QED
  BY <1>1 DEF WindowOK, Run, Current, Later

\* Of whatever asks, fails or stops asking: the window stays as it is.
LEMMA RequestStep ==
  ASSUME TranscriptOK, NEW to \in {"before", "after", "latest", "refresh"},
         Claude!Ask(to) \/ Claude!Fails \/ Claude!Hide \/ Claude!Unhide
  PROVE  TranscriptOK'
<1>1. LogOK /\ WindowOK /\ AskedOK /\ AnswerOK
  BY DEF TranscriptOK
<1>2. /\ UNCHANGED <<first, last, changed, rev, revision, epoch>>
      /\ UNCHANGED <<window, known, since, back, forth, pinned>>
  BY DEF Claude!Ask, Claude!Fails, Claude!Hide, Claude!Unhide, Claude!log, Claude!window
<1>3. WindowOK'
  BY <1>1, <1>2, WindowSame
<1>4. known \in Nat /\ since \in Nat \union {None}
      /\ back \in Nat \union {None} /\ forth \in Nat \union {None}
  <2>1. CASE since = None
    BY <1>1, <2>1 DEF WindowOK
  <2>2. CASE since # None
    <3>1. window # <<>> /\ Run(window, window[1].id)
      BY <1>1, <2>2 DEF WindowOK
    <3>2. window[1] \in Row
      BY <3>1 DEF Run
    <3>3. PICK l \in Nat : l = window[1].id
      BY <3>2 DEF Row
    <3>4. Claude!End(window) \in Nat
      BY <3>1, <3>3, RunEnds
    <3> QED
      BY <1>1, <2>2, <3>3, <3>4 DEF WindowOK
  <2> QED
    BY <2>1, <2>2
<1>5. LogOK'
  <2>1. {pinned', queued', visible'} \subseteq BOOLEAN
    <3>1. {pinned, queued, visible} \subseteq BOOLEAN
      BY <1>1 DEF LogOK
    <3> QED
      BY <1>2, <3>1 DEF Claude!Ask, Claude!Fails, Claude!Hide, Claude!Unhide, Claude!Finally
  <2>2. spent' \in 0..MaxOutside
    <3>1. spent \in 0..MaxOutside /\ (spent' = spent \/ (spent < MaxOutside /\ spent' = spent + 1))
      BY <1>1 DEF LogOK, Claude!Ask, Claude!Fails, Claude!Hide, Claude!Unhide, Claude!Inside,
                  Claude!Outside
    <3> QED
      BY <3>1, PagesAssumption
  <2> QED
    BY <1>1, <1>2, <2>1, <2>2 DEF LogOK
<1>6. CASE Claude!Ask(to)
  <2>1. CASE to = "refresh" /\ flight.to # None
    <3>1. UNCHANGED flight
      BY <1>6, <2>1 DEF Claude!Ask
    <3>2. AskedOK'
      BY <1>1, <1>2, <3>1 DEF AskedOK
    <3>3. AnswerOK'
      <4>1. Grows
        BY <1>1, <1>2 DEF Grows, LogOK
      <4> QED
        BY <1>1, <1>2, <1>5, <3>1, <4>1, AnswerKept
    <3> QED
      BY <1>3, <1>5, <3>2, <3>3 DEF TranscriptOK
  <2>2. CASE ~(to = "refresh" /\ flight.to # None)
    <3>1. PICK e \in Nat : e = known
      BY <1>4
    <3>2. PICK s \in Nat \union {None} : s = IF to = "refresh" THEN since ELSE None
      BY <1>4
    <3>3. PICK t \in Nat \union {None} :
            t = IF to = "before" THEN back ELSE IF to = "after" THEN forth ELSE None
      BY <1>4
    <3>4. flight' = [to |-> to, epoch |-> e, since |-> s, at |-> t, page |-> Claude!NoPage,
                     read |-> FALSE]
      <4>1. flight' = [Claude!Free EXCEPT !.to = to, !.epoch = known,
              !.since = IF to = "refresh" THEN since ELSE None,
              !.at = CASE to = "before" -> back [] to = "after" -> forth [] OTHER -> None]
        BY <1>6, <2>2 DEF Claude!Ask
      <4>2. (CASE to = "before" -> back [] to = "after" -> forth [] OTHER -> None) = t
        BY <3>3
      <4> QED
        BY <3>1, <3>2, <4>1, <4>2 DEF Claude!Free
    <3>5. to \in {"before", "after"} => t # None
      BY <1>6, <3>3 DEF Claude!Ask
    <3>6. AskedOK' /\ AnswerOK'
      BY <1>2, <3>1, <3>2, <3>3, <3>4, <3>5, FreshRequest
    <3> QED
      BY <1>3, <1>5, <3>6 DEF TranscriptOK
  <2> QED
    BY <2>1, <2>2
<1>7. CASE Claude!Fails \/ Claude!Hide \/ Claude!Unhide
  <2>1. flight' = Claude!Free
        \/ flight' = [Claude!Free EXCEPT !.to = "refresh", !.since = since', !.epoch = known']
    BY <1>2, <1>7 DEF Claude!Fails, Claude!Hide, Claude!Unhide, Claude!Finally, Claude!Refresh
  <2>2. AskedOK' /\ AnswerOK'
    BY <1>2, <1>4, <2>1, NoRequest, RefreshRequest
  <2> QED
    BY <1>3, <1>5, <2>2 DEF TranscriptOK
<1> QED
  BY <1>6, <1>7

LEMMA PinStep ==
  ASSUME TranscriptOK, Claude!Pin
  PROVE  TranscriptOK'
<1>1. LogOK /\ WindowOK /\ AskedOK /\ AnswerOK
  BY DEF TranscriptOK
<1>2. /\ UNCHANGED <<first, last, changed, rev, revision, epoch>>
      /\ UNCHANGED <<window, known, since, back, forth, flight, queued, visible, spent>>
      /\ pinned' = TRUE
  BY DEF Claude!Pin, Claude!log, Claude!Inside
<1>3. LogOK'
  BY <1>1, <1>2 DEF LogOK
<1>4. Claude!End(window)' = Claude!End(window)
  BY <1>2 DEF Claude!End
<1>5. WindowOK'
  BY <1>1, <1>2, <1>4 DEF WindowOK, Run, Current, Later
<1>6. AskedOK'
  BY <1>1, <1>2 DEF AskedOK
<1>7. Grows
  BY <1>1, <1>2 DEF Grows, LogOK
<1>8. AnswerOK'
  BY <1>1, <1>2, <1>3, <1>7, AnswerKept
<1> QED
  BY <1>3, <1>5, <1>6, <1>8 DEF TranscriptOK

\* Of the store: an event comes or changes, or the index starts anew.
LEMMA LogStep ==
  ASSUME TranscriptOK, Claude!Append1 \/ (\E i \in Claude!Ids : Claude!Edit(i)) \/ Claude!Restart
  PROVE  TranscriptOK'
<1>1. LogOK /\ WindowOK /\ AskedOK /\ AnswerOK
  BY DEF TranscriptOK
<1>2. UNCHANGED <<window, known, since, back, forth, pinned, flight, queued, visible>>
  BY DEF Claude!Append1, Claude!Edit, Claude!Restart, Claude!window
<1>3. /\ first \in Nat \ {0} /\ last \in Nat /\ first <= last /\ last <= MaxRows
      /\ last - first < Retained /\ changed \in SUBSET Claude!Ids /\ rev \in [Claude!Ids -> Nat]
      /\ revision \in Nat /\ epoch \in Nat /\ spent \in 0..MaxOutside
      /\ \A i \in first..last : rev[i] <= revision
  BY <1>1 DEF LogOK
<1>4. MaxRows \in Nat /\ Retained \in Nat /\ Retained > 0 /\ MaxOutside \in Nat
  BY PagesAssumption
<1>5. Claude!Ids = 1..MaxRows
  BY DEF Claude!Ids
<1>6. LogOK' /\ Grows
  <2>1. CASE Claude!Append1
    <3>1. /\ last < MaxRows /\ last' = last + 1
          /\ first' = (IF last - first + 2 > Retained THEN first + 1 ELSE first)
          /\ epoch' = (IF first' # first THEN epoch + 1 ELSE epoch)
          /\ revision' = revision + 1 /\ rev' = [rev EXCEPT ![last'] = revision']
          /\ changed' = changed /\ spent' = spent
      BY <2>1 DEF Claude!Append1, Claude!Inside
    <3>2. /\ last' \in 1..MaxRows /\ first' \in Nat \ {0} /\ first <= first' /\ first' <= last'
          /\ last' - first' < Retained
      BY <1>3, <1>4, <3>1
    <3>3. rev' \in [Claude!Ids -> Nat]
      BY <1>3, <1>5, <3>1, <3>2
    <3>4. \A j \in first..last' : IF j = last' THEN rev'[j] = revision + 1
                                    ELSE j <= last /\ rev'[j] = rev[j]
      BY <1>3, <1>4, <1>5, <3>1, <3>2
    <3>5. \A j \in first'..last' : rev'[j] <= revision'
      <4> SUFFICES ASSUME NEW j \in first'..last' PROVE rev'[j] <= revision'
        OBVIOUS
      <4>1. j \in first..last' /\ j \in Claude!Ids
        BY <1>3, <1>4, <1>5, <3>2
      <4>2. CASE j = last'
        BY <1>3, <3>1, <3>4, <4>1, <4>2
      <4>3. CASE j # last'
        <5>1. j <= last /\ rev'[j] = rev[j] /\ j \in first..last /\ rev[j] \in Nat
          BY <1>3, <3>4, <4>1, <4>3
        <5> QED
          BY <1>3, <3>1, <5>1
      <4> QED
        BY <4>2, <4>3
    <3>6. LogOK'
      <4>1. {pinned', queued', visible'} \subseteq BOOLEAN
        BY <1>1, <1>2 DEF LogOK
      <4>2. revision' \in Nat /\ epoch' \in Nat
        BY <1>3, <3>1
      <4> QED
        BY <1>3, <1>4, <3>1, <3>2, <3>3, <3>5, <4>1, <4>2 DEF LogOK, Claude!Ids
    <3>7. Grows
      <4>1. revision <= revision' /\ epoch <= epoch' /\ (epoch' = epoch => first' = first)
            /\ last <= last'
        BY <1>3, <3>1
      <4>2. \A j \in first..last' :
              \/ j <= last /\ rev'[j] = rev[j] /\ (j \in changed' <=> j \in changed)
              \/ rev'[j] > revision
        BY <1>3, <3>1, <3>4
      <4> QED
        BY <4>1, <4>2 DEF Grows
    <3> QED
      BY <3>6, <3>7
  <2>2. ASSUME NEW i \in Claude!Ids, Claude!Edit(i) PROVE LogOK' /\ Grows
    <3>1. /\ i \in first..last /\ changed' = changed \union {i}
          /\ revision' = revision + 1 /\ rev' = [rev EXCEPT ![i] = revision']
          /\ spent < MaxOutside /\ spent' = spent + 1
          /\ UNCHANGED <<first, last, epoch>>
      BY <2>2 DEF Claude!Edit, Claude!Outside
    <3>2. rev' \in [Claude!Ids -> Nat]
      BY <1>3, <3>1
    <3>3. \A j \in first..last : IF j = i THEN rev'[j] = revision + 1 ELSE rev'[j] = rev[j]
      BY <1>3, <1>4, <1>5, <3>1
    <3>4. \A j \in first'..last' : rev'[j] <= revision'
      <4> SUFFICES ASSUME NEW j \in first..last PROVE rev'[j] <= revision'
        BY <3>1
      <4>1. rev[j] \in Nat /\ rev[j] <= revision
        BY <1>3, <1>4, <1>5
      <4> QED
        BY <1>3, <3>1, <3>3, <4>1
    <3>5. spent' \in 0..MaxOutside /\ changed' \in SUBSET Claude!Ids /\ revision' \in Nat
      BY <1>3, <1>4, <3>1
    <3>6. {pinned', queued', visible'} \subseteq BOOLEAN
      BY <1>1, <1>2 DEF LogOK
    <3>7. LogOK'
      BY <1>3, <3>1, <3>2, <3>4, <3>5, <3>6 DEF LogOK
    <3>8. Grows
      <4>1. \A j \in first..last' :
              \/ j <= last /\ rev'[j] = rev[j] /\ (j \in changed' <=> j \in changed)
              \/ rev'[j] > revision
        BY <1>3, <3>1, <3>3
      <4>2. revision <= revision' /\ epoch <= epoch' /\ first' = first /\ last <= last'
        BY <1>3, <3>1
      <4> QED
        BY <4>1, <4>2 DEF Grows
    <3> QED
      BY <3>7, <3>8
  <2>3. CASE Claude!Restart
    <3>1. /\ epoch' = epoch + 1 /\ spent < MaxOutside /\ spent' = spent + 1
          /\ UNCHANGED <<first, last, changed, rev, revision>>
      BY <2>3 DEF Claude!Restart, Claude!Outside
    <3>2. spent' \in 0..MaxOutside /\ epoch' \in Nat
      BY <1>3, <1>4, <3>1
    <3>3. LogOK'
      BY <1>1, <1>2, <3>1, <3>2 DEF LogOK
    <3>4. Grows
      BY <1>3, <3>1 DEF Grows
    <3> QED
      BY <3>3, <3>4
  <2> QED
    BY <2>1, <2>2, <2>3
<1>7. WindowOK'
  BY <1>1, <1>2, <1>6, WindowKept
<1>8. AnswerOK'
  BY <1>1, <1>2, <1>6, AnswerKept
<1>9. AskedOK'
  BY <1>1, <1>2 DEF AskedOK
<1> QED
  BY <1>6, <1>7, <1>8, <1>9 DEF TranscriptOK

LEMMA ClaudeInit ==
  ASSUME Claude!Init
  PROVE  TranscriptOK
<1>1. /\ last \in 1..Retained /\ first = 1 /\ changed = {}
      /\ rev = [i \in Claude!Ids |-> i] /\ revision = last /\ epoch = 1
      /\ window = <<>> /\ known = 0 /\ since = None /\ back = None /\ forth = None
      /\ pinned = FALSE /\ flight = [Claude!Free EXCEPT !.to = "refresh"] /\ queued = FALSE
      /\ visible = TRUE /\ spent = 0
  BY DEF Claude!Init
<1>2. MaxRows \in Nat /\ Retained \in Nat /\ Retained <= MaxRows /\ MaxOutside \in Nat
      /\ None \notin {"refresh", "before", "after", "latest"}
  BY PagesAssumption
<1>3. LogOK
  <2>1. rev \in [Claude!Ids -> Nat] /\ \A i \in first..last : rev[i] <= revision
    BY <1>1, <1>2 DEF Claude!Ids
  <2>2. {pinned, queued, visible} \subseteq BOOLEAN
    BY <1>1
  <2>3. changed \in SUBSET Claude!Ids
    BY <1>1
  <2>4. first \in Nat \ {0} /\ last \in Nat /\ first <= last /\ last <= MaxRows
        /\ last - first < Retained /\ revision \in Nat /\ epoch \in Nat
        /\ spent \in 0..MaxOutside
    BY <1>1, <1>2
  <2> QED
    BY <2>1, <2>2, <2>3, <2>4 DEF LogOK
<1>4. WindowOK
  BY <1>1 DEF WindowOK
<1>5. flight = [to |-> "refresh", epoch |-> 0, since |-> None, at |-> None,
                page |-> Claude!NoPage, read |-> FALSE]
  BY <1>1 DEF Claude!Free
<1>6. Claude!NoPage \in [rows : Seq(Row), delta : BOOLEAN, reset : BOOLEAN, revision : Nat,
          epoch : Nat, before : Nat \union {None}, after : Nat \union {None}]
  BY DEF Claude!NoPage
<1>7. AskedOK
  <2>1. flight.to = "refresh" /\ flight.epoch = 0 /\ flight.since = None /\ flight.at = None
        /\ flight.read = FALSE
    BY <1>5
  <2>2. flight \in [to : {None, "refresh", "before", "after", "latest"}, epoch : Nat,
                  since : Nat \union {None}, at : Nat \union {None},
                  page : [rows : Seq(Row), delta : BOOLEAN, reset : BOOLEAN, revision : Nat,
                          epoch : Nat, before : Nat \union {None}, after : Nat \union {None}],
                  read : BOOLEAN]
    BY <1>5, <1>6
  <2> QED
    BY <1>1, <2>1, <2>2 DEF AskedOK
<1>8. AnswerOK
  BY <1>5 DEF AnswerOK
<1> QED
  BY <1>3, <1>4, <1>7, <1>8 DEF TranscriptOK

\* What the window has, when it has something.
LEMMA WindowRun ==
  ASSUME WindowOK, since # None
  PROVE  /\ window # <<>> /\ window \in Seq(Row) /\ window[1].id \in Nat
         /\ Run(window, window[1].id) /\ Claude!End(window) \in Nat
         /\ window[1].id >= 1 /\ window[1].id <= Claude!End(window)
         /\ Claude!End(window) <= MaxRows
         /\ Claude!End(window) = (window[1].id + Len(window)) - 1
         /\ \A k \in DOMAIN window :
              /\ window[k] \in Row
              /\ window[k].id \in window[1].id..Claude!End(window)
<1>1. window # <<>> /\ Run(window, window[1].id) /\ window[1].id >= 1
      /\ Claude!End(window) <= MaxRows
  BY DEF WindowOK
<1>2. window \in Seq(Row)
  BY <1>1 DEF Run
<1>3. window[1] \in Row /\ \A k \in DOMAIN window : window[k] \in Row
  BY <1>1, <1>2
<1>4. PICK l \in Nat : l = window[1].id
  BY <1>3 DEF Row
<1> QED
  BY <1>1, <1>2, <1>3, <1>4, RunEnds

LEMMA TranscriptShown ==
  ASSUME TranscriptOK
  PROVE  Claude!TypeOK /\ Claude!TranscriptInv
<1>1. LogOK /\ WindowOK /\ AskedOK
  BY DEF TranscriptOK
<1>2. /\ first \in Nat \ {0} /\ last \in Nat /\ first <= last /\ last <= MaxRows
      /\ MaxRows \in Nat /\ Resident \in Nat
  BY <1>1, PagesAssumption DEF LogOK
<1>3. \A k \in DOMAIN window : window[k].id \in Claude!Ids /\ window[k].edited \in BOOLEAN
  <2>1. CASE since = None
    BY <1>1, <2>1 DEF WindowOK
  <2>2. CASE since # None
    <3> SUFFICES ASSUME NEW k \in DOMAIN window
                 PROVE  window[k].id \in Claude!Ids /\ window[k].edited \in BOOLEAN
      OBVIOUS
    <3>1. /\ window[k] \in Row /\ window[k].id \in window[1].id..Claude!End(window)
          /\ window[1].id \in Nat /\ Claude!End(window) \in Nat
          /\ window[1].id >= 1 /\ Claude!End(window) <= MaxRows
      BY <1>1, <2>2, WindowRun
    <3> QED
      BY <1>2, <3>1 DEF Claude!Ids, Row
  <2> QED
    BY <2>1, <2>2
<1>4. Len(window) <= Resident
  BY <1>1, <1>2 DEF WindowOK
<1>5. Claude!TypeOK
  <2>1. first \in Claude!Ids /\ last \in first..MaxRows /\ changed \subseteq Claude!Ids
        /\ last - first < Retained
    BY <1>1, <1>2 DEF LogOK, Claude!Ids
  <2>2. flight.to \in {None, "refresh", "before", "after", "latest"}
    BY <1>1 DEF AskedOK
  <2>3. {pinned, queued, visible} \subseteq BOOLEAN /\ spent \in 0..MaxOutside
    BY <1>1 DEF LogOK
  <2> QED
    BY <1>3, <1>4, <2>1, <2>2, <2>3 DEF Claude!TypeOK
<1>6. Claude!WindowWhole
  <2> SUFFICES ASSUME window # <<>>
               PROVE  /\ \A k \in 1..(Len(window) - 1) : window[k + 1].id = window[k].id + 1
                      /\ back \in {None, window[1].id} /\ forth \in {None, Claude!End(window)}
                      /\ known = epoch =>
                           /\ back = None => window[1].id = first
                           /\ forth = None =>
                                \A i \in (Claude!End(window) + 1)..last : rev[i] > since
    BY DEF Claude!WindowWhole
  <2>1. since # None
    BY <1>1 DEF WindowOK
  <2>2. /\ window \in Seq(Row) /\ window[1].id \in Nat /\ Run(window, window[1].id)
        /\ Claude!End(window) \in Nat
        /\ \A k \in DOMAIN window : window[k].id \in window[1].id..Claude!End(window)
    BY <1>1, <2>1, WindowRun
  <2>3. \A k \in 1..(Len(window) - 1) : window[k + 1].id = window[k].id + 1
    <3>1. PICK l \in Nat : l = Len(window) /\ DOMAIN window = 1..l
      BY <2>2
    <3>2. \A k \in 1..l : window[k].id = (window[1].id + k) - 1
      BY <2>2, <3>1 DEF Run
    <3> SUFFICES ASSUME NEW k \in 1..(l - 1) PROVE window[k + 1].id = window[k].id + 1
      BY <3>1
    <3>3. k \in 1..l /\ k + 1 \in 1..l
      BY <3>1
    <3>4. window[k].id = (window[1].id + k) - 1 /\ window[k + 1].id = (window[1].id + (k + 1)) - 1
      BY <3>2, <3>3
    <3>5. PICK lo \in Nat : lo = window[1].id
      BY <2>2
    <3>6. (lo + (k + 1)) - 1 = ((lo + k) - 1) + 1
      BY <3>3
    <3> QED
      BY <3>4, <3>5, <3>6
  <2>4. back \in {None, window[1].id} /\ forth \in {None, Claude!End(window)}
    BY <1>1, <2>1 DEF WindowOK
  <2>5. ASSUME known = epoch
        PROVE  /\ back = None => window[1].id = first
               /\ forth = None => \A i \in (Claude!End(window) + 1)..last : rev[i] > since
    <3>1. /\ back = None => window[1].id = first
          /\ forth = None => Later(Claude!End(window), since)
          /\ Current(window, since)
      BY <1>1, <2>1, <2>5 DEF WindowOK
    <3>2. Claude!End(window) >= first
      <4>1. window # <<>> /\ Claude!End(window) = window[Len(window)].id
        BY DEF Claude!End
      <4>2. Len(window) \in DOMAIN window
        BY <2>2, <4>1
      <4>3. window[Len(window)].id \in first..last
        BY <3>1, <4>2 DEF Current
      <4> QED
        BY <1>2, <4>1, <4>3
    <3>3. ASSUME forth = None, NEW i \in (Claude!End(window) + 1)..last PROVE rev[i] > since
      <4>1. i \in first..last /\ i > Claude!End(window)
        BY <1>2, <2>2, <3>2, <3>3
      <4> QED
        BY <3>1, <3>3, <4>1 DEF Later
    <3> QED
      BY <3>1, <3>3
  <2> QED
    BY <2>3, <2>4, <2>5
<1>7. Claude!WindowCurrent
  <2> SUFFICES ASSUME known = epoch, NEW k \in DOMAIN window
               PROVE  (window[k].edited <=> window[k].id \in changed) \/ rev[window[k].id] > since
    BY DEF Claude!WindowCurrent
  <2>1. since # None
    BY <1>1 DEF WindowOK
  <2>2. Current(window, since)
    BY <1>1, <2>1 DEF WindowOK
  <2> QED
    BY <2>2 DEF Current
<1> QED
  BY <1>5, <1>6, <1>7 DEF Claude!TranscriptInv

\* Of the newest page, or the page before or after a cursor, of the events there are.
LEMMA ReadNewest ==
  ASSUME LogOK, NEW n \in Nat \ {0}, NEW S, S = Claude!Newest(first..last, n),
         NEW p, p.rows = Claude!RowsOf(S), p.revision = revision,
         p.before = IF S # {} /\ first \notin S THEN p.rows[1].id ELSE None,
         p.after = IF S # {} /\ last \notin S THEN p.rows[Len(p.rows)].id ELSE None
  PROVE  S \in SUBSET (first..last) /\ S # {} /\ NewestOK(p)
<1>1. first \in Nat /\ last \in Nat /\ first <= last
  BY DEF LogOK
<1>2. PICK a \in Nat : first <= a /\ a <= last /\ S = a..last
  <2>5. PICK lo \in Nat : lo = first
    BY <1>1
  <2>6. PICK hi \in Int : hi = last
    BY <1>1
  <2>1. lo = first /\ hi = last
    BY <2>5, <2>6
  <2>2. PICK a \in Nat : a = IF hi - n >= lo THEN (hi - n) + 1 ELSE lo
    <3>1. (IF hi - n >= lo THEN (hi - n) + 1 ELSE lo) \in Nat
      OBVIOUS
    <3> QED
      BY <3>1
  <2>3. Claude!Newest(lo..hi, n) = a..hi
    BY <2>2, NewestOfRun
  <2>4. lo <= a /\ a <= hi
    BY <1>1, <2>1, <2>2
  <2> QED
    BY <2>1, <2>3, <2>4
<1>3. S \in SUBSET (first..last) /\ S # {} /\ S \in SUBSET Nat /\ last \in S
  BY <1>1, <1>2
<1>4. IsFiniteSet(S)
  BY <1>1, <1>2, FS_Interval
<1>5. PICK R : R = p.rows
  OBVIOUS
<1>6. /\ Rising(R) /\ \A k \in DOMAIN R : R[k].id \in S
      /\ \A i \in S : Claude!Has(R, i)
  BY <1>3, <1>4, <1>5, RowsOfSet
<1>7. Rising(R) /\ (\A k \in DOMAIN R : R[k].id \in a..last)
      /\ \A i \in a..last : Claude!Has(R, i)
  BY <1>2, <1>6
<1>8. PICK b \in Int : b = last
  BY <1>1
<1>9. Run(R, a) /\ (R = <<>> <=> b < a) /\ (R # <<>> => R[1].id = a /\ Claude!End(R) = b)
  BY <1>7, <1>8, RisingFills
<1>10. R # <<>> /\ R[1].id = a /\ Claude!End(R) = last /\ Run(R, R[1].id)
  BY <1>1, <1>2, <1>8, <1>9
<1>11. p.after = None
  BY <1>3
<1>12. p.before \in {None, R[1].id} /\ (p.before = None => R[1].id = first)
  <2>1. CASE first \notin S
    BY <1>2, <1>3, <1>5, <1>10, <2>1, PartsAssumption
  <2>2. CASE first \in S
    BY <1>1, <1>2, <1>10, <2>2
  <2> QED
    BY <2>1, <2>2
<1>13. Later(Claude!End(R), p.revision)
  BY <1>1, <1>10 DEF Later
<1> QED
  BY <1>3, <1>5, <1>10, <1>11, <1>12, <1>13 DEF NewestOK

LEMMA ReadEarlier ==
  ASSUME LogOK, NEW n \in Nat \ {0}, NEW at \in Nat, at = back, first <= at, at <= last,
         NEW S, S = Claude!Newest({i \in first..last : i < at}, n),
         NEW p, p.rows = Claude!RowsOf(S), p.revision = revision, p.epoch = known,
         Current(p.rows, p.revision),
         p.before = IF S # {} /\ first \notin S THEN p.rows[1].id ELSE None
  PROVE  EarlierOK(p)
<1>1. first \in Nat /\ last \in Nat /\ first <= last
  BY DEF LogOK
<1>2. PICK lo \in Nat : lo = first
  BY <1>1
<1>3. PICK hi \in Int : hi = at - 1
  OBVIOUS
<1>4. {i \in first..last : i < at} = lo..hi
  <2>1. \A i : i \in {k \in first..last : k < at} <=> i \in lo..hi
    BY <1>1, <1>2, <1>3
  <2> QED
    BY <2>1
<1>5. PICK a \in Nat : lo <= a /\ (lo <= hi => a <= hi) /\ Claude!Newest(lo..hi, n) = a..hi
  <2>1. PICK a \in Nat : a = IF hi - n >= lo THEN (hi - n) + 1 ELSE lo
    BY <1>2, <1>3
  <2>2. Claude!Newest(lo..hi, n) = a..hi
    BY <2>1, NewestOfRun
  <2>3. lo <= a /\ (lo <= hi => a <= hi)
    BY <1>2, <1>3, <2>1
  <2> QED
    BY <2>2, <2>3
<1>6. S = a..hi
  BY <1>4, <1>5
<1>7. S \in SUBSET (first..last) /\ S \in SUBSET Nat /\ (S = {} <=> at <= first)
  <2>1. \A i \in S : i \in first..last /\ i \in Nat
    BY <1>1, <1>2, <1>3, <1>5, <1>6
  <2>2. at <= first => \A i : i \notin S
    BY <1>1, <1>2, <1>3, <1>5, <1>6
  <2>3. ~(at <= first) => hi \in S
    BY <1>1, <1>2, <1>3, <1>5, <1>6
  <2> QED
    BY <2>1, <2>2, <2>3
<1>8. IsFiniteSet(S)
  BY <1>3, <1>5, <1>6, FS_Interval
<1>9. PICK R : R = p.rows
  OBVIOUS
<1>10. /\ Rising(R) /\ \A k \in DOMAIN R : R[k].id \in S
       /\ \A i \in S : Claude!Has(R, i)
  <2>1. S \in SUBSET Nat /\ IsFiniteSet(S)
    BY <1>7, <1>8
  <2>2. /\ Rising(Claude!RowsOf(S))
        /\ \A k \in DOMAIN Claude!RowsOf(S) :
              /\ Claude!RowsOf(S)[k].id \in S
              /\ Claude!RowsOf(S)[k].edited <=> Claude!RowsOf(S)[k].id \in changed
        /\ \A i \in S : Claude!Has(Claude!RowsOf(S), i)
    BY <2>1, RowsOfSet
  <2> QED
    BY <1>9, <2>2
<1>11. Rising(R) /\ (\A k \in DOMAIN R : R[k].id \in a..hi) /\ \A i \in a..hi : Claude!Has(R, i)
  BY <1>6, <1>10
<1>12. Run(R, a) /\ (R = <<>> <=> hi < a) /\ (R # <<>> => R[1].id = a /\ Claude!End(R) = hi)
  BY <1>11, RisingFills
<1>13. R = <<>> <=> S = {}
  <2>1. hi < a <=> a..hi = {}
    BY <1>3, <1>5
  <2> QED
    BY <1>6, <1>12, <2>1
<1>14. R # <<>> => Run(R, R[1].id) /\ Claude!End(R) = back - 1
  BY <1>3, <1>12
<1>15. p.before \in Nat => R # <<>> /\ p.before = R[1].id
  BY <1>9, <1>13, PartsAssumption
<1>16. p.before = None => IF R = <<>> THEN back <= first ELSE R[1].id = first
  <2>1. CASE S = {}
    BY <1>7, <1>13, <2>1
  <2>2. CASE S # {} /\ first \in S
    <3>1. first = a
      BY <1>1, <1>2, <1>5, <1>6, <2>2
    <3> QED
      BY <1>12, <1>13, <2>2, <3>1
  <2>3. CASE S # {} /\ first \notin S
    BY <1>5, <1>9, <1>12, <1>13, <2>3, PartsAssumption
  <2> QED
    BY <2>1, <2>2, <2>3
<1>17. EarlierOK(p)
  BY <1>9, <1>14, <1>15, <1>16 DEF EarlierOK
<1> QED
  BY <1>17

LEMMA ReadLater ==
  ASSUME LogOK, NEW n \in Nat \ {0}, NEW at \in Nat, at = forth, first <= at, at <= last,
         NEW S, S = Claude!Oldest({i \in first..last : i > at}, n),
         NEW p, p.rows = Claude!RowsOf(S), p.revision = revision, p.epoch = known,
         IF S # {} /\ last \notin S THEN p.after = p.rows[Len(p.rows)].id ELSE p.after = None
  PROVE  LaterOK(p)
<1>1. first \in Nat /\ last \in Nat /\ first <= last
  BY DEF LogOK
<1>2. PICK lo \in Nat : lo = at + 1
  OBVIOUS
<1>3. PICK hi \in Int : hi = last
  BY <1>1
<1>4. {i \in first..last : i > at} = lo..hi
  <2>1. \A i : i \in {k \in first..last : k > at} <=> i \in lo..hi
    BY <1>1, <1>2, <1>3
  <2> QED
    BY <2>1
<1>5. PICK b \in Int : b <= hi /\ (lo <= hi => lo <= b) /\ Claude!Oldest(lo..hi, n) = lo..b
  BY OldestOfRun
<1>6. S = lo..b
  BY <1>4, <1>5
<1>7. S \in SUBSET (first..last) /\ S \in SUBSET Nat /\ (S = {} <=> last <= at)
  <2>1. \A i \in S : i \in first..last /\ i \in Nat
    BY <1>1, <1>2, <1>3, <1>5, <1>6
  <2>2. last <= at => \A i : i \notin S
    BY <1>1, <1>2, <1>3, <1>5, <1>6
  <2>3. ~(last <= at) => lo \in S
    BY <1>1, <1>2, <1>3, <1>5, <1>6
  <2> QED
    BY <2>1, <2>2, <2>3
<1>8. IsFiniteSet(S)
  BY <1>2, <1>5, <1>6, FS_Interval
<1>9. PICK R : R = p.rows
  OBVIOUS
<1>10. /\ Rising(R) /\ \A k \in DOMAIN R : R[k].id \in S
       /\ \A i \in S : Claude!Has(R, i)
  <2>1. S \in SUBSET Nat /\ IsFiniteSet(S)
    BY <1>7, <1>8
  <2>2. /\ Rising(Claude!RowsOf(S))
        /\ \A k \in DOMAIN Claude!RowsOf(S) :
              /\ Claude!RowsOf(S)[k].id \in S
              /\ Claude!RowsOf(S)[k].edited <=> Claude!RowsOf(S)[k].id \in changed
        /\ \A i \in S : Claude!Has(Claude!RowsOf(S), i)
    BY <2>1, RowsOfSet
  <2> QED
    BY <1>9, <2>2
<1>11. Rising(R) /\ (\A k \in DOMAIN R : R[k].id \in lo..b) /\ \A i \in lo..b : Claude!Has(R, i)
  BY <1>6, <1>10
<1>12. Run(R, lo) /\ (R = <<>> <=> b < lo) /\ (R # <<>> => R[1].id = lo /\ Claude!End(R) = b)
  BY <1>11, RisingFills
<1>13. R = <<>> <=> S = {}
  <2>1. b < lo <=> lo..b = {}
    BY <1>2, <1>5
  <2> QED
    BY <1>6, <1>12, <2>1
<1>14. R # <<>> => R[Len(R)].id = Claude!End(R)
  BY DEF Claude!End
<1>15. p.after \in Nat => R # <<>> /\ p.after = Claude!End(R)
  BY <1>9, <1>13, <1>14, PartsAssumption
<1>16. p.after = None => Later(IF R = <<>> THEN forth ELSE Claude!End(R), p.revision)
  <2>1. CASE S = {}
    BY <1>1, <1>7, <1>13, <2>1 DEF Later
  <2>2. CASE S # {} /\ last \in S
    <3>1. last = b
      BY <1>1, <1>2, <1>3, <1>5, <1>6, <2>2
    <3> QED
      BY <1>1, <1>12, <1>13, <2>2, <3>1 DEF Later
  <2>3. CASE S # {} /\ last \notin S
    <3>1. p.after = Claude!End(R) /\ Claude!End(R) = b
      BY <1>9, <1>12, <1>13, <1>14, <2>3
    <3>2. b \in S /\ b \in Nat
      <4>1. PICK i \in S : i \in lo..b
        BY <1>6, <2>3
      <4>2. lo <= b /\ b \in Int
        BY <1>2, <1>5, <4>1
      <4> QED
        BY <1>2, <1>6, <4>2
    <3> QED
      BY <3>1, <3>2, PartsAssumption
  <2> QED
    BY <2>1, <2>2, <2>3
<1>17. LaterOK(p)
  BY <1>2, <1>9, <1>12, <1>15, <1>16 DEF LaterOK
<1> QED
  BY <1>17

LEMMA ReadDelta ==
  ASSUME LogOK, WindowOK, flight.to = "refresh", since # None, known = epoch,
         NEW S, S = {i \in first..last : rev[i] > since},
         NEW p, p.rows = Claude!RowsOf(S), p.revision = revision, p.epoch = epoch
  PROVE  S \in SUBSET (first..last) /\ DeltaOK(p)
<1>1. first \in Nat /\ last \in Nat /\ first <= last
  BY DEF LogOK
<1>2. S \in SUBSET (first..last) /\ S \in SUBSET Nat
  BY <1>1
<1>3. IsFiniteSet(S)
  <2>1. IsFiniteSet(first..last)
    BY <1>1, FS_Interval
  <2> QED
    BY <1>2, <2>1, FS_Subset
<1>4. PICK R : R = p.rows
  OBVIOUS
<1>5. (\A k \in DOMAIN R : R[k].id \in S) /\ \A i \in S : Claude!Has(R, i)
  BY <1>2, <1>3, <1>4, RowsOfSet
<1>6. \A i : Claude!Has(R, i) => i \in S
  BY <1>5 DEF Claude!Has
<1>7. forth = None => \A i \in Nat :
        i > Claude!End(window) => (Claude!Has(R, i) <=> i <= last)
  <2> SUFFICES ASSUME forth = None, NEW i \in Nat, i > Claude!End(window)
               PROVE  Claude!Has(R, i) <=> i <= last
    OBVIOUS
  <2>1. /\ window # <<>> /\ window \in Seq(Row) /\ Claude!End(window) \in Nat
        /\ Current(window, since) /\ Later(Claude!End(window), since)
    BY WindowRun DEF WindowOK
  <2>2. Claude!End(window) >= first
    <3>1. Claude!End(window) = window[Len(window)].id /\ Len(window) \in DOMAIN window
      BY <2>1 DEF Claude!End
    <3>2. window[Len(window)].id \in first..last
      BY <2>1, <3>1 DEF Current
    <3> QED
      BY <1>1, <3>1, <3>2
  <2>3. ASSUME i <= last PROVE i \in S
    <3>1. i \in first..last
      BY <1>1, <2>1, <2>2, <2>3
    <3> QED
      BY <2>1, <3>1 DEF Later
  <2>4. i \in S => i <= last
    BY <1>1, <1>2
  <2> QED
    BY <1>5, <1>6, <2>3, <2>4
<1>8. DeltaOK(p)
  BY <1>1, <1>4, <1>5, <1>7 DEF DeltaOK
<1> QED
  BY <1>2, <1>8

LEMMA ReadStep ==
  ASSUME TranscriptOK, Claude!Read
  PROVE  TranscriptOK'
<1>1. LogOK /\ WindowOK /\ AskedOK
  BY DEF TranscriptOK
<1>2. /\ UNCHANGED <<first, last, changed, rev, revision, epoch>>
      /\ UNCHANGED <<window, known, since, back, forth, pinned, queued, visible, spent>>
      /\ flight.to # None
  BY DEF Claude!Read, Claude!log, Claude!window, Claude!Inside
<1> DEFINE valid == flight.epoch = epoch
           changes == {i \in first..last : flight.since # None /\ rev[i] > flight.since}
           delta(n) == flight.since # None /\ valid /\ Claude!Cardinality(changes) <= n
           reset(n) == (flight.since # None /\ ~delta(n)) \/ (flight.at # None /\ ~valid)
           found(n) ==
             CASE delta(n) -> changes
               [] flight.at # None /\ valid /\ flight.to = "before" ->
                    Claude!Newest({i \in first..last : i < flight.at}, n)
               [] flight.at # None /\ valid /\ flight.to = "after" ->
                    Claude!Oldest({i \in first..last : i > flight.at}, n)
               [] OTHER -> Claude!Newest(first..last, n)
           page(n) ==
             [rows |-> Claude!RowsOf(found(n)), delta |-> delta(n), reset |-> reset(n),
              revision |-> revision, epoch |-> epoch,
              before |-> IF found(n) # {} /\ first \notin found(n)
                           THEN Claude!RowsOf(found(n))[1].id ELSE None,
              after |-> IF found(n) # {} /\ last \notin found(n)
                          THEN Claude!RowsOf(found(n))[Len(Claude!RowsOf(found(n)))].id
                          ELSE None]
<1>3. PICK n \in 1..PageRows : flight' = [flight EXCEPT !.read = TRUE, !.page = page(n)]
  BY DEF Claude!Read
<1>4. n \in Nat \ {0}
  BY <1>3, PagesAssumption
<1>5. PICK S : S = found(n)
  OBVIOUS
<1>6. PICK d \in BOOLEAN : d = delta(n)
  OBVIOUS
<1>7. PICK z \in BOOLEAN : z = reset(n)
  OBVIOUS
<1>8. PICK p : p = page(n)
  OBVIOUS
<1>9. p = [rows |-> Claude!RowsOf(S), delta |-> d, reset |-> z,
           revision |-> revision, epoch |-> epoch,
           before |-> IF S # {} /\ first \notin S THEN Claude!RowsOf(S)[1].id ELSE None,
           after |-> IF S # {} /\ last \notin S
                       THEN Claude!RowsOf(S)[Len(Claude!RowsOf(S))].id ELSE None]
  BY <1>5, <1>6, <1>7, <1>8
<1>10. /\ d <=> flight.since # None /\ valid /\ Claude!Cardinality(changes) <= n
       /\ z <=> (flight.since # None /\ ~d) \/ (flight.at # None /\ ~valid)
  BY <1>6, <1>7
<1>11. S = CASE d -> changes
             [] flight.at # None /\ valid /\ flight.to = "before" ->
                  Claude!Newest({i \in first..last : i < flight.at}, n)
             [] flight.at # None /\ valid /\ flight.to = "after" ->
                  Claude!Oldest({i \in first..last : i > flight.at}, n)
             [] OTHER -> Claude!Newest(first..last, n)
  BY <1>5, <1>6
<1>12. flight' = [flight EXCEPT !.read = TRUE, !.page = p]
  BY <1>3, <1>8
<1> HIDE DEF delta, reset, found, page
<1>13. /\ p.rows = Claude!RowsOf(S) /\ p.delta = d /\ p.reset = z
       /\ p.revision = revision /\ p.epoch = epoch
       /\ p.before = IF S # {} /\ first \notin S THEN p.rows[1].id ELSE None
       /\ p.after = IF S # {} /\ last \notin S THEN p.rows[Len(p.rows)].id ELSE None
  BY <1>9
<1>14. /\ flight.epoch = known
       /\ flight.since = (IF flight.to = "refresh" THEN since ELSE None)
       /\ flight.at = (IF flight.to = "before" THEN back ELSE
                         IF flight.to = "after" THEN forth ELSE None)
       /\ flight.to \in {"before", "after"} => flight.at # None
       /\ flight.at \in Nat \union {None}
       /\ flight.to \in {None, "refresh", "before", "after", "latest"}
  BY <1>1, <1>2 DEF AskedOK
<1>15. first \in Nat \ {0} /\ last \in Nat /\ first <= last /\ last <= MaxRows
       /\ revision \in Nat /\ epoch \in Nat
  BY <1>1 DEF LogOK
<1>16. ASSUME valid, flight.at # None PROVE flight.at \in Nat /\ first <= flight.at
                                            /\ flight.at <= last /\ since # None
  <2>1. since # None
    BY <1>1, <1>14, <1>16 DEF WindowOK
  <2>2. Current(window, since) /\ window # <<>> /\ window \in Seq(Row)
    BY <1>1, <1>14, <1>16, <2>1, WindowRun DEF WindowOK
  <2>3. back \in {None, window[1].id} /\ forth \in {None, Claude!End(window)}
    BY <1>1, <2>1 DEF WindowOK
  <2>4. 1 \in DOMAIN window /\ Len(window) \in DOMAIN window
        /\ Claude!End(window) = window[Len(window)].id
    BY <2>2 DEF Claude!End
  <2>5. window[1].id \in first..last /\ Claude!End(window) \in first..last
    BY <2>2, <2>4 DEF Current
  <2> QED
    BY <1>14, <1>15, <1>16, <2>1, <2>3, <2>5
<1>17. S \in SUBSET (first..last)
       /\ (d => DeltaOK(p))
       /\ (~d /\ valid /\ flight.to = "before" => (Current(p.rows, p.revision) => EarlierOK(p)))
       /\ (~d /\ valid /\ flight.to = "after" => LaterOK(p))
       /\ (~d /\ ~(valid /\ flight.to \in {"before", "after"}) => NewestOK(p))
  <2>1. CASE d
    <3>1. flight.to = "refresh" /\ since # None /\ flight.since = since /\ known = epoch
      BY <1>10, <1>14, <2>1
    <3>2. S = {i \in first..last : rev[i] > since}
      BY <1>11, <2>1, <3>1
    <3> QED
      BY <1>1, <1>13, <2>1, <3>1, <3>2, ReadDelta
  <2>2. CASE ~d /\ valid /\ flight.to = "before"
    <3>1. PICK at \in Nat : at = back /\ at = flight.at /\ first <= at /\ at <= last
      BY <1>14, <1>16, <2>2
    <3>2. S = Claude!Newest({i \in first..last : i < at}, n)
      BY <1>11, <1>14, <2>2, <3>1, PartsAssumption
    <3>3. p.epoch = known
      BY <1>13, <1>14, <2>2
    <3>4. S \in SUBSET (first..last)
      <4>1. Claude!Newest({i \in first..last : i < at}, n) \subseteq first..last
        BY DEF Claude!Newest
      <4> QED
        BY <3>2, <4>1
    <3>5. ASSUME Current(p.rows, p.revision) PROVE EarlierOK(p)
      BY <1>1, <1>4, <1>13, <3>1, <3>2, <3>3, <3>5, ReadEarlier
    <3> QED
      BY <2>2, <3>4, <3>5
  <2>3. CASE ~d /\ valid /\ flight.to = "after"
    <3>1. PICK at \in Nat : at = forth /\ at = flight.at /\ first <= at /\ at <= last
      BY <1>14, <1>16, <2>3
    <3>2. S = Claude!Oldest({i \in first..last : i > at}, n)
      BY <1>11, <1>14, <2>3, <3>1, PartsAssumption
    <3>3. p.epoch = known
      BY <1>13, <1>14, <2>3
    <3>4. /\ p.rows = Claude!RowsOf(S) /\ p.revision = revision /\ p.epoch = known
          /\ IF S # {} /\ last \notin S THEN p.after = p.rows[Len(p.rows)].id ELSE p.after = None
      BY <1>13, <3>3
    <3>5. LaterOK(p)
      BY <1>1, <1>4, <3>1, <3>2, <3>4, ReadLater
    <3>6. S \in SUBSET (first..last)
      <4>1. Claude!Oldest({i \in first..last : i > at}, n) \subseteq first..last
        BY DEF Claude!Oldest
      <4> QED
        BY <3>2, <4>1
    <3> QED
      BY <2>3, <3>5, <3>6
  <2>4. CASE ~d /\ ~(valid /\ flight.to \in {"before", "after"})
    <3>1. S = Claude!Newest(first..last, n)
      BY <1>11, <2>4
    <3> QED
      BY <1>1, <1>4, <1>13, <2>4, <3>1, ReadNewest
  <2> QED
    BY <2>1, <2>2, <2>3, <2>4
<1>18. S \in SUBSET Nat /\ IsFiniteSet(S)
  <2>1. IsFiniteSet(first..last)
    BY <1>15, FS_Interval
  <2>2. \A i \in S : i \in Nat
    BY <1>15, <1>17
  <2>3. S \in SUBSET Nat /\ S \in SUBSET (first..last)
    BY <1>17, <2>2
  <2> QED
    BY <2>1, <2>3, FS_Subset
<1>19. /\ Rising(p.rows)
       /\ \A k \in DOMAIN p.rows : /\ p.rows[k].id \in S
                                   /\ p.rows[k].edited <=> p.rows[k].id \in changed
       /\ \A i \in S : Claude!Has(p.rows, i)
  <2>1. PICK R : R = Claude!RowsOf(S)
    OBVIOUS
  <2>2. /\ Rising(R) /\ \A k \in DOMAIN R : R[k].id \in S /\ (R[k].edited <=> R[k].id \in changed)
        /\ \A i \in S : Claude!Has(R, i)
    BY <1>18, <2>1, RowsOfSet
  <2> QED
    BY <1>13, <2>1, <2>2
<1>20. Current(p.rows, p.revision)
  BY <1>17, <1>19 DEF Current
<1>21. p.rows \in Seq(Row) /\ \A k \in DOMAIN p.rows : p.rows[k].id \in Claude!Ids
  <2>1. MaxRows \in Nat
    BY PagesAssumption
  <2>2. \A i \in S : i \in 1..MaxRows
    BY <1>15, <1>17, <2>1
  <2>3. p.rows \in Seq(Row)
    BY <1>19 DEF Rising
  <2> QED
    BY <1>19, <2>2, <2>3 DEF Claude!Ids
<1>22. p.before \in Nat \union {None} /\ p.after \in Nat \union {None}
  <2>1. ASSUME S # {} PROVE p.rows[1].id \in Nat /\ p.rows[Len(p.rows)].id \in Nat
    <3>1. PICK i \in S : Claude!Has(p.rows, i)
      BY <1>19, <2>1
    <3>2. p.rows # <<>>
      BY <1>21, <3>1 DEF Claude!Has
    <3>3. 1 \in DOMAIN p.rows /\ Len(p.rows) \in DOMAIN p.rows
      BY <1>21, <3>2
    <3> QED
      BY <1>18, <1>19, <3>3
  <2> QED
    BY <1>13, <2>1
<1>23. p \in [rows : Seq(Row), delta : BOOLEAN, reset : BOOLEAN, revision : Nat,
              epoch : Nat, before : Nat \union {None}, after : Nat \union {None}]
  <2>1. p = [rows |-> p.rows, delta |-> d, reset |-> z, revision |-> revision, epoch |-> epoch,
             before |-> p.before, after |-> p.after]
    BY <1>9, <1>13
  <2> QED
    BY <1>15, <1>21, <1>22, <2>1
<1>24. /\ flight'.to = flight.to /\ flight'.epoch = flight.epoch /\ flight'.since = flight.since
       /\ flight'.at = flight.at /\ flight'.page = p /\ flight'.read = TRUE
       /\ flight' \in [to : {None, "refresh", "before", "after", "latest"}, epoch : Nat,
                  since : Nat \union {None}, at : Nat \union {None},
                  page : [rows : Seq(Row), delta : BOOLEAN, reset : BOOLEAN, revision : Nat,
                          epoch : Nat, before : Nat \union {None}, after : Nat \union {None}],
                  read : BOOLEAN]
  <2>1. flight \in [to : {None, "refresh", "before", "after", "latest"}, epoch : Nat,
                  since : Nat \union {None}, at : Nat \union {None},
                  page : [rows : Seq(Row), delta : BOOLEAN, reset : BOOLEAN, revision : Nat,
                          epoch : Nat, before : Nat \union {None}, after : Nat \union {None}],
                  read : BOOLEAN]
    BY <1>1 DEF AskedOK
  <2> HIDE DEF valid, changes
  <2> QED
    BY <1>12, <1>23, <2>1
<1>25. LogOK' /\ WindowOK'
  <2>1. LogOK'
    BY <1>1, <1>2 DEF LogOK
  <2> QED
    BY <1>1, <1>2, <2>1, WindowSame
<1>26. AskedOK'
  BY <1>1, <1>2, <1>24 DEF AskedOK
<1>27. since # None => since <= revision
  BY <1>1 DEF WindowOK
<1>28. AnswerOK'
  <2>1. /\ p.revision <= revision' /\ p.epoch <= epoch' /\ known' <= p.epoch
        /\ since' # None => since' <= p.revision
    BY <1>1, <1>2, <1>13, <1>15, <1>27 DEF WindowOK
  <2>2. Current(p.rows, p.revision)'
    BY <1>2, <1>20 DEF Current
  <2>3. p.delta => DeltaOK(p)'
    BY <1>2, <1>13, <1>17, <1>24 DEF DeltaOK, Claude!End
  <2>4. flight'.to = "before" /\ ~p.reset => EarlierOK(p)'
    <3>1. flight.to = "before" /\ ~p.reset => EarlierOK(p)
      BY <1>10, <1>13, <1>14, <1>17, <1>20
    <3> QED
      BY <1>2, <1>24, <3>1 DEF EarlierOK, Current
  <2>5. flight'.to = "after" /\ ~p.reset => LaterOK(p)'
    <3>1. flight.to = "after" /\ ~p.reset => LaterOK(p)
      BY <1>10, <1>13, <1>14, <1>17
    <3> QED
      BY <1>2, <1>24, <3>1 DEF LaterOK, Later
  <2>6. ~p.delta /\ (flight'.to \notin {"before", "after"} \/ p.reset) => NewestOK(p)'
    <3>1. ~p.delta /\ (flight.to \notin {"before", "after"} \/ p.reset) => NewestOK(p)
      BY <1>10, <1>13, <1>14, <1>17
    <3> QED
      BY <1>2, <1>24, <3>1 DEF NewestOK, Later
  <2> QED
    BY <1>19, <1>21, <1>24, <2>1, <2>2, <2>3, <2>4, <2>5, <2>6
       DEF AnswerOK, DeltaOK, EarlierOK, LaterOK, NewestOK, Current, Later, Run, Rising, Claude!Has,
           Claude!End, Claude!Ids
<1> QED
  BY <1>25, <1>26, <1>28 DEF TranscriptOK

\* A window that is what was kept of a run of rows, at a revision, is as it should be when
\* the run was.
Replaces(R, lo, b, a, keep, limit, n, r, e) ==
  /\ lo \in Nat /\ Run(R, lo) /\ R # <<>> /\ lo >= 1 /\ Claude!End(R) <= MaxRows
  /\ keep \in BOOLEAN /\ limit \in Nat /\ limit <= Resident
  /\ Claude!Evicted(R, b, a, keep, limit, n)
  /\ b \in {None, lo} /\ a \in {None, Claude!End(R)}
  /\ r \in Nat /\ r <= revision /\ e \in Nat /\ e <= epoch /\ since' = r /\ known' = e
  /\ e = epoch => /\ Current(R, r)
                  /\ b = None => lo = first
                  /\ a = None => Later(Claude!End(R), r)
  /\ ~pinned' => ~keep /\ a = None

LEMMA KeptWindow ==
  ASSUME LogOK, UNCHANGED <<first, last, changed, rev, revision, epoch>>,
         NEW R, NEW lo, NEW b, NEW a, NEW keep, NEW limit, NEW n, NEW r, NEW e,
         Replaces(R, lo, b, a, keep, limit, n, r, e)
  PROVE  WindowOK'
<1>0. /\ lo \in Nat /\ Run(R, lo) /\ R # <<>> /\ lo >= 1 /\ Claude!End(R) <= MaxRows
      /\ keep \in BOOLEAN /\ limit \in Nat /\ limit <= Resident
      /\ Claude!Evicted(R, b, a, keep, limit, n)
      /\ b \in {None, lo} /\ a \in {None, Claude!End(R)}
      /\ r \in Nat /\ r <= revision /\ e \in Nat /\ e <= epoch /\ since' = r /\ known' = e
      /\ e = epoch => /\ Current(R, r)
                      /\ b = None => lo = first
                      /\ a = None => Later(Claude!End(R), r)
      /\ ~pinned' => ~keep /\ a = None
  BY DEF Replaces
<1>14. Kept(R, lo, b, a, keep)
  BY <1>0, EvictedRun
<1>1. /\ window' # <<>> /\ Run(window', window'[1].id) /\ Len(window') <= Resident
      /\ window'[1].id \in Nat /\ lo <= window'[1].id
      /\ Claude!End(window') <= Claude!End(R)
      /\ back' \in {None, window'[1].id} /\ forth' \in {None, Claude!End(window')}
      /\ back' = None => b = None /\ window'[1].id = lo
      /\ forth' = None => a = None /\ Claude!End(window') = Claude!End(R)
      /\ ~keep => forth' = a
      /\ \A k \in DOMAIN window' : \E j \in DOMAIN R : window'[k] = R[j]
  BY <1>14 DEF Kept
<1>2. PICK l \in Nat : l = window'[1].id
  BY <1>1
<1>3. Claude!End(window') \in Nat
  <2>1. PICK W : W = window'
    OBVIOUS
  <2>2. Run(W, l) /\ W # <<>>
    BY <1>1, <1>2, <2>1
  <2>3. Claude!End(W) \in Nat
    BY <2>2, RunEnds
  <2> QED
    BY <2>1, <2>3
<1>4. Claude!End(R) \in Nat
  BY <1>0, RunEnds
<1>5. Claude!End(window)' = Claude!End(window')
  BY DEF Claude!End
<1>6. MaxRows \in Nat
  BY PagesAssumption
<1>7. since' # None /\ since' \in Nat /\ since' <= revision'
  BY <1>0, PartsAssumption
<1>8. ASSUME known' = epoch'
      PROVE  /\ Current(window, since)'
             /\ back' = None => window'[1].id = first'
             /\ forth' = None => Later(Claude!End(window), since)'
  <2>1. e = epoch
    BY <1>0, <1>8
  <2>2. Current(R, r)
    BY <1>0, <2>1
  <2>3. Current(window, since)'
    <3>1. \A k \in DOMAIN R : /\ R[k].id \in first..last
                              /\ (R[k].edited <=> R[k].id \in changed) \/ rev[R[k].id] > r
      BY <2>2 DEF Current
    <3>2. \A k \in DOMAIN window' :
            /\ window'[k].id \in first..last
            /\ (window'[k].edited <=> window'[k].id \in changed) \/ rev[window'[k].id] > r
      BY <1>1, <3>1
    <3> QED
      BY <1>0, <3>2 DEF Current
  <2>4. back' = None => window'[1].id = first'
    BY <1>0, <1>1, <2>1
  <2>5. ASSUME forth' = None PROVE Later(Claude!End(window), since)'
    <3>1. Later(Claude!End(R), r) /\ Claude!End(window)' = Claude!End(R)
      BY <1>0, <1>1, <1>5, <2>1, <2>5
    <3> QED
      BY <1>0, <3>1 DEF Later
  <2> QED
    BY <2>3, <2>4, <2>5
<1>9. window'[1].id >= 1 /\ Claude!End(window)' <= MaxRows
  BY <1>0, <1>1, <1>3, <1>4, <1>5, <1>6
<1>10. known' \in Nat /\ known' <= epoch'
  BY <1>0
<1>11. Run(window, window[1].id)' /\ (forth \in {None, Claude!End(window)})'
  BY <1>1, <1>5 DEF Run
<1>12. ~pinned' => forth' = None
  BY <1>0, <1>1
<1>13. /\ window' # <<>> /\ Len(window') <= Resident /\ back' \in {None, window'[1].id}
  BY <1>1
<1> QED
  BY <1>7, <1>8, <1>9, <1>10, <1>11, <1>12, <1>13 DEF WindowOK

\* What follows an answer that was delivered is no request, or a refresh.
LEMMA Delivered ==
  ASSUME LogOK, WindowOK', Claude!Finally,
         UNCHANGED <<first, last, changed, rev, revision, epoch, visible, spent>>,
         pinned' \in BOOLEAN
  PROVE  TranscriptOK'
<1>1. flight' = Claude!Free
      \/ flight' = [Claude!Free EXCEPT !.to = "refresh", !.since = since', !.epoch = known']
  BY DEF Claude!Finally, Claude!Refresh
<1>2. known' \in Nat /\ since' \in Nat \union {None}
  BY DEF WindowOK
<1>3. AskedOK' /\ AnswerOK'
  BY <1>1, <1>2, NoRequest, RefreshRequest
<1>4. LogOK'
  <2>1. {pinned', queued', visible'} \subseteq BOOLEAN
    BY DEF LogOK, Claude!Finally
  <2> QED
    BY <2>1 DEF LogOK
<1> QED
  BY <1>3, <1>4 DEF TranscriptOK

\* The newest page is the window.
LEMMA ReplacedStep ==
  ASSUME TranscriptOK, flight.read, NEW p, p = flight.page, NewestOK(p), Claude!Replaced(p),
         UNCHANGED <<first, last, changed, rev, revision, epoch>>
  PROVE  WindowOK'
<1>1. LogOK /\ WindowOK /\ AskedOK /\ AnswerOK
  BY DEF TranscriptOK
<1>2. /\ p.rows \in Seq(Row) /\ p.revision \in Nat /\ p.epoch \in Nat
      /\ p.revision <= revision /\ p.epoch <= epoch
      /\ Rising(p.rows) /\ \A k \in DOMAIN p.rows : p.rows[k].id \in Claude!Ids
      /\ p.epoch = epoch => Current(p.rows, p.revision)
  BY <1>1, AnswerTyped
<1>3. /\ p.rows # <<>> /\ Run(p.rows, p.rows[1].id)
      /\ p.after = None /\ p.before \in {None, p.rows[1].id}
      /\ p.epoch = epoch => /\ p.before = None => p.rows[1].id = first
                            /\ Later(Claude!End(p.rows), p.revision)
  BY DEF NewestOK
<1>4. PICK n : Claude!Evicted(p.rows, p.before, p.after, FALSE, PageRows, n)
  BY DEF Claude!Replaced
<1>5. pinned' = FALSE /\ since' = p.revision /\ known' = p.epoch
  BY DEF Claude!Replaced, Claude!Takes
<1>6. PICK R : R = p.rows
  OBVIOUS
<1>7. 1 \in DOMAIN R /\ Len(R) \in DOMAIN R /\ Claude!End(R) = R[Len(R)].id
  BY <1>2, <1>3, <1>6 DEF Claude!End
<1>8. R[1].id \in Claude!Ids /\ Claude!End(R) \in Claude!Ids
  BY <1>2, <1>6, <1>7
<1>9. PICK lo \in Nat : lo = R[1].id /\ lo >= 1
  BY <1>8, PagesAssumption DEF Claude!Ids
<1>10. Claude!End(R) <= MaxRows
  BY <1>8, PagesAssumption DEF Claude!Ids
<1>11. PageRows \in Nat /\ PageRows <= Resident
  BY PagesAssumption
<1>12. PICK r \in Nat : r = p.revision
  BY <1>2
<1>13. PICK e \in Nat : e = p.epoch
  BY <1>2
<1>14. PICK b : b = p.before
  OBVIOUS
<1>15. Claude!Evicted(R, b, None, FALSE, PageRows, n)
  BY <1>3, <1>4, <1>6, <1>14
<1>16. e = epoch => /\ Current(R, r)
                    /\ b = None => lo = first
                    /\ None = None => Later(Claude!End(R), r)
  BY <1>2, <1>3, <1>6, <1>9, <1>12, <1>13, <1>14
<1>17. Run(R, lo) /\ R # <<>> /\ b \in {None, lo} /\ None \in {None, Claude!End(R)}
  BY <1>3, <1>6, <1>9, <1>14
<1>18. r <= revision /\ e <= epoch /\ since' = r /\ known' = e
  BY <1>2, <1>5, <1>12, <1>13
<1>19. Replaces(R, lo, b, None, FALSE, PageRows, n, r, e)
  BY <1>5, <1>9, <1>10, <1>11, <1>12, <1>13, <1>15, <1>16, <1>17, <1>18 DEF Replaces
<1> QED
  BY <1>1, <1>19, KeptWindow

\* Of a delta: the rows that are there as they are now, and what comes after them.
DeltaShows(p, U, A, lo, e) ==
  /\ lo \in Nat /\ lo >= 1 /\ lo = window[1].id
  /\ e \in Nat /\ e = Claude!End(window) /\ e <= MaxRows
  /\ Run(U, lo) /\ U # <<>> /\ Claude!End(U) = e /\ e + 1 = lo + Len(U)
  /\ Rising(A) /\ \A k \in DOMAIN A : A[k].id \in Nat /\ A[k].id > e /\ A[k].id <= MaxRows
  /\ p.epoch = epoch =>
       /\ Current(U, p.revision) /\ Current(A, p.revision)
       /\ forth = None => \A j \in first..last :
            j > e => Claude!Has(A, j) \/ rev[j] > p.revision

LEMMA DeltaFacts ==
  ASSUME TranscriptOK, flight.read, NEW p, p = flight.page, p.delta
  PROVE  DeltaShows(p, Claude!Updated(p), Claude!Additions(p), window[1].id, Claude!End(window))
<1>1. LogOK /\ WindowOK /\ AskedOK /\ AnswerOK
  BY DEF TranscriptOK
<1>2. /\ p.rows \in Seq(Row) /\ p.revision \in Nat
      /\ Rising(p.rows) /\ \A k \in DOMAIN p.rows : p.rows[k].id \in Claude!Ids
      /\ p.epoch = epoch => Current(p.rows, p.revision)
      /\ DeltaOK(p)
  BY <1>1, AnswerTyped
<1>3. /\ since # None /\ p.epoch = known
      /\ p.epoch = epoch =>
           \A i \in first..last : rev[i] > since => Claude!Has(p.rows, i) \/ rev[i] > p.revision
  BY <1>2 DEF DeltaOK
<1>4. /\ window # <<>> /\ window \in Seq(Row) /\ window[1].id \in Nat
      /\ Run(window, window[1].id) /\ Claude!End(window) \in Nat
      /\ window[1].id >= 1 /\ Claude!End(window) <= MaxRows
      /\ Claude!End(window) = (window[1].id + Len(window)) - 1
      /\ \A k \in DOMAIN window :
           /\ window[k] \in Row
           /\ window[k].id \in window[1].id..Claude!End(window)
  BY <1>1, <1>3, WindowRun
<1>5. known = epoch => Current(window, since) /\ (forth = None => Later(Claude!End(window), since))
  BY <1>1, <1>3 DEF WindowOK
<1>6. PICK U : U = Claude!Updated(p)
  OBVIOUS
<1>7. PICK A : A = Claude!Additions(p)
  OBVIOUS
<1>8. PICK lo \in Nat : lo = window[1].id
  BY <1>4
<1>9. PICK e \in Nat : e = Claude!End(window)
  BY <1>4
<1>10. MaxRows \in Nat
  BY PagesAssumption
<1>11. /\ U \in Seq(Row) /\ DOMAIN U = DOMAIN window /\ Len(U) = Len(window)
       /\ \A k \in DOMAIN window :
            /\ U[k].id = window[k].id
            /\ IF Claude!Has(p.rows, window[k].id) THEN \E j \in DOMAIN p.rows : U[k] = p.rows[j]
                 ELSE U[k] = window[k]
  <2>1. PICK W \in Seq(Row) : W = window
    BY <1>4
  <2>2. PICK B \in Seq(Row) : B = p.rows
    BY <1>2
  <2>3. U = Claude!Renewed(W, B)
    BY <1>6, <2>1, <2>2 DEF Claude!Updated
  <2> QED
    BY <2>1, <2>2, <2>3, RenewedFacts
<1>12. Run(U, lo) /\ U # <<>>
  <2>1. \A k \in DOMAIN U : U[k].id = (lo + k) - 1
    BY <1>4, <1>8, <1>11 DEF Run
  <2>2. U # <<>>
    BY <1>4, <1>11
  <2> QED
    BY <1>11, <2>1, <2>2 DEF Run
<1>13. Claude!End(U) = e /\ e + 1 = lo + Len(U)
  <2>1. Claude!End(U) = (lo + Len(U)) - 1 /\ Len(U) \in Nat
    BY <1>12, RunEnds
  <2>2. e = (lo + Len(U)) - 1
    BY <1>4, <1>8, <1>9, <1>11
  <2> QED
    BY <2>1, <2>2
<1>14. /\ Rising(A)
       /\ \A k \in DOMAIN A : \E j \in DOMAIN p.rows : A[k] = p.rows[j] /\ p.rows[j].id > e
       /\ \A j \in DOMAIN p.rows : p.rows[j].id > e => Claude!Has(A, p.rows[j].id)
  <2>1. \A k \in DOMAIN window : window[k].id \in Nat /\ window[k].id <= e
    BY <1>4, <1>8, <1>9
  <2> QED
    BY <1>2, <1>7, <1>9, <2>1, AdditionsFacts
<1>15. \A k \in DOMAIN A : A[k].id \in Nat /\ A[k].id > e /\ A[k].id <= MaxRows
  <2> SUFFICES ASSUME NEW k \in DOMAIN A
               PROVE  A[k].id \in Nat /\ A[k].id > e /\ A[k].id <= MaxRows
    OBVIOUS
  <2>1. PICK j \in DOMAIN p.rows : A[k] = p.rows[j] /\ p.rows[j].id > e
    BY <1>14
  <2>2. p.rows[j].id \in 1..MaxRows
    BY <1>2, <2>1 DEF Claude!Ids
  <2> QED
    BY <1>10, <2>1, <2>2
<1>16. ASSUME p.epoch = epoch
       PROVE  /\ Current(U, p.revision) /\ Current(A, p.revision)
              /\ forth = None => \A j \in first..last :
                   j > e => Claude!Has(A, j) \/ rev[j] > p.revision
  <2>1. /\ \A k \in DOMAIN p.rows :
             /\ p.rows[k].id \in first..last
             /\ (p.rows[k].edited <=> p.rows[k].id \in changed) \/ rev[p.rows[k].id] > p.revision
        /\ \A k \in DOMAIN window :
             /\ window[k].id \in first..last
             /\ (window[k].edited <=> window[k].id \in changed) \/ rev[window[k].id] > since
        /\ \A i \in first..last : rev[i] > since => Claude!Has(p.rows, i) \/ rev[i] > p.revision
    BY <1>2, <1>3, <1>5, <1>16 DEF Current
  <2>2. Current(U, p.revision)
    <3> SUFFICES ASSUME NEW k \in DOMAIN window
                 PROVE  /\ U[k].id \in first..last
                        /\ (U[k].edited <=> U[k].id \in changed) \/ rev[U[k].id] > p.revision
      BY <1>11 DEF Current
    <3>1. CASE Claude!Has(p.rows, window[k].id)
      <4>1. PICK j \in DOMAIN p.rows : U[k] = p.rows[j]
        BY <1>11, <3>1
      <4> QED
        BY <2>1, <4>1
    <3>2. CASE ~Claude!Has(p.rows, window[k].id)
      <4>1. U[k] = window[k]
        BY <1>11, <3>2
      <4>2. rev[window[k].id] > since => rev[window[k].id] > p.revision
        BY <2>1, <3>2
      <4> QED
        BY <2>1, <4>1, <4>2
    <3> QED
      BY <3>1, <3>2
  <2>3. Current(A, p.revision)
    BY <1>14, <2>1 DEF Current
  <2>4. ASSUME forth = None, NEW j \in first..last, j > e
        PROVE  Claude!Has(A, j) \/ rev[j] > p.revision
    <3>1. rev[j] > since
      BY <1>3, <1>5, <1>9, <1>16, <2>4 DEF Later
    <3>2. CASE Claude!Has(p.rows, j)
      <4>1. PICK h \in DOMAIN p.rows : p.rows[h].id = j
        BY <3>2 DEF Claude!Has
      <4> QED
        BY <1>14, <2>4, <4>1
    <3> QED
      BY <2>1, <3>1, <3>2
  <2> QED
    BY <2>2, <2>3, <2>4
<1>17. DeltaShows(p, U, A, lo, e)
  BY <1>4, <1>8, <1>9, <1>12, <1>13, <1>14, <1>15, <1>16 DEF DeltaShows
<1> QED
  BY <1>6, <1>7, <1>8, <1>9, <1>17

LEMMA DeltaStep ==
  ASSUME TranscriptOK, flight.read, NEW p, p = flight.page, p.delta, Claude!Delta(p),
         UNCHANGED <<first, last, changed, rev, revision, epoch>>
  PROVE  WindowOK'
<1>1. LogOK /\ WindowOK /\ AskedOK /\ AnswerOK
  BY DEF TranscriptOK
<1>2. /\ p.revision \in Nat /\ p.revision <= revision /\ p.epoch \in Nat /\ p.epoch <= epoch
      /\ DeltaOK(p)
  BY <1>1, AnswerTyped
<1>3. since # None /\ p.epoch = known /\ window # <<>>
  BY <1>1, <1>2 DEF DeltaOK, WindowOK
<1>4. /\ back \in {None, window[1].id} /\ forth \in {None, Claude!End(window)}
      /\ ~pinned => forth = None
      /\ known = epoch /\ back = None => window[1].id = first
  BY <1>1, <1>3 DEF WindowOK
<1>5. PICK U : U = Claude!Updated(p)
  OBVIOUS
<1>6. PICK A : A = Claude!Additions(p)
  OBVIOUS
<1>7. PICK lo : lo = window[1].id
  OBVIOUS
<1>8. PICK e : e = Claude!End(window)
  OBVIOUS
<1>9. DeltaShows(p, U, A, lo, e)
  BY <1>5, <1>6, <1>7, <1>8, DeltaFacts
<1>10. /\ lo \in Nat /\ lo >= 1 /\ e \in Nat /\ e <= MaxRows
       /\ Run(U, lo) /\ U # <<>> /\ Claude!End(U) = e /\ e + 1 = lo + Len(U)
       /\ Rising(A) /\ \A k \in DOMAIN A : A[k].id \in Nat /\ A[k].id > e /\ A[k].id <= MaxRows
       /\ p.epoch = epoch =>
            /\ Current(U, p.revision) /\ Current(A, p.revision)
            /\ forth = None => \A j \in first..last :
                 j > e => Claude!Has(A, j) \/ rev[j] > p.revision
  BY <1>9 DEF DeltaShows
<1>11. since' = p.revision /\ known' = p.epoch /\ pinned' = pinned /\ pinned \in BOOLEAN
  BY <1>1 DEF Claude!Delta, Claude!Takes, LogOK
<1>12. PICK limit : limit = IF pinned THEN Resident ELSE PageRows
  OBVIOUS
<1>13. limit \in Nat /\ limit <= Resident
  BY <1>12, PagesAssumption
<1>14. PICK n : Claude!Evicted(IF pinned THEN U ELSE U \o A, back,
                  IF pinned /\ A # <<>> /\ window # <<>> THEN Claude!End(window) ELSE forth,
                  pinned, limit, n)
  BY <1>5, <1>6, <1>12 DEF Claude!Delta
<1>15. PICK b : b = back
  OBVIOUS
<1>16. PICK r \in Nat : r = p.revision
  BY <1>2
<1>17. PICK k \in Nat : k = p.epoch
  BY <1>2
<1>18. MaxRows \in Nat /\ first \in Nat /\ last \in Nat /\ None \notin Nat
  BY <1>1, PagesAssumption, PartsAssumption DEF LogOK
<1>19. CASE pinned
  <2>1. PICK a : a = IF A # <<>> THEN e ELSE forth
    OBVIOUS
  <2>2. Claude!Evicted(U, b, a, TRUE, limit, n)
    BY <1>3, <1>8, <1>11, <1>14, <1>15, <1>19, <2>1
  <2>3. a \in {None, Claude!End(U)} /\ b \in {None, lo}
    BY <1>4, <1>7, <1>8, <1>10, <1>15, <2>1
  <2>4. ASSUME k = epoch
        PROVE  /\ Current(U, r) /\ (b = None => lo = first)
               /\ a = None => Later(Claude!End(U), r)
    <3>1. Current(U, r) /\ (b = None => lo = first)
      BY <1>3, <1>4, <1>7, <1>10, <1>15, <1>16, <1>17, <2>4
    <3>2. ASSUME a = None PROVE Later(e, r)
      <4>1. A = <<>> /\ forth = None
        BY <1>10, <1>18, <2>1, <3>2
      <4>2. \A j : ~Claude!Has(A, j)
        BY <4>1 DEF Claude!Has
      <4> QED
        BY <1>10, <1>16, <1>17, <2>4, <4>1, <4>2 DEF Later
    <3> QED
      BY <1>10, <3>1, <3>2
  <2>5. Replaces(U, lo, b, a, TRUE, limit, n, r, k)
    BY <1>2, <1>10, <1>11, <1>13, <1>16, <1>17, <1>19, <2>2, <2>3, <2>4 DEF Replaces
  <2> QED
    BY <1>1, <2>5, KeptWindow
<1>20. CASE ~pinned
  <2>1. forth = None
    BY <1>4, <1>20
  <2>2. PICK m \in Nat : \A i \in Nat : i > e => (Claude!Has(p.rows, i) <=> i <= m)
    BY <1>2, <1>8, <2>1 DEF DeltaOK
  <2>3. \A i \in Nat : i > e => (Claude!Has(A, i) <=> i <= m)
    <3>1. /\ \A h \in DOMAIN A : \E j \in DOMAIN p.rows : A[h] = p.rows[j] /\ p.rows[j].id > e
          /\ \A j \in DOMAIN p.rows : p.rows[j].id > e => Claude!Has(A, p.rows[j].id)
      <4>1. Rising(p.rows)
        BY <1>1, AnswerTyped
      <4>2. \A h \in DOMAIN window : window[h].id \in Nat /\ window[h].id <= e
        BY <1>1, <1>3, <1>8, WindowRun
      <4> QED
        BY <1>6, <1>8, <1>10, <4>1, <4>2, AdditionsFacts
    <3> SUFFICES ASSUME NEW i \in Nat, i > e PROVE Claude!Has(A, i) <=> Claude!Has(p.rows, i)
      BY <2>2
    <3>2. Claude!Has(A, i) => Claude!Has(p.rows, i)
      BY <3>1 DEF Claude!Has
    <3>3. Claude!Has(p.rows, i) => Claude!Has(A, i)
      BY <3>1 DEF Claude!Has
    <3> QED
      BY <3>2, <3>3
  <2>4. PICK f \in Nat : f = e + 1
    BY <1>10
  <2>5. PICK g \in Int : g = m
    OBVIOUS
  <2>6. \A h \in DOMAIN A : A[h].id \in f..g
    <3> SUFFICES ASSUME NEW h \in DOMAIN A PROVE A[h].id \in f..g
      OBVIOUS
    <3>1. A[h].id \in Nat /\ A[h].id > e /\ Claude!Has(A, A[h].id)
      BY <1>10 DEF Claude!Has
    <3>2. A[h].id <= m
      BY <2>3, <3>1
    <3> QED
      BY <1>10, <2>4, <2>5, <3>1, <3>2
  <2>7. \A i \in f..g : Claude!Has(A, i)
    BY <1>10, <2>3, <2>4, <2>5
  <2>8. Run(A, f) /\ (A # <<>> => Claude!End(A) = g)
    BY <1>10, <2>6, <2>7, RisingFills
  <2>9. PICK R : R = U \o A
    OBVIOUS
  <2>10. /\ Run(R, lo) /\ Len(R) = Len(U) + Len(A)
         /\ \A h \in DOMAIN R : (\E j \in DOMAIN U : R[h] = U[j]) \/ (\E j \in DOMAIN A : R[h] = A[j])
    <3>1. Run(A, lo + Len(U))
      BY <1>10, <2>4, <2>8
    <3> QED
      BY <1>10, <2>9, <3>1, RunsTogether
  <2>11. U \in Seq(Row) /\ A \in Seq(Row) /\ Len(U) \in Nat /\ Len(A) \in Nat /\ R # <<>>
    BY <1>10, <2>8, <2>9 DEF Run
  <2>12. Claude!End(R) = e + Len(A)
    <3>1. Claude!End(R) = (lo + Len(R)) - 1
      BY <1>10, <2>10, <2>11, RunEnds
    <3>2. PICK x \in Nat : x = Len(U)
      BY <2>11
    <3>3. PICK y \in Nat : y = Len(A)
      BY <2>11
    <3>4. PICK z : z = Len(R)
      OBVIOUS
    <3>5. z = x + y /\ e + 1 = lo + x
      BY <1>10, <2>10, <3>2, <3>3, <3>4
    <3>6. (lo + z) - 1 = e + y
      BY <1>10, <3>2, <3>3, <3>5
    <3> QED
      BY <3>1, <3>3, <3>4, <3>6
  <2>13. A # <<>> => Claude!End(R) = Claude!End(A) /\ Claude!End(A) <= MaxRows
    <3> SUFFICES ASSUME A # <<>> PROVE Claude!End(R) = Claude!End(A) /\ Claude!End(A) <= MaxRows
      OBVIOUS
    <3>1. Claude!End(A) = (f + Len(A)) - 1
      BY <2>8, RunEnds
    <3>2. Claude!End(A) = A[Len(A)].id /\ Len(A) \in DOMAIN A
      BY <2>11 DEF Claude!End
    <3> QED
      BY <1>10, <2>4, <2>11, <2>12, <3>1, <3>2
  <2>14. A = <<>> => Claude!End(R) = e
    BY <1>10, <2>11, <2>12
  <2>15. Claude!End(R) <= MaxRows
    BY <1>10, <2>13, <2>14
  <2>16. Claude!Evicted(R, b, None, FALSE, limit, n)
    BY <1>11, <1>14, <1>15, <1>20, <2>1, <2>9
  <2>17. ASSUME k = epoch
         PROVE  /\ Current(R, r) /\ (b = None => lo = first) /\ Later(Claude!End(R), r)
    <3>1. Current(R, r)
      BY <1>10, <1>16, <1>17, <2>10, <2>17 DEF Current
    <3>2. b = None => lo = first
      BY <1>3, <1>4, <1>7, <1>15, <1>17, <2>17
    <3>3. ASSUME NEW j \in first..last, j > Claude!End(R) PROVE rev[j] > r
      <4>1. j \in Nat /\ j > e /\ ~(A # <<>> /\ j <= g)
        <5>1. j \in Nat
          BY <1>18
        <5>2. CASE A = <<>>
          BY <2>14, <3>3, <5>1, <5>2
        <5>3. CASE A # <<>>
          <6>1. Claude!End(R) = g /\ Claude!End(R) = e + Len(A)
            BY <2>8, <2>12, <2>13, <5>3
          <6> QED
            BY <1>10, <2>11, <3>3, <5>1, <6>1
        <5> QED
          BY <5>2, <5>3
      <4>2. ~Claude!Has(A, j)
        <5>1. Claude!Has(A, j) => A # <<>> /\ j <= g
          BY <2>3, <2>5, <4>1 DEF Claude!Has
        <5> QED
          BY <4>1, <5>1
      <4> QED
        BY <1>10, <1>16, <1>17, <2>1, <2>17, <3>3, <4>1, <4>2
    <3>4. Later(Claude!End(R), r)
      BY <3>3 DEF Later
    <3> QED
      BY <3>1, <3>2, <3>4
  <2>18. b \in {None, lo}
    BY <1>4, <1>7, <1>15
  <2>19. Replaces(R, lo, b, None, FALSE, limit, n, r, k)
    BY <1>2, <1>10, <1>11, <1>13, <1>16, <1>17, <2>10, <2>11, <2>15, <2>16, <2>17, <2>18
       DEF Replaces
  <2> QED
    BY <1>1, <2>19, KeptWindow
<1> QED
  BY <1>11, <1>19, <1>20

\* What was as the store has it at a revision was so at an earlier one.
LEMMA EarlierRevision ==
  ASSUME LogOK, NEW r \in Nat, NEW s \in Nat, s <= r
  PROVE  /\ \A R : Current(R, r) => Current(R, s)
         /\ \A i : Later(i, r) => Later(i, s)
<1>1. \A j \in first..last : rev[j] \in Nat
  <2>1. first \in Nat /\ last \in Nat /\ first >= 1 /\ last <= MaxRows /\ rev \in [Claude!Ids -> Nat]
    BY DEF LogOK
  <2>2. MaxRows \in Nat /\ Claude!Ids = 1..MaxRows
    BY PagesAssumption DEF Claude!Ids
  <2> QED
    BY <2>1, <2>2
<1>2. \A j \in first..last : rev[j] > r => rev[j] > s
  BY <1>1
<1> QED
  BY <1>2 DEF Current, Later

\* What an answer to a load beside the window finds: a window with the cursor it asked by.
LEMMA AskedBeside ==
  ASSUME TranscriptOK, flight.read, NEW p, p = flight.page,
         flight.to \in {"before", "after"}, ~p.reset, Claude!Beside(p)
  PROVE  /\ since \in Nat /\ since <= revision /\ since <= p.revision /\ p.revision \in Nat
         /\ known \in Nat /\ known <= epoch
         /\ flight.to = "before" => back # None
         /\ flight.to = "after" => forth # None
         /\ pinned' = TRUE /\ since' = since /\ known' = known
<1>1. LogOK /\ WindowOK /\ AskedOK /\ AnswerOK
  BY DEF TranscriptOK
<1>2. /\ flight.to = "before" => back # None
      /\ flight.to = "after" => forth # None
  BY <1>1 DEF AskedOK
<1>3. since # None
  BY <1>1, <1>2 DEF WindowOK
<1>4. since <= p.revision /\ p.revision \in Nat
  BY <1>1, <1>3, AnswerTyped
<1> QED
  BY <1>1, <1>2, <1>3, <1>4 DEF WindowOK, Claude!Beside

\* Earlier rows join the window before its first.
LEMMA EarlierStep ==
  ASSUME TranscriptOK, flight.read, NEW p, p = flight.page,
         flight.to = "before", ~p.reset, Claude!Beside(p),
         UNCHANGED <<first, last, changed, rev, revision, epoch>>
  PROVE  WindowOK'
<1>1. LogOK /\ WindowOK /\ AskedOK /\ AnswerOK
  BY DEF TranscriptOK
<1>2. /\ since \in Nat /\ since <= revision /\ since <= p.revision /\ p.revision \in Nat
      /\ known \in Nat /\ known <= epoch /\ back # None
      /\ pinned' = TRUE /\ since' = since /\ known' = known
  BY AskedBeside
<1>3. /\ window # <<>> /\ window \in Seq(Row) /\ Claude!End(window) \in Nat
      /\ Claude!End(window) <= MaxRows /\ window[1].id \in Nat /\ window[1].id >= 1
      /\ Run(window, window[1].id)
      /\ \A k \in DOMAIN window : window[k].id \in window[1].id..Claude!End(window)
  BY <1>1, <1>2, WindowRun, PartsAssumption
<1>4. since # None
  BY <1>2, PartsAssumption
<1>5. PICK l \in Nat : l = window[1].id /\ l >= 1
  BY <1>3
<1>6. back = l /\ forth \in {None, Claude!End(window)}
      /\ (known = epoch => Current(window, since))
      /\ (known = epoch /\ forth = None => Later(Claude!End(window), since))
  BY <1>1, <1>2, <1>4, <1>5 DEF WindowOK
<1>7. PICK P : P = p.rows
  OBVIOUS
<1>8. /\ P \in Seq(Row) /\ \A k \in DOMAIN P : P[k].id \in Claude!Ids
      /\ p.before \in Nat \union {None} /\ EarlierOK(p)
  BY <1>1, <1>7, AnswerTyped
<1>9. /\ p.epoch = known /\ (p.epoch = epoch => Current(P, p.revision))
      /\ p.before \in Nat => P # <<>> /\ p.before = P[1].id
      /\ P # <<>> => Run(P, P[1].id) /\ Claude!End(P) = back - 1
      /\ p.epoch = epoch /\ p.before = None =>
           IF P = <<>> THEN back <= first ELSE P[1].id = first
  BY <1>7, <1>8 DEF EarlierOK
<1>10. PICK n : Claude!Evicted(Claude!Joined(P, window), p.before, forth, TRUE, Resident, n)
  BY <1>7 DEF Claude!Beside
<1>11. PICK R : R = P \o window
  OBVIOUS
<1>12. PICK lo : lo = IF P = <<>> THEN l ELSE P[1].id
  OBVIOUS
<1>13. PICK b : b = p.before
  OBVIOUS
<1>14. PICK e \in Nat : e = Claude!End(window) /\ e <= MaxRows
  BY <1>3
<1>15. PICK s \in Nat : s = since
  BY <1>2
<1>16. PICK k \in Nat : k = known
  BY <1>2
<1>17. /\ lo \in Nat /\ lo >= 1 /\ Run(R, lo) /\ R # <<>> /\ Claude!End(R) = e
       /\ Claude!Joined(P, window) = R
       /\ \A h \in DOMAIN R : (\E j \in DOMAIN P : R[h] = P[j])
                              \/ (\E j \in DOMAIN window : R[h] = window[j])
  <2>1. CASE P = <<>>
    <3>1. R = window /\ lo = l
      BY <1>3, <1>11, <1>12, <2>1
    <3>2. Claude!Joined(P, window) = R
      <4>1. \A h \in DOMAIN window : ~Claude!Has(P, window[h].id)
        BY <2>1 DEF Claude!Has
      <4> QED
        BY <1>3, <1>8, <1>11, <4>1, JoinedRuns
    <3> QED
      BY <1>3, <1>5, <1>14, <3>1, <3>2
  <2>2. CASE P # <<>>
    <3>1. 1 \in DOMAIN P
      BY <1>8, <2>2
    <3>2. lo \in Nat /\ lo >= 1
      BY <1>8, <1>12, <2>2, <3>1, PagesAssumption DEF Claude!Ids
    <3>3. Run(P, lo) /\ Claude!End(P) = l - 1
      BY <1>6, <1>9, <1>12, <2>2
    <3>4. /\ Claude!End(P) = (lo + Len(P)) - 1 /\ Len(P) \in Nat
          /\ \A j \in DOMAIN P : P[j].id \in lo..Claude!End(P)
      BY <2>2, <3>2, <3>3, RunEnds
    <3>5. lo + Len(P) = l
      BY <1>5, <3>2, <3>3, <3>4
    <3>6. Run(window, lo + Len(P))
      BY <1>3, <1>5, <3>5
    <3>7. /\ Run(R, lo) /\ Len(R) = Len(P) + Len(window)
          /\ \A h \in DOMAIN R : (\E j \in DOMAIN P : R[h] = P[j])
                                 \/ (\E j \in DOMAIN window : R[h] = window[j])
      BY <1>11, <3>2, <3>3, <3>6, RunsTogether
    <3>8. R # <<>>
      BY <1>3, <1>8, <1>11
    <3>9. Claude!End(R) = e
      <4>1. Claude!End(R) = (lo + Len(R)) - 1
        BY <3>2, <3>7, <3>8, RunEnds
      <4>2. Claude!End(window) = (l + Len(window)) - 1
        BY <1>3, <1>5, RunEnds
      <4>3. PICK x \in Nat : x = Len(P)
        BY <3>4
      <4>4. PICK y \in Nat : y = Len(window)
        BY <1>3
      <4>5. PICK z : z = Len(R)
        OBVIOUS
      <4>6. z = x + y /\ lo + x = l
        BY <3>5, <3>7, <4>3, <4>4, <4>5
      <4>7. (lo + z) - 1 = (l + y) - 1
        BY <3>2, <4>3, <4>4, <4>6
      <4> QED
        BY <1>14, <4>1, <4>2, <4>4, <4>5, <4>7
    <3>10. Claude!Joined(P, window) = R
      <4>1. \A h \in DOMAIN window : \A j \in DOMAIN P : P[j].id # window[h].id
        <5>1. PICK q \in Int : q = Claude!End(P) /\ q = l - 1
          BY <1>5, <3>3
        <5>2. \A h \in DOMAIN window : window[h].id \in l..e
          BY <1>3, <1>5, <1>14
        <5>3. \A j \in DOMAIN P : P[j].id \in lo..q
          BY <3>4, <5>1
        <5> QED
          BY <1>5, <1>14, <3>2, <5>1, <5>2, <5>3
      <4>2. \A h \in DOMAIN window : ~Claude!Has(P, window[h].id)
        BY <4>1 DEF Claude!Has
      <4> QED
        BY <1>3, <1>8, <1>11, <4>2, JoinedRuns
    <3> QED
      BY <3>2, <3>7, <3>8, <3>9, <3>10
  <2> QED
    BY <2>1, <2>2
<1>18. ASSUME k = epoch
       PROVE  Current(R, s) /\ (b = None => lo = first) /\ (forth = None => Later(e, s))
  <2>1. Current(window, s) /\ (forth = None => Later(e, s))
    BY <1>6, <1>14, <1>15, <1>16, <1>18
  <2>2. PICK r \in Nat : r = p.revision
    BY <1>2
  <2>3. Current(P, r)
    BY <1>9, <1>16, <1>18, <2>2
  <2>4. s <= r
    BY <1>2, <1>15, <2>2
  <2>5. Current(P, s)
    BY <1>1, <2>3, <2>4, EarlierRevision
  <2>6. Current(R, s)
    BY <1>17, <2>1, <2>5 DEF Current
  <2>7. ASSUME b = None PROVE lo = first
    <3>1. IF P = <<>> THEN l <= first ELSE P[1].id = first
      BY <1>6, <1>9, <1>13, <1>16, <1>18, <2>7
    <3>2. first \in Nat /\ last \in Nat
      BY <1>1 DEF LogOK
    <3>3. l \in first..last
      <4>1. 1 \in DOMAIN window
        BY <1>3
      <4> QED
        BY <1>5, <2>1, <4>1 DEF Current
    <3> QED
      BY <1>5, <1>12, <3>1, <3>2, <3>3
  <2> QED
    BY <2>1, <2>6, <2>7
<1>19. b \in {None, lo}
  BY <1>8, <1>9, <1>12, <1>13
<1>20. Claude!Evicted(R, b, forth, TRUE, Resident, n)
  BY <1>10, <1>13, <1>17
<1>21. Resident \in Nat
  BY PagesAssumption
<1>22. forth \in {None, Claude!End(R)}
  BY <1>6, <1>14, <1>17
<1>23. s <= revision /\ k <= epoch /\ since' = s /\ known' = k
  BY <1>2, <1>15, <1>16
<1>24. k = epoch => /\ Current(R, s)
                    /\ b = None => lo = first
                    /\ forth = None => Later(Claude!End(R), s)
  BY <1>17, <1>18
<1>25. /\ ~pinned' => ~TRUE /\ forth = None
       /\ TRUE \in BOOLEAN /\ Resident <= Resident /\ Claude!End(R) <= MaxRows
  BY <1>2, <1>14, <1>17, <1>21
<1>26. Replaces(R, lo, b, forth, TRUE, Resident, n, s, k)
  BY <1>17, <1>19, <1>20, <1>21, <1>22, <1>23, <1>24, <1>25 DEF Replaces
<1> QED
  BY <1>1, <1>26, KeptWindow

\* Later rows join it after its last.
LEMMA LaterStep ==
  ASSUME TranscriptOK, flight.read, NEW p, p = flight.page,
         flight.to = "after", ~p.reset, Claude!Beside(p),
         UNCHANGED <<first, last, changed, rev, revision, epoch>>
  PROVE  WindowOK'
<1>1. LogOK /\ WindowOK /\ AskedOK /\ AnswerOK
  BY DEF TranscriptOK
<1>2. /\ since \in Nat /\ since <= revision /\ since <= p.revision /\ p.revision \in Nat
      /\ known \in Nat /\ known <= epoch /\ forth # None
      /\ pinned' = TRUE /\ since' = since /\ known' = known
  BY AskedBeside
<1>3. /\ window # <<>> /\ window \in Seq(Row) /\ Claude!End(window) \in Nat
      /\ Claude!End(window) <= MaxRows /\ window[1].id \in Nat /\ window[1].id >= 1
      /\ Run(window, window[1].id)
      /\ Claude!End(window) = (window[1].id + Len(window)) - 1
      /\ \A k \in DOMAIN window : window[k].id \in window[1].id..Claude!End(window)
  BY <1>1, <1>2, WindowRun, PartsAssumption
<1>4. since # None
  BY <1>2, PartsAssumption
<1>5. PICK l \in Nat : l = window[1].id /\ l >= 1
  BY <1>3
<1>6. PICK e \in Nat : e = Claude!End(window) /\ e <= MaxRows
  BY <1>3
<1>7. forth = e /\ back \in {None, l}
      /\ (known = epoch => Current(window, since) /\ (back = None => l = first))
  BY <1>1, <1>2, <1>4, <1>5, <1>6 DEF WindowOK
<1>8. PICK P : P = p.rows
  OBVIOUS
<1>9. /\ P \in Seq(Row) /\ \A k \in DOMAIN P : P[k].id \in Claude!Ids
      /\ p.after \in Nat \union {None} /\ LaterOK(p) /\ (p.epoch = epoch => Current(P, p.revision))
  BY <1>1, <1>8, AnswerTyped
<1>10. /\ p.epoch = known /\ Run(P, e + 1)
       /\ p.after \in Nat => P # <<>> /\ p.after = Claude!End(P)
       /\ p.epoch = epoch /\ p.after = None =>
            Later(IF P = <<>> THEN e ELSE Claude!End(P), p.revision)
  BY <1>7, <1>8, <1>9 DEF LaterOK
<1>11. PICK n : Claude!Evicted(Claude!Joined(window, P), back, p.after, FALSE, Resident, n)
  BY <1>8 DEF Claude!Beside
<1>12. PICK R : R = window \o P
  OBVIOUS
<1>13. PICK a : a = p.after
  OBVIOUS
<1>14. PICK b : b = back
  OBVIOUS
<1>15. PICK s \in Nat : s = since
  BY <1>2
<1>16. PICK k \in Nat : k = known
  BY <1>2
<1>17. PICK y \in Nat : y = Len(window) /\ l + y = e + 1
  <2>1. Len(window) \in Nat
    BY <1>3
  <2> QED
    BY <1>3, <1>5, <1>6, <2>1
<1>18. /\ Run(R, l) /\ Len(R) = y + Len(P) /\ R # <<>>
       /\ \A h \in DOMAIN R : (\E j \in DOMAIN window : R[h] = window[j])
                              \/ (\E j \in DOMAIN P : R[h] = P[j])
  <2>1. Run(window, l) /\ Run(P, l + Len(window))
    BY <1>3, <1>5, <1>10, <1>17
  <2>2. R # <<>>
    BY <1>3, <1>9, <1>12
  <2> QED
    BY <1>12, <1>17, <2>1, <2>2, RunsTogether
<1>19. Claude!End(R) = IF P = <<>> THEN e ELSE Claude!End(P)
  <2>1. Claude!End(R) = (l + Len(R)) - 1
    BY <1>18, RunEnds
  <2>2. PICK x \in Nat : x = Len(P)
    BY <1>9
  <2>3. PICK z : z = Len(R)
    OBVIOUS
  <2>4. (l + z) - 1 = e + x
    BY <1>5, <1>17, <1>18, <2>2, <2>3
  <2>5. CASE P = <<>>
    BY <2>1, <2>2, <2>3, <2>4, <2>5
  <2>6. CASE P # <<>>
    <3>1. PICK f \in Nat : f = e + 1
      OBVIOUS
    <3>2. Claude!End(P) = (f + Len(P)) - 1
      BY <1>10, <2>6, <3>1, RunEnds
    <3> QED
      BY <2>1, <2>2, <2>3, <2>4, <2>6, <3>1, <3>2
  <2> QED
    BY <2>5, <2>6
<1>20. Claude!End(R) <= MaxRows
  <2>1. CASE P = <<>>
    BY <1>6, <1>19, <2>1
  <2>2. CASE P # <<>>
    <3>1. Len(P) \in DOMAIN P
      BY <1>9, <2>2
    <3> QED
      BY <1>9, <1>19, <2>2, <3>1, PagesAssumption DEF Claude!End, Claude!Ids
  <2> QED
    BY <2>1, <2>2
<1>21. Claude!Joined(window, P) = R
  <2>1. CASE P = <<>>
    <3>1. \A h \in DOMAIN P : ~Claude!Has(window, P[h].id)
      BY <2>1
    <3> QED
      BY <1>3, <1>9, <1>12, <3>1, JoinedRuns
  <2>2. CASE P # <<>>
    <3>1. PICK f \in Nat : f = e + 1
      OBVIOUS
    <3>2. Claude!End(P) \in Nat /\ \A j \in DOMAIN P : P[j].id \in f..Claude!End(P)
      BY <1>10, <2>2, <3>1, RunEnds
    <3>3. PICK g \in Nat : g = Claude!End(P)
      BY <3>2
    <3>4. \A h \in DOMAIN window : window[h].id \in l..e
      BY <1>3, <1>5, <1>6
    <3>5. \A j \in DOMAIN P : \A h \in DOMAIN window : window[h].id # P[j].id
      BY <1>5, <3>1, <3>2, <3>3, <3>4
    <3>6. \A h \in DOMAIN P : ~Claude!Has(window, P[h].id)
      BY <3>5 DEF Claude!Has
    <3> QED
      BY <1>3, <1>9, <1>12, <3>6, JoinedRuns
  <2> QED
    BY <2>1, <2>2
<1>22. ASSUME k = epoch
       PROVE  /\ Current(R, s)
              /\ b = None => l = first
              /\ a = None => Later(Claude!End(R), s)
  <2>1. Current(window, s) /\ (b = None => l = first)
    BY <1>7, <1>14, <1>15, <1>16, <1>22
  <2>2. PICK r \in Nat : r = p.revision
    BY <1>2
  <2>3. s <= r
    BY <1>2, <1>15, <2>2
  <2>4. Current(P, s)
    <3>1. Current(P, r)
      BY <1>9, <1>10, <1>16, <1>22, <2>2
    <3> QED
      BY <1>1, <2>3, <3>1, EarlierRevision
  <2>5. Current(R, s)
    BY <1>18, <2>1, <2>4 DEF Current
  <2>6. ASSUME a = None PROVE Later(Claude!End(R), s)
    <3>1. Later(Claude!End(R), r)
      BY <1>10, <1>13, <1>16, <1>19, <1>22, <2>2, <2>6
    <3> QED
      BY <1>1, <2>3, <3>1, EarlierRevision
  <2> QED
    BY <2>1, <2>5, <2>6
<1>23. a \in {None, Claude!End(R)}
  BY <1>9, <1>10, <1>13, <1>19
<1>24. Claude!Evicted(R, b, a, FALSE, Resident, n)
  BY <1>11, <1>13, <1>14, <1>21
<1>25. Resident \in Nat
  BY PagesAssumption
<1>26. s <= revision /\ k <= epoch /\ since' = s /\ known' = k /\ b \in {None, l}
  BY <1>2, <1>7, <1>14, <1>15, <1>16
<1>27. /\ ~pinned' => ~FALSE /\ a = None
       /\ FALSE \in BOOLEAN /\ Resident <= Resident
  BY <1>2, <1>25
<1>28. Replaces(R, l, b, a, FALSE, Resident, n, s, k)
  BY <1>5, <1>18, <1>20, <1>22, <1>23, <1>24, <1>25, <1>26, <1>27 DEF Replaces
<1> QED
  BY <1>1, <1>28, KeptWindow

LEMMA DeliverStep ==
  ASSUME TranscriptOK, Claude!Deliver
  PROVE  TranscriptOK'
<1>1. LogOK /\ WindowOK /\ AskedOK /\ AnswerOK
  BY DEF TranscriptOK
<1>2. PICK p : p = flight.page
  OBVIOUS
<1>3. /\ flight.read /\ Claude!Finally
      /\ UNCHANGED <<first, last, changed, rev, revision, epoch, visible, spent>>
      /\ \/ p.delta /\ flight.to = "refresh" /\ Claude!Delta(p)
         \/ flight.to \in {"before", "after"} /\ ~p.reset /\ Claude!Beside(p)
         \/ ~p.delta /\ ~(flight.to \in {"before", "after"} /\ ~p.reset) /\ Claude!Replaced(p)
  BY <1>2 DEF Claude!Deliver, Claude!Inside, Claude!log
<1>4. UNCHANGED <<first, last, changed, rev, revision, epoch>>
  BY <1>3
<1>5. CASE p.delta /\ flight.to = "refresh" /\ Claude!Delta(p)
  <2>1. WindowOK'
    BY <1>2, <1>3, <1>4, <1>5, DeltaStep
  <2>2. pinned' \in BOOLEAN
    BY <1>1, <1>5 DEF Claude!Delta, LogOK
  <2> QED
    BY <1>1, <1>3, <2>1, <2>2, Delivered
<1>6. CASE flight.to \in {"before", "after"} /\ ~p.reset /\ Claude!Beside(p)
  <2>1. WindowOK'
    BY <1>2, <1>3, <1>4, <1>6, EarlierStep, LaterStep
  <2>2. pinned' \in BOOLEAN
    BY <1>6 DEF Claude!Beside
  <2> QED
    BY <1>1, <1>3, <2>1, <2>2, Delivered
<1>7. CASE ~p.delta /\ ~(flight.to \in {"before", "after"} /\ ~p.reset) /\ Claude!Replaced(p)
  <2>1. NewestOK(p)
    BY <1>1, <1>2, <1>3, <1>7, AnswerTyped
  <2>2. WindowOK'
    BY <1>2, <1>3, <1>4, <1>7, <2>1, ReplacedStep
  <2>3. pinned' \in BOOLEAN
    BY <1>7 DEF Claude!Replaced
  <2> QED
    BY <1>1, <1>3, <2>2, <2>3, Delivered
<1> QED
  BY <1>3, <1>5, <1>6, <1>7

\* The invariant is kept by every step of the transcript window.
LEMMA ClaudeStep ==
  ASSUME TranscriptOK, Claude!Next \/ UNCHANGED claudeVars
  PROVE  TranscriptOK'
<1>1. LogOK /\ WindowOK /\ AskedOK /\ AnswerOK
  BY DEF TranscriptOK
<1>2. CASE Claude!Read
  BY <1>2, ReadStep
<1>3. CASE Claude!Deliver
  BY <1>3, DeliverStep
<1>4. CASE Claude!Append1 \/ (\E i \in Claude!Ids : Claude!Edit(i)) \/ Claude!Restart
  BY <1>4, LogStep
<1>5. CASE Claude!Pin
  BY <1>5, PinStep
<1>6. CASE Claude!Fails \/ Claude!Hide \/ Claude!Unhide
  BY <1>6, RequestStep
<1>7. ASSUME NEW to \in {"before", "after", "latest"}, Claude!Ask(to) PROVE TranscriptOK'
  BY <1>7, RequestStep
<1>8. CASE Claude!Poll
  BY <1>8, RequestStep DEF Claude!Poll
<1>9. CASE UNCHANGED claudeVars
  <2>1. /\ UNCHANGED <<first, last, changed, rev, revision, epoch>>
        /\ UNCHANGED <<window, known, since, back, forth, pinned, flight, queued, visible, spent>>
    BY <1>9 DEF claudeVars
  <2>2. LogOK'
    BY <1>1, <2>1 DEF LogOK
  <2>3. WindowOK'
    BY <1>1, <2>1, WindowSame
  <2>4. AskedOK'
    BY <1>1, <2>1 DEF AskedOK
  <2>5. Grows
    BY <1>1, <2>1 DEF Grows, LogOK
  <2>6. AnswerOK'
    BY <1>1, <2>1, <2>2, <2>5, AnswerKept
  <2> QED
    BY <2>2, <2>3, <2>4, <2>6 DEF TranscriptOK
<1> QED
  BY <1>2, <1>3, <1>4, <1>5, <1>6, <1>7, <1>8, <1>9 DEF Claude!Next, Claude!Answers

-------------------------------------------------------------------------------
(* The pages                                                                      *)

PagesKept ==
  /\ moves = "rows" => RowsOK
  /\ moves = "dsh" => DshOK
  /\ moves = "claude" => TranscriptOK

(* What a page of rows shows has no hole: the two parts of the session page adjoin *)
(* (unless a load outlived the rows it adds to), the page of a dsh run shows every  *)
(* captured event between its ends, and the window of a Claude transcript is a run  *)
(* of the session's events, each as the store has it up to the window's revision.   *)
THEOREM PagesAreWhole == Spec => []PagesInv
<1>1. Init => PagesKept
  BY RowsInit, DshInit, ClaudeInit DEF Init, PagesKept
<1>2. PagesKept /\ [Next]_vars => PagesKept'
  <2> SUFFICES ASSUME PagesKept, [Next]_vars PROVE PagesKept'
    OBVIOUS
  <2>1. /\ moves' = moves
        /\ moves = "rows" => Rows!Next \/ UNCHANGED rowsVars
        /\ moves = "dsh" => Dsh!Next \/ UNCHANGED dshVars
        /\ moves = "claude" => Claude!Next \/ UNCHANGED claudeVars
    BY OnePartMoves
  <2>2. ASSUME moves' = "rows" PROVE RowsOK'
    BY <2>1, <2>2, RowsStep DEF PagesKept
  <2>3. ASSUME moves' = "dsh" PROVE DshOK'
    BY <2>1, <2>3, DshStep DEF PagesKept
  <2>4. ASSUME moves' = "claude" PROVE TranscriptOK'
    BY <2>1, <2>4, ClaudeStep DEF PagesKept
  <2> QED
    BY <2>2, <2>3, <2>4 DEF PagesKept
<1>3. PagesKept => PagesInv
  BY RowsShown, DshShown, TranscriptShown DEF PagesKept, PagesInv
<1> QED
  BY <1>1, <1>2, <1>3, PTL DEF Spec

-------------------------------------------------------------------------------
(* A session as its page shows it.                                                *)
SessionPolls == [of : PageSessions, ver : (0..MaxChanges) \union {None, Lost},
                 ask : BOOLEAN \union {None, Lost}, rev : Nat]
PageTypes ==
  /\ versions \in [PageSessions -> 0..MaxChanges] /\ scope \in PageSessions
  /\ generation \in 0..MaxSwitches /\ polls \in [0..MaxSwitches -> SessionPolls \union {None}]
  /\ gate \in [inFlight : BOOLEAN, queued : BOOLEAN] /\ pending \in BOOLEAN
  /\ view \in [ver : (0..MaxChanges) \union {None}, ask : BOOLEAN] /\ replied \in Nat
  /\ reply \in [pc : {"none", "posted", "taken", "done"}, gen : 0..generation]
StreamTypes ==
  /\ seen \in BOOLEAN /\ nudge \in BOOLEAN
  /\ source \in {"none", "connecting", "open", "waiting"} /\ retries \in 0..Session!MaxDoublings
  /\ bus \in {"up", "down", "backoff"} /\ outside \in 0..MaxOuter
PollKept(g) ==
  polls[g] # None => /\ polls[g].ver \in Nat => polls[g].ver <= versions[polls[g].of]
                     /\ polls[g].rev <= replied
GateKept ==
  /\ gate.inFlight <=> polls[generation] # None
  /\ polls[generation] # None => polls[generation].of = scope
ViewKept == view.ver # None => view.ver <= versions[scope]
ReplyKept ==
  /\ reply.pc = "done" /\ reply.gen = generation => ~view.ask
  /\ reply.pc \in {"taken", "done"} /\ reply.gen = generation => ~pending
FreshKept ==
  reply.pc = "done" /\ reply.gen = generation /\ polls[generation] # None
    /\ polls[generation].rev = replied => polls[generation].ask # TRUE
SessionOK == Session!TypeOK /\ Session!StreamInv
PageKept ==
  /\ PageTypes /\ GateKept /\ ViewKept /\ ReplyKept /\ FreshKept
  /\ \A g \in 0..MaxSwitches : PollKept(g)
SessionKept == PageKept /\ StreamTypes

(* The invariant of the page in the parts its steps keep.                         *)
LEMMA SessionParts == SessionOK <=> SessionKept
<1>1. Session!TypeOK <=> PageTypes /\ StreamTypes
  BY DEF Session!TypeOK, PageTypes, StreamTypes, Session!Polls, SessionPolls, Session!Generations
<1>2. Session!StreamInv <=>
        /\ GateKept /\ ViewKept /\ ReplyKept /\ FreshKept
        /\ \A g \in 0..MaxSwitches : PollKept(g)
  BY DEF Session!StreamInv, Session!GateHolds, Session!ShowsOwnSession, Session!ReplyNotUndone,
     Session!PollsAreOfThePast, Session!ReplyIsTaken, Session!Generations, GateKept, ViewKept,
     ReplyKept, FreshKept, PollKept
<1> QED
  BY <1>1, <1>2 DEF SessionOK, SessionKept, PageKept

(* A page starts with a first poll on its way and nothing shown.                  *)
LEMMA SessionInit == Session!Init => SessionOK
<1> SUFFICES ASSUME Session!Init PROVE SessionKept
  BY SessionParts
<1> USE DEF Session!Init
<1>1. polls = [g \in 0..MaxSwitches |-> IF g = 0
                 THEN [of |-> scope, ver |-> None, ask |-> None, rev |-> 0] ELSE None]
  BY DEF Session!Generations
<1>2. scope \in PageSessions /\ 0 \in 0..MaxSwitches /\ 0 \in 0..MaxChanges /\ 0 \in 0..MaxOuter
  BY PageAssumption
<1>3. [of |-> scope, ver |-> None, ask |-> None, rev |-> 0] \in SessionPolls
  BY <1>2 DEF SessionPolls
<1>4. PageTypes
  <2>1. polls \in [0..MaxSwitches -> SessionPolls \union {None}]
    BY <1>1, <1>3
  <2>2. view = [ver |-> None, ask |-> FALSE]
    BY DEF Session!Blank
  <2> QED
    BY <1>2, <2>1, <2>2, PageAssumption DEF PageTypes
<1>5. polls[generation] = [of |-> scope, ver |-> None, ask |-> None, rev |-> 0]
  BY <1>1, <1>2
<1>6. polls[generation] # None
  BY <1>2, <1>5, PollsAreRecords
<1>7. GateKept /\ ViewKept /\ ReplyKept /\ FreshKept
  BY <1>5, <1>6 DEF GateKept, ViewKept, ReplyKept, FreshKept, Session!Blank
<1>8. ASSUME NEW g \in 0..MaxSwitches PROVE PollKept(g)
  BY <1>1, <1>2, PageAssumption, PartsAssumption DEF PollKept
<1>9. StreamTypes
  <2>1. seen \in BOOLEAN /\ nudge \in BOOLEAN
    OBVIOUS
  <2>2. source \in {"none", "connecting", "open", "waiting"} /\ bus \in {"up", "down", "backoff"}
    OBVIOUS
  <2>3. retries \in 0..Session!MaxDoublings /\ outside \in 0..MaxOuter
    BY <1>2 DEF Session!MaxDoublings
  <2> QED
    BY <2>1, <2>2, <2>3 DEF StreamTypes
<1> QED
  BY <1>4, <1>7, <1>8, <1>9 DEF SessionKept, PageKept

(* A poll that begins has been told nothing yet.                                  *)
LEMMA NewPoll ==
  ASSUME NEW s \in PageSessions, NEW n \in Nat
  PROVE  /\ Session!NewFlight(s, n) \in SessionPolls /\ Session!NewFlight(s, n) # None
         /\ Session!NewFlight(s, n).of = s /\ Session!NewFlight(s, n).ver = None
         /\ Session!NewFlight(s, n).ask = None /\ Session!NewFlight(s, n).rev = n
<1>1. Session!NewFlight(s, n) = [of |-> s, ver |-> None, ask |-> None, rev |-> n]
  BY DEF Session!NewFlight
<1> QED
  BY <1>1, PollsAreRecords DEF SessionPolls

(* A call of poll() keeps the gate and the polls in order, and lists no request yet. *)
LEMMA PollsGo ==
  ASSUME PageKept, NEW now \in Nat, replied <= now, Session!PollAt(now), replied' = now,
         UNCHANGED <<versions, scope, generation>>
  PROVE  /\ GateKept' /\ polls' \in [0..MaxSwitches -> SessionPolls \union {None}]
         /\ gate' \in [inFlight : BOOLEAN, queued : BOOLEAN]
         /\ \A g \in 0..MaxSwitches : PollKept(g)'
         /\ polls'[generation] = polls[generation] \/ polls'[generation].ask = None
<1>1. PageTypes /\ GateKept /\ \A g \in 0..MaxSwitches : PollKept(g)
  BY DEF PageKept
<1>2. CASE gate.inFlight
  <2>1. gate' = [gate EXCEPT !.queued = TRUE] /\ polls' = polls
    BY <1>2 DEF Session!PollAt
  <2>2. gate'.inFlight = gate.inFlight /\ gate' \in [inFlight : BOOLEAN, queued : BOOLEAN]
    BY <1>1, <2>1 DEF PageTypes
  <2>3. ASSUME NEW g \in 0..MaxSwitches, polls[g] # None PROVE polls[g].rev \in Nat
    BY <1>1, <2>3 DEF PageTypes, SessionPolls
  <2>4. ASSUME NEW g \in 0..MaxSwitches PROVE PollKept(g)'
    BY <1>1, <2>1, <2>3, <2>4 DEF PollKept, PageTypes
  <2> QED
    BY <1>1, <2>1, <2>2, <2>4 DEF GateKept, PageTypes
<1>3. CASE ~gate.inFlight
  <2> DEFINE new == Session!NewFlight(scope, now)
  <2>1. gate' = [inFlight |-> TRUE, queued |-> FALSE] /\ polls' = [polls EXCEPT ![generation] = new]
    BY <1>3 DEF Session!PollAt, Session!Poll1
  <2>2. new \in SessionPolls /\ new # None /\ new.of = scope /\ new.ver = None /\ new.ask = None
        /\ new.rev = now
    BY <1>1, NewPoll DEF PageTypes
  <2> HIDE DEF new
  <2>3. /\ polls' \in [0..MaxSwitches -> SessionPolls \union {None}] /\ polls'[generation] = new
        /\ \A g \in 0..MaxSwitches : g # generation => polls'[g] = polls[g]
    BY <1>1, <2>1, <2>2 DEF PageTypes
  <2>4. ASSUME NEW g \in 0..MaxSwitches PROVE PollKept(g)'
    <3>1. CASE g = generation
      BY <2>2, <2>3, <3>1, PageAssumption, PartsAssumption DEF PollKept
    <3>2. CASE g # generation
      <4>1. polls[g] # None => polls[g].rev \in Nat
        BY <1>1 DEF PageTypes, SessionPolls
      <4> QED
        BY <1>1, <2>3, <3>2, <4>1 DEF PollKept, PageTypes
    <3> QED
      BY <3>1, <3>2
  <2> QED
    BY <1>1, <2>1, <2>2, <2>3, <2>4 DEF GateKept
<1> QED
  BY <1>2, <1>3

(* A poll that the clock, an event or the tab asks for keeps the page in order.   *)
LEMMA PagePolls ==
  ASSUME PageKept, Session!Poll,
         UNCHANGED <<versions, pending, scope, generation, view, replied, reply>>
  PROVE  PageKept'
<1>1. PageTypes /\ GateKept /\ ViewKept /\ ReplyKept /\ FreshKept
  BY DEF PageKept
<1>2. replied \in Nat /\ replied <= replied /\ Session!PollAt(replied)
  BY <1>1 DEF PageTypes, Session!Poll
<1>3. /\ GateKept' /\ polls' \in [0..MaxSwitches -> SessionPolls \union {None}]
      /\ gate' \in [inFlight : BOOLEAN, queued : BOOLEAN]
      /\ \A g \in 0..MaxSwitches : PollKept(g)'
      /\ polls'[generation] = polls[generation] \/ polls'[generation].ask = None
  BY <1>2, PollsGo
<1>4. PageTypes'
  BY <1>1, <1>3 DEF PageTypes
<1>5. ViewKept' /\ ReplyKept'
  BY <1>1 DEF ViewKept, ReplyKept
<1>6. FreshKept'
  BY <1>1, <1>3, PageAssumption DEF FreshKept, PageTypes, GateKept
<1> QED
  BY <1>3, <1>4, <1>5, <1>6 DEF PageKept

(* The answers to a poll that is out.                                             *)
LEMMA PollAnswered ==
  ASSUME PageKept, NEW g \in 0..MaxSwitches,
         Session!ReadMessages(g) \/ Session!ReadPermissions(g)
  PROVE  PageKept'
<1>1. PageTypes /\ GateKept /\ ViewKept /\ ReplyKept /\ FreshKept /\ \A i \in 0..MaxSwitches : PollKept(i)
  BY DEF PageKept
<1>2. /\ polls[g] # None
      /\ UNCHANGED <<versions, pending, reply, scope, generation, gate, view, replied>>
  BY DEF Session!ReadMessages, Session!ReadPermissions, Session!page
<1>3. polls[g] \in SessionPolls
  BY <1>1, <1>2 DEF PageTypes
<1>4. ASSUME NEW row \in SessionPolls, polls' = [polls EXCEPT ![g] = row],
             row.of = polls[g].of, row.rev = polls[g].rev,
             row.ver \in Nat => row.ver <= versions[row.of],
             row.ask = TRUE => polls[g].ask = TRUE \/ pending
      PROVE  PageKept'
  <2>1. row # None
    BY PollsAreRecords, PageAssumption DEF SessionPolls
  <2>2. /\ polls' \in [0..MaxSwitches -> SessionPolls \union {None}] /\ polls'[g] = row
        /\ \A i \in 0..MaxSwitches : i # g => polls'[i] = polls[i]
    BY <1>1, <1>4 DEF PageTypes
  <2>3. PageTypes'
    BY <1>1, <1>2, <2>2 DEF PageTypes
  <2>4. GateKept'
    BY <1>1, <1>2, <1>4, <2>1, <2>2 DEF GateKept, PageTypes
  <2>5. ViewKept' /\ ReplyKept'
    BY <1>1, <1>2 DEF ViewKept, ReplyKept
  <2>6. FreshKept'
    BY <1>1, <1>2, <1>4, <2>2 DEF FreshKept, ReplyKept, PageTypes
  <2>7. ASSUME NEW i \in 0..MaxSwitches PROVE PollKept(i)'
    BY <1>1, <1>2, <1>4, <2>2 DEF PollKept
  <2> QED
    BY <2>3, <2>4, <2>5, <2>6, <2>7 DEF PageKept
<1>5. ASSUME Session!ReadMessages(g) PROVE PageKept'
  <2>1. PICK v \in {versions[polls[g].of], Lost} : polls' = [polls EXCEPT ![g].ver = v]
    BY <1>5 DEF Session!ReadMessages
  <2> DEFINE row == [polls[g] EXCEPT !.ver = v]
  <2>2. versions[polls[g].of] \in 0..MaxChanges
    BY <1>1, <1>3 DEF PageTypes, SessionPolls
  <2>3. /\ row \in SessionPolls /\ row.of = polls[g].of /\ row.rev = polls[g].rev
        /\ row.ask = polls[g].ask /\ row.ver = v
    BY <1>3, <2>1, <2>2 DEF SessionPolls
  <2>4. polls' = [polls EXCEPT ![g] = row]
    BY <2>1
  <2> HIDE DEF row
  <2>5. row.ver \in Nat => row.ver <= versions[row.of]
    BY <2>1, <2>2, <2>3, PageAssumption
  <2> QED
    BY <1>4, <2>3, <2>4, <2>5
<1>6. ASSUME Session!ReadPermissions(g) PROVE PageKept'
  <2>1. PICK a \in {pending, Lost} : polls' = [polls EXCEPT ![g].ask = a]
    BY <1>6 DEF Session!ReadPermissions
  <2> DEFINE row == [polls[g] EXCEPT !.ask = a]
  <2>2. a \in BOOLEAN \union {None, Lost}
    BY <1>1, <2>1 DEF PageTypes
  <2>3. /\ row \in SessionPolls /\ row.of = polls[g].of /\ row.rev = polls[g].rev
        /\ row.ver = polls[g].ver /\ row.ask = a
    BY <1>3, <2>2 DEF SessionPolls
  <2>4. polls' = [polls EXCEPT ![g] = row]
    BY <2>1
  <2> HIDE DEF row
  <2>5. row.ver \in Nat => row.ver <= versions[row.of]
    BY <1>1, <1>2, <2>3 DEF PollKept
  <2>6. row.ask = TRUE => pending
    BY <2>1, <2>3, PageAssumption
  <2> QED
    BY <1>4, <2>3, <2>4, <2>5, <2>6
<1> QED
  BY <1>5, <1>6

(* An answer that comes is shown, if it is of this generation and of this reply.  *)
LEMMA PollDelivered ==
  ASSUME PageKept, NEW g \in 0..MaxSwitches, Session!Deliver(g)
  PROVE  PageKept'
<1>1. PageTypes /\ GateKept /\ ViewKept /\ ReplyKept /\ FreshKept /\ \A i \in 0..MaxSwitches : PollKept(i)
  BY DEF PageKept
<1>2. /\ polls[g] # None /\ polls[g].ver # None /\ polls[g].ask # None
      /\ UNCHANGED <<versions, pending, reply, scope, generation, replied>>
  BY DEF Session!Deliver, Session!Answered
<1>3. polls[g] \in SessionPolls
  BY <1>1, <1>2 DEF PageTypes
<1>4. ASSUME NEW row \in SessionPolls \union {None}, polls' = [polls EXCEPT ![g] = row],
             g # generation => row = None /\ gate' = gate /\ view' = view,
             g = generation => (gate'.inFlight <=> row # None),
             gate' \in [inFlight : BOOLEAN, queued : BOOLEAN],
             row # None => row.of = scope /\ row.ver = None /\ row.ask = None /\ row.rev = replied,
             view' \in [ver : (0..MaxChanges) \union {None}, ask : BOOLEAN],
             ViewKept', view'.ask => view.ask \/ ~(reply.pc = "done" /\ reply.gen = generation)
      PROVE  PageKept'
  <2>1. /\ polls' \in [0..MaxSwitches -> SessionPolls \union {None}] /\ polls'[g] = row
        /\ \A i \in 0..MaxSwitches : i # g => polls'[i] = polls[i]
    BY <1>1, <1>4 DEF PageTypes
  <2>2. PageTypes'
    BY <1>1, <1>2, <1>4, <2>1 DEF PageTypes
  <2>3. GateKept'
    BY <1>1, <1>2, <1>4, <2>1 DEF GateKept, PageTypes
  <2>4. ReplyKept'
    BY <1>1, <1>2, <1>4 DEF ReplyKept
  <2>5. FreshKept'
    BY <1>1, <1>2, <1>4, <2>1, PageAssumption DEF FreshKept, PageTypes
  <2>6. ASSUME NEW i \in 0..MaxSwitches PROVE PollKept(i)'
    <3>1. replied \in Nat /\ None \notin Nat
      BY <1>1, PartsAssumption DEF PageTypes
    <3> QED
      BY <1>1, <1>2, <1>4, <2>1, <3>1 DEF PollKept
  <2> QED
    BY <1>4, <2>2, <2>3, <2>4, <2>5, <2>6 DEF PageKept
<1>5. ASSUME g # generation PROVE PageKept'
  <2>1. polls' = [polls EXCEPT ![g] = None] /\ UNCHANGED <<gate, view>>
    BY <1>5 DEF Session!Deliver
  <2>2. ViewKept'
    BY <1>1, <1>2, <2>1 DEF ViewKept
  <2>3. /\ gate' \in [inFlight : BOOLEAN, queued : BOOLEAN]
        /\ view' \in [ver : (0..MaxChanges) \union {None}, ask : BOOLEAN]
    BY <1>1, <2>1 DEF PageTypes
  <2>4. None \in SessionPolls \union {None} /\ (view'.ask => view.ask)
    BY <2>1
  <2> QED
    BY <1>4, <1>5, <2>1, <2>2, <2>3, <2>4
<1>6. ASSUME g = generation PROVE PageKept'
  <2>1. Session!Show(polls[g])
    BY <1>6 DEF Session!Deliver
  <2> DEFINE ver == IF polls[g].ver = Lost THEN view.ver ELSE polls[g].ver
             ask == IF polls[g].ask = Lost \/ polls[g].rev # replied THEN view.ask ELSE polls[g].ask
  <2>2. view' = [ver |-> ver, ask |-> ask]
    BY <2>1 DEF Session!Show
  <2>3. ver \in (0..MaxChanges) \union {None}
    BY <1>1, <1>2, <1>3 DEF PageTypes, SessionPolls
  <2>4. ask \in BOOLEAN
    BY <1>1, <1>2, <1>3, PageAssumption DEF PageTypes, SessionPolls
  <2>5. polls[g].of = scope
    BY <1>1, <1>2, <1>6 DEF GateKept
  <2>6. ver \in Nat => ver <= versions[scope]
    BY <1>1, <1>2, <2>5, PartsAssumption DEF PollKept, ViewKept
  <2>7. ask => view.ask \/ ~(reply.pc = "done" /\ reply.gen = generation)
    BY <1>1, <1>2, <1>3, <1>6, PageAssumption DEF FreshKept, SessionPolls
  <2> HIDE DEF ver, ask
  <2>8. view' \in [ver : (0..MaxChanges) \union {None}, ask : BOOLEAN] /\ view'.ver = ver /\ view'.ask = ask
    BY <2>2, <2>3, <2>4
  <2>9. ViewKept'
    BY <1>2, <2>3, <2>6, <2>8 DEF ViewKept
  <2>12. view'.ask => view.ask \/ ~(reply.pc = "done" /\ reply.gen = generation)
    BY <2>7, <2>8
  <2>10. CASE gate.queued
    <3> DEFINE row == Session!NewFlight(scope, replied)
    <3>1. gate' = [gate EXCEPT !.queued = FALSE] /\ polls' = [polls EXCEPT ![g] = row]
      BY <1>6, <2>10 DEF Session!Deliver, Session!Poll1
    <3>2. row \in SessionPolls /\ row # None /\ row.of = scope /\ row.ver = None /\ row.ask = None
          /\ row.rev = replied
      BY <1>1, NewPoll DEF PageTypes
    <3> HIDE DEF row
    <3>3. gate' \in [inFlight : BOOLEAN, queued : BOOLEAN] /\ gate'.inFlight = gate.inFlight
      BY <1>1, <3>1 DEF PageTypes
    <3>4. gate.inFlight
      BY <1>1, <1>2, <1>6 DEF GateKept
    <3> QED
      BY <1>4, <1>6, <2>12, <2>8, <2>9, <3>1, <3>2, <3>3, <3>4
  <2>11. CASE ~gate.queued
    <3>1. gate' = [inFlight |-> FALSE, queued |-> FALSE] /\ polls' = [polls EXCEPT ![g] = None]
      BY <1>6, <2>11 DEF Session!Deliver, Session!FreeGate
    <3>2. gate' \in [inFlight : BOOLEAN, queued : BOOLEAN] /\ ~gate'.inFlight
      BY <3>1
    <3>3. None \in SessionPolls \union {None}
      OBVIOUS
    <3> QED
      BY <1>4, <1>6, <2>12, <2>8, <2>9, <3>1, <3>2, <3>3
  <2> QED
    BY <2>10, <2>11
<1> QED
  BY <1>5, <1>6

(* The page moves to another session: what came before is of an older generation. *)
LEMMA PageSwitches ==
  ASSUME PageKept, NEW s \in PageSessions, Session!SwitchTo(s)
  PROVE  PageKept'
<1>1. PageTypes /\ \A i \in 0..MaxSwitches : PollKept(i)
  BY DEF PageKept
<1> DEFINE row == Session!NewFlight(s, replied)
<1>2. /\ generation < MaxSwitches /\ generation' = generation + 1 /\ scope' = s
      /\ gate' = [inFlight |-> TRUE, queued |-> FALSE]
      /\ polls' = [polls EXCEPT ![generation'] = row] /\ view' = [ver |-> None, ask |-> FALSE]
      /\ pending' \in Asks /\ UNCHANGED <<versions, replied, reply>>
  BY DEF Session!SwitchTo, Session!Blank
<1>3. /\ row \in SessionPolls /\ row # None /\ row.of = s /\ row.ver = None /\ row.ask = None
      /\ row.rev = replied /\ replied \in Nat
  BY <1>1, NewPoll DEF PageTypes
<1> HIDE DEF row
<1>4. generation' \in 0..MaxSwitches /\ reply.gen \in 0..generation /\ reply.gen # generation'
  BY <1>1, <1>2, PageAssumption DEF PageTypes
<1>5. /\ polls' \in [0..MaxSwitches -> SessionPolls \union {None}] /\ polls'[generation'] = row
      /\ \A i \in 0..MaxSwitches : i # generation' => polls'[i] = polls[i]
  BY <1>1, <1>2, <1>3, <1>4 DEF PageTypes
<1>6. PageTypes'
  <2>1. reply' \in [pc : {"none", "posted", "taken", "done"}, gen : 0..generation']
    BY <1>1, <1>2, <1>4, PageAssumption DEF PageTypes
  <2> QED
    BY <1>1, <1>2, <1>4, <1>5, <2>1, PageAssumption DEF PageTypes
<1>7. GateKept' /\ ViewKept' /\ ReplyKept' /\ FreshKept'
  BY <1>2, <1>3, <1>4, <1>5 DEF GateKept, ViewKept, ReplyKept, FreshKept
<1>8. ASSUME NEW i \in 0..MaxSwitches PROVE PollKept(i)'
  BY <1>1, <1>2, <1>3, <1>5, PartsAssumption DEF PollKept
<1> QED
  BY <1>6, <1>7, <1>8 DEF PageKept

(* A session changes at opencode: what was read of it was true before.            *)
LEMMA SessionChanges ==
  ASSUME PageKept, NEW s \in PageSessions, Session!Change(s)
  PROVE  PageKept'
<1>1. PageTypes /\ GateKept /\ ViewKept /\ ReplyKept /\ FreshKept /\ \A i \in 0..MaxSwitches : PollKept(i)
  BY DEF PageKept
<1>2. /\ versions[s] < MaxChanges /\ versions' = [versions EXCEPT ![s] = @ + 1]
      /\ UNCHANGED <<pending, polls, reply, scope, generation, gate, view, replied>>
  BY DEF Session!Change, Session!page
<1>3. /\ versions' \in [PageSessions -> 0..MaxChanges]
      /\ \A t \in PageSessions : versions[t] \in Nat /\ versions'[t] \in Nat /\ versions[t] <= versions'[t]
  BY <1>1, <1>2, PageAssumption DEF PageTypes
<1>4. PageTypes'
  BY <1>1, <1>2, <1>3 DEF PageTypes
<1>5. GateKept' /\ ReplyKept' /\ FreshKept'
  BY <1>1, <1>2 DEF GateKept, ReplyKept, FreshKept
<1>6. ViewKept'
  BY <1>1, <1>2, <1>3, PageAssumption DEF ViewKept, PageTypes
<1>7. ASSUME NEW i \in 0..MaxSwitches PROVE PollKept(i)'
  <2>1. polls[i] # None => polls[i].of \in PageSessions
    BY <1>1 DEF PageTypes, SessionPolls
  <2> QED
    BY <1>1, <1>2, <1>3, <2>1 DEF PollKept
<1> QED
  BY <1>4, <1>5, <1>6, <1>7 DEF PageKept

(* The user's reply is posted, taken by opencode, and heard of by the page.       *)
LEMMA ReplyGoes ==
  ASSUME PageKept, Session!Reply \/ Session!ReplyTaken \/ Session!ReplyAnswered
  PROVE  PageKept'
<1>1. PageTypes /\ GateKept /\ ViewKept /\ ReplyKept /\ FreshKept /\ \A i \in 0..MaxSwitches : PollKept(i)
  BY DEF PageKept
<1>2. ASSUME UNCHANGED <<versions, polls, scope, generation, gate, view, replied>>,
             pending' \in BOOLEAN, pending' => pending,
             reply' \in [pc : {"none", "posted", "taken", "done"}, gen : 0..generation],
             reply'.pc # "done", reply'.pc = "taken" /\ reply'.gen = generation => ~pending'
      PROVE  PageKept'
  <2>1. PageTypes' /\ GateKept' /\ ViewKept' /\ ReplyKept' /\ FreshKept'
    BY <1>1, <1>2 DEF PageTypes, GateKept, ViewKept, ReplyKept, FreshKept
  <2>2. \A i \in 0..MaxSwitches : PollKept(i)'
    BY <1>1, <1>2 DEF PollKept
  <2> QED
    BY <2>1, <2>2 DEF PageKept
<1>3. ASSUME Session!Reply PROVE PageKept'
  <2>1. /\ reply' = [pc |-> "posted", gen |-> generation]
        /\ UNCHANGED <<versions, pending, polls, scope, generation, gate, view, replied>>
    BY <1>3 DEF Session!Reply, Session!page
  <2>2. generation \in 0..generation /\ pending \in BOOLEAN
    BY <1>1, PageAssumption DEF PageTypes
  <2> QED
    BY <1>2, <2>1, <2>2
<1>4. ASSUME Session!ReplyTaken PROVE PageKept'
  <2>1. /\ reply' = [reply EXCEPT !.pc = "taken"] /\ pending' = (pending /\ reply.gen # generation)
        /\ UNCHANGED <<versions, polls, scope, generation, gate, view, replied>>
    BY <1>4 DEF Session!ReplyTaken, Session!page
  <2>2. /\ reply' \in [pc : {"none", "posted", "taken", "done"}, gen : 0..generation]
        /\ reply'.pc = "taken" /\ reply'.gen = reply.gen
    BY <1>1, <2>1 DEF PageTypes
  <2> QED
    BY <1>2, <2>1, <2>2
<1>5. ASSUME Session!ReplyAnswered PROVE PageKept'
  <2>1. /\ reply.pc = "taken" /\ reply' = [reply EXCEPT !.pc = "done"]
        /\ UNCHANGED <<versions, pending, scope, generation>>
    BY <1>5 DEF Session!ReplyAnswered
  <2>2. /\ reply' \in [pc : {"none", "posted", "taken", "done"}, gen : 0..generation]
        /\ reply'.pc = "done" /\ reply'.gen = reply.gen
    BY <1>1, <2>1 DEF PageTypes
  <2>3. CASE reply.gen # generation
    <3>1. UNCHANGED <<replied, view, gate, polls>>
      BY <1>5, <2>3 DEF Session!ReplyAnswered
    <3>2. PageTypes' /\ GateKept' /\ ViewKept' /\ ReplyKept' /\ FreshKept'
      BY <1>1, <2>1, <2>2, <2>3, <3>1 DEF PageTypes, GateKept, ViewKept, ReplyKept, FreshKept
    <3>3. \A i \in 0..MaxSwitches : PollKept(i)'
      BY <1>1, <2>1, <3>1 DEF PollKept
    <3> QED
      BY <3>2, <3>3 DEF PageKept
  <2>4. CASE reply.gen = generation
    <3>1. view' = [view EXCEPT !.ask = FALSE] /\ replied' = replied + 1 /\ Session!PollAt(replied')
      BY <1>5, <2>4 DEF Session!ReplyAnswered
    <3>2. replied' \in Nat /\ replied <= replied'
      BY <1>1, <3>1 DEF PageTypes
    <3>3. /\ GateKept' /\ polls' \in [0..MaxSwitches -> SessionPolls \union {None}]
          /\ gate' \in [inFlight : BOOLEAN, queued : BOOLEAN]
          /\ \A g \in 0..MaxSwitches : PollKept(g)'
          /\ polls'[generation] = polls[generation] \/ polls'[generation].ask = None
      BY <2>1, <3>1, <3>2, PollsGo
    <3>4. /\ view' \in [ver : (0..MaxChanges) \union {None}, ask : BOOLEAN]
          /\ view'.ver = view.ver /\ ~view'.ask
      BY <1>1, <3>1 DEF PageTypes
    <3>5. PageTypes'
      BY <1>1, <2>1, <2>2, <3>2, <3>3, <3>4 DEF PageTypes
    <3>6. ViewKept' /\ ReplyKept'
      BY <1>1, <2>1, <2>2, <3>4 DEF ViewKept, ReplyKept
    <3>7. FreshKept'
      <4>1. polls[generation] # None => polls[generation].rev \in Nat /\ polls[generation].rev <= replied
        BY <1>1 DEF PollKept, PageTypes, SessionPolls
      <4>2. polls[generation] # None => polls[generation].rev # replied'
        BY <1>1, <3>1, <4>1 DEF PageTypes
      <4> QED
        BY <2>1, <3>3, <4>2, PageAssumption DEF FreshKept
    <3> QED
      BY <3>3, <3>5, <3>6, <3>7 DEF PageKept
  <2> QED
    BY <2>3, <2>4
<1> QED
  BY <1>3, <1>4, <1>5

(* What the tab, its stream and the server's subscription do leaves the page alone. *)
LEMMA PageRests ==
  ASSUME PageKept,
         UNCHANGED <<versions, pending, polls, reply, scope, generation, gate, view, replied>>
  PROVE  PageKept'
BY DEF PageKept, PageTypes, GateKept, ViewKept, ReplyKept, FreshKept, PollKept

(* Each step keeps the page and what it says of its streams.                      *)
LEMMA SessionStep ==
  ASSUME SessionOK, Session!Next \/ UNCHANGED sessionVars
  PROVE  SessionOK'
<1>1. PageKept /\ StreamTypes
  BY SessionParts DEF SessionKept
<1>2. PageKept'
  <2>1. CASE Session!Answers
    <3>1. PICK g \in 0..MaxSwitches :
            Session!ReadMessages(g) \/ Session!ReadPermissions(g) \/ Session!Deliver(g)
      BY <2>1 DEF Session!Answers, Session!Generations
    <3> QED
      BY <1>1, <3>1, PollAnswered, PollDelivered
  <2>2. CASE Session!Nudged \/ Session!Tick \/ Session!Unhide
    BY <1>1, <2>2, PagePolls DEF Session!Nudged, Session!Tick, Session!Unhide
  <2>3. CASE Session!ReplyTaken \/ Session!ReplyAnswered \/ Session!Reply
    BY <1>1, <2>3, ReplyGoes
  <2>4. CASE Session!SourceOpens \/ Session!SourceRetries \/ Session!BusStep \/ Session!SourceFails
             \/ Session!Hide \/ Session!BusFails \/ UNCHANGED sessionVars
    <3>1. UNCHANGED <<versions, pending, polls, reply, scope, generation, gate, view, replied>>
      BY <2>4 DEF Session!SourceOpens, Session!SourceRetries, Session!BusStep, Session!SourceFails,
         Session!Hide, Session!BusFails, sessionVars, Session!page
    <3> QED
      BY <1>1, <3>1, PageRests
  <2>5. ASSUME NEW s \in PageSessions, Session!SwitchTo(s) \/ Session!Change(s) PROVE PageKept'
    BY <1>1, <2>5, PageSwitches, SessionChanges
  <2> QED
    BY <2>1, <2>2, <2>3, <2>4, <2>5 DEF Session!Next, Session!Streams
<1>3. StreamTypes'
  <2> USE DEF Session!Inside, Session!Outside, StreamTypes, Session!MaxDoublings
  <2>1. CASE Session!Answers
    BY <1>1, <2>1, PageAssumption DEF Session!Answers, Session!ReadMessages, Session!ReadPermissions,
       Session!Deliver, Session!stream
  <2>2. CASE Session!Nudged \/ Session!Tick \/ Session!Unhide
    <3>1. UNCHANGED <<bus, outside>>
      BY <2>2 DEF Session!Nudged, Session!Tick, Session!Unhide
    <3>2. seen' \in BOOLEAN /\ nudge' \in BOOLEAN
      BY <1>1, <2>2 DEF Session!Nudged, Session!Tick, Session!Unhide, Session!stream
    <3>3. source' = source \/ source' = "connecting"
      BY <2>2 DEF Session!Nudged, Session!Tick, Session!Unhide, Session!stream
    <3>4. retries' = retries \/ retries' = 0
      BY <2>2 DEF Session!Nudged, Session!Tick, Session!Unhide, Session!stream
    <3> QED
      BY <1>1, <3>1, <3>2, <3>3, <3>4
  <2>3. CASE Session!ReplyTaken \/ Session!ReplyAnswered \/ Session!Reply
    BY <1>1, <2>3 DEF Session!ReplyTaken, Session!ReplyAnswered, Session!Reply, Session!stream
  <2>4. CASE Session!SourceOpens \/ Session!SourceRetries \/ Session!BusStep
    BY <1>1, <2>4 DEF Session!SourceOpens, Session!SourceRetries, Session!BusStep, Session!stream
  <2>5. CASE Session!SourceFails
    <3>1. nudge' \in BOOLEAN /\ seen' = seen /\ bus' = bus /\ source' = "waiting"
      BY <2>5 DEF Session!SourceFails
    <3>2. retries' \in 0..Session!MaxDoublings /\ outside' \in 0..MaxOuter
      BY <1>1, <2>5, PageAssumption DEF Session!SourceFails
    <3> QED
      BY <1>1, <3>1, <3>2
  <2>6. CASE Session!Hide \/ Session!BusFails
    <3>1. seen' \in BOOLEAN /\ nudge' \in BOOLEAN
      BY <1>1, <2>6 DEF Session!Hide, Session!BusFails, Session!stream
    <3>2. (source' = source \/ source' = "none") /\ (bus' = bus \/ bus' = "backoff")
      BY <2>6 DEF Session!Hide, Session!BusFails, Session!stream
    <3>3. retries' = retries /\ outside' \in 0..MaxOuter
      BY <1>1, <2>6, PageAssumption DEF Session!Hide, Session!BusFails, Session!stream
    <3> QED
      BY <1>1, <3>1, <3>2, <3>3
  <2>7. ASSUME NEW s \in PageSessions, Session!SwitchTo(s) PROVE StreamTypes'
    <3>1. nudge' \in BOOLEAN /\ UNCHANGED <<seen, bus, outside>>
      BY <2>7 DEF Session!SwitchTo
    <3>2. source' \in {"none", "connecting"} /\ retries' = 0
      BY <2>7 DEF Session!SwitchTo
    <3> QED
      BY <1>1, <3>1, <3>2
  <2>8. ASSUME NEW s \in PageSessions, Session!Change(s) PROVE StreamTypes'
    <3>1. nudge' \in BOOLEAN /\ UNCHANGED <<seen, source, retries, bus, outside>>
      BY <1>1, <2>8 DEF Session!Change, Session!stream
    <3> QED
      BY <1>1, <3>1
  <2>9. CASE UNCHANGED sessionVars
    BY <1>1, <2>9 DEF sessionVars
  <2> QED
    BY <2>1, <2>2, <2>3, <2>4, <2>5, <2>6, <2>7, <2>8, <2>9 DEF Session!Next, Session!Streams
<1>4. SessionKept'
  BY <1>2, <1>3 DEF SessionKept
<1> QED
  BY <1>4, SessionParts, PTL

(* A page shows of its session only what that session had, keeps one poll out at a *)
(* time and does not bring back a request that the user answered.                   *)
THEOREM PageIsTrue == Spec => []StreamInv
<1>1. Init => StreamInv
  BY SessionInit DEF Init, StreamInv, SessionOK
<1>2. StreamInv /\ [Next]_vars => StreamInv'
  <2> SUFFICES ASSUME StreamInv, [Next]_vars, moves' = "session"
               PROVE  SessionOK'
    BY DEF StreamInv, SessionOK
  <2> QED
    BY OnePartMoves, SessionStep DEF StreamInv, SessionOK
<1> QED
  BY <1>1, <1>2, PTL DEF Spec
================================================================================
