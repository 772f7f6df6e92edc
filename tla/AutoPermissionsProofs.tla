------------------------- MODULE AutoPermissionsProofs -------------------------
(***************************************************************************)
(* What TLAPS proves of AutoPermissions, for any number of requests and    *)
(* toggles and any caps: the invariant that nobody is forgotten, and that  *)
(* no reply is in flight after a disable returned.                         *)
(***************************************************************************)
EXTENDS AutoPermissions, FiniteSetTheorems, TLAPS

-----------------------------------------------------------------------------
(* The queue                                                               *)

(* What Append does to a queue that holds tasks.                           *)
LEMMA AppendFacts ==
  ASSUME NEW T, NEW q \in Seq(T), NEW x \in T
  PROVE  /\ Append(q, x) \in Seq(T) /\ Append(q, x) # <<>>
         /\ DOMAIN Append(q, x) = DOMAIN q \cup {Len(q) + 1}
         /\ Append(q, x)[Len(q) + 1] = x
         /\ \A i \in DOMAIN q : Append(q, x)[i] = q[i]
         /\ q # <<>> => Head(Append(q, x)) = Head(q) /\ Len(q) + 1 > 1
<1>1. Append(q, x) \in Seq(T) /\ Len(Append(q, x)) = Len(q) + 1 /\ Len(q) \in Nat
  OBVIOUS
<1>2. DOMAIN q = 1 .. Len(q) /\ DOMAIN Append(q, x) = 1 .. Len(q) + 1
  BY <1>1
<1>3. Append(q, x)[Len(q) + 1] = x /\ \A i \in DOMAIN q : Append(q, x)[i] = q[i]
  OBVIOUS
<1>4. q # <<>> => Len(q) > 0 /\ Head(Append(q, x)) = Head(q)
  BY <1>1, <1>2, <1>3
<1>5. Append(q, x) # <<>>
  BY <1>1
<1> QED  BY <1>1, <1>2, <1>3, <1>4, <1>5

(* What Tail does: every other task moves one place forward.               *)
LEMMA TailFacts ==
  ASSUME NEW T, NEW q \in Seq(T), q # <<>>
  PROVE  /\ Tail(q) \in Seq(T)
         /\ Head(q) = q[1] /\ Head(q) \in T /\ 1 \in DOMAIN q
         /\ \A i \in DOMAIN Tail(q) : i + 1 \in DOMAIN q /\ Tail(q)[i] = q[i + 1]
         /\ \A i \in DOMAIN q : i = 1 \/ (i \in Nat /\ i > 1 /\ i - 1 \in DOMAIN Tail(q) /\ Tail(q)[i - 1] = q[i])
  OBVIOUS

(* Tasks are tasks.                                                        *)
LEMMA TaskTypes ==
  ASSUME NEW r \in Requests, NEW t \in Toggles \cup {None}, NEW g \in Nat
  PROVE  /\ AskedTask(r, g) \in Tasks /\ RepliedTask(r) \in Tasks
         /\ ReconcileTask(g, t) \in Tasks /\ DrainTask(t) \in Tasks
  BY DEF AskedTask, RepliedTask, ReconcileTask, DrainTask, Tasks

(* What TaskEnds does to a queue of tasks.                                 *)
LEMMA EndFacts ==
  ASSUME TypeOK, queue # <<>>, TaskEnds
  PROVE  /\ queue' \in Seq(Tasks)
         /\ Head(queue) = queue[1] /\ Head(queue) \in Tasks /\ 1 \in DOMAIN queue
         /\ \A i \in DOMAIN queue' : i + 1 \in DOMAIN queue /\ queue'[i] = queue[i + 1]
         /\ \A i \in DOMAIN queue :
              i = 1 \/ (i \in Nat /\ i > 1 /\ i - 1 \in DOMAIN queue' /\ queue'[i - 1] = queue[i])
<1>1. queue \in Seq(Tasks)  BY DEF TypeOK
<1>2. queue' = Tail(queue)  BY DEF TaskEnds
<1> QED  BY <1>1, <1>2, TailFacts, Zenon

(* What Enqueue does to it.                                                *)
LEMMA EnqueueFacts ==
  ASSUME TypeOK, NEW task \in Tasks, Enqueue(task)
  PROVE  /\ queue' \in Seq(Tasks) /\ queue' # <<>> /\ Len(queue) \in Nat
         /\ DOMAIN queue' = DOMAIN queue \cup {Len(queue) + 1}
         /\ queue'[Len(queue) + 1] = task
         /\ \A i \in DOMAIN queue : queue'[i] = queue[i]
         /\ queue # <<>> => Head(queue') = Head(queue) /\ Len(queue) + 1 > 1
<1>1. queue \in Seq(Tasks)  BY DEF TypeOK
<1>2. queue' = Append(queue, task)  BY DEF Enqueue
<1>3. /\ Append(queue, task) \in Seq(Tasks) /\ Append(queue, task) # <<>>
      /\ DOMAIN Append(queue, task) = DOMAIN queue \cup {Len(queue) + 1}
      /\ Append(queue, task)[Len(queue) + 1] = task
      /\ \A i \in DOMAIN queue : Append(queue, task)[i] = queue[i]
      /\ queue # <<>> => Head(Append(queue, task)) = Head(queue) /\ Len(queue) + 1 > 1
  BY <1>1, AppendFacts, Zenon
<1>4. Len(queue) \in Nat  BY <1>1
<1> QED  BY <1>2, <1>3, <1>4, Zenon

-----------------------------------------------------------------------------
(* What is in hand stays in hand                                           *)

(* The head is done: what was in hand stays in hand, unless the head was   *)
(* what it waited for.                                                     *)
LEMMA EndKeeps ==
  ASSUME TypeOK, HistoryInv, queue # <<>>, TaskEnds, generation' = generation
  PROVE  /\ ToBeReconciled => ToBeReconciled'
         /\ \A r \in Requests : Queued(r) =>
              \/ Queued(r)'
              \/ /\ Head(queue).gen = generation
                 /\ \/ Head(queue).kind = "asked" /\ Head(queue).req = r
                    \/ Head(queue).kind = "reconcile" /\ step \in {"idle", "listing"}
<1>1. Head(queue).by \in Toggles => toggle[Head(queue).by] \in {"waiting", "returned"}
  BY EndFacts DEF HistoryInv
<1>2. ToBeReconciled => ToBeReconciled'
  <2> SUFFICES ASSUME NEW t \in Toggles, want[t], toggle[t] = "persisting"
               PROVE  toggle'[t] = "persisting" /\ want'[t]
    BY DEF ToBeReconciled
  <2> QED  BY <1>1 DEF TaskEnds, TypeOK
<1>3. ASSUME NEW r \in Requests, NEW i \in DOMAIN queue, i # 1, queue[i].gen = generation,
             (queue[i].kind = "asked" /\ queue[i].req = r) \/ queue[i].kind = "reconcile"
      PROVE  Queued(r)'
  <2>1. i - 1 \in DOMAIN queue' /\ queue'[i - 1] = queue[i]
    BY <1>3, EndFacts
  <2>2. step' = "idle"  BY DEF TaskEnds
  <2> QED  BY <1>3, <2>1, <2>2 DEF Queued
<1>4. Head(queue) = queue[1]  BY EndFacts
<1>5. ASSUME NEW r \in Requests, Queued(r)
      PROVE  \/ Queued(r)'
             \/ /\ Head(queue).gen = generation
                /\ \/ Head(queue).kind = "asked" /\ Head(queue).req = r
                   \/ Head(queue).kind = "reconcile" /\ step \in {"idle", "listing"}
  <2>1. PICK i \in DOMAIN queue :
          /\ queue[i].gen = generation
          /\ \/ queue[i].kind = "asked" /\ queue[i].req = r
             \/ queue[i].kind = "reconcile" /\ (i > 1 \/ step \in {"idle", "listing"})
    BY <1>5 DEF Queued
  <2>2. CASE i # 1  BY <1>3, <2>1, <2>2
  <2>3. CASE i = 1  BY <1>4, <2>1, <2>3
  <2> QED  BY <2>2, <2>3
<1> QED  BY <1>2, <1>5

(* A task is queued: the head and what is in hand stay.                    *)
LEMMA EnqueueKeeps ==
  ASSUME TypeOK, HeadInv, NEW task \in Tasks, Enqueue(task), UNCHANGED taskVars,
         generation' = generation, enabled' = enabled
  PROVE  /\ \A r \in Requests : (Queued(r) => Queued(r)') /\ (Running(r) => Running(r)')
         /\ AnotherList => AnotherList'
<1>1. step' = step /\ todo' = todo /\ now' = now
  BY DEF taskVars
<1>2. \A i \in DOMAIN queue : i \in DOMAIN queue' /\ queue'[i] = queue[i]
  BY EnqueueFacts
<1>3. AnotherList => AnotherList'
  BY <1>2 DEF AnotherList
<1>4. \A r \in Requests : Queued(r) => Queued(r)'
  BY <1>1, <1>2 DEF Queued
<1>5. ASSUME NEW r \in Requests, Running(r)
      PROVE  Running(r)'
  <2>1. CASE r \in todo /\ ~Outdated(Head(queue))
    <3>1. queue # <<>>  BY <2>1 DEF HeadInv, Active
    <3>2. Head(queue') = Head(queue)  BY <3>1, EnqueueFacts
    <3> QED  BY <1>1, <2>1, <3>2 DEF Running, Outdated
  <2>2. CASE step = "approving" /\ now = r  BY <1>1, <2>2 DEF Running
  <2> QED  BY <1>5, <2>1, <2>2 DEF Running
<1> QED  BY <1>3, <1>4, <1>5

(* A reconcile of this generation is queued: everything is in hand.        *)
LEMMA EnqueueLists ==
  ASSUME TypeOK, HeadInv, NEW t \in Toggles \cup {None}, Enqueue(ReconcileTask(generation', t)),
         generation' \in Nat, UNCHANGED taskVars
  PROVE  /\ \A r \in Requests : Queued(r)'
         /\ Active => AnotherList'
<1> DEFINE n == Len(queue) + 1
<1>1. ReconcileTask(generation', t) \in Tasks
  BY DEF ReconcileTask, Tasks
<1>2. n \in DOMAIN queue' /\ queue'[n] = ReconcileTask(generation', t) /\ (queue # <<>> => n > 1)
  BY <1>1, EnqueueFacts
<1>3. queue'[n].kind = "reconcile" /\ queue'[n].gen = generation'
  BY <1>2 DEF ReconcileTask
<1>4. queue = <<>> => step' = "idle"
  BY DEF HeadInv, Active, taskVars
<1>5. Active => AnotherList'
  BY <1>2, <1>3 DEF AnotherList, HeadInv
<1>6. n > 1 \/ step' \in {"idle", "listing"}
  BY <1>2, <1>4
<1> QED  BY <1>2, <1>3, <1>5, <1>6 DEF Queued

-----------------------------------------------------------------------------
(* Types, and the cap                                                      *)

(* The part of TypeOK that a task's end can touch.                         *)
LEMMA EndTypes ==
  ASSUME TypeOK, queue # <<>>, TaskEnds
  PROVE  /\ queue' \in Seq(Tasks) /\ step' = "idle" /\ todo' \subseteq Requests
         /\ now' \in Requests \cup {None} /\ want' = want /\ persistQueue' = persistQueue
         /\ toggle' \in [Toggles -> {"unused", "loading", "persisting", "waiting", "returned"}]
  BY EndFacts DEF TaskEnds, TypeOK

(* complete() keeps the answered ids below the cap.                        *)
LEMMA CompleteTypes ==
  ASSUME TypeOK, NEW r \in Requests, Complete(r)
  PROVE  completed' \subseteq Requests /\ IsFiniteSet(completed') /\ Cardinality(completed') <= CompletedCap
<1>1. completed \subseteq Requests /\ IsFiniteSet(completed) /\ Cardinality(completed) <= CompletedCap
  BY DEF TypeOK
<1>2. IsFiniteSet(completed \cup {r})
  BY <1>1, FS_AddElement
<1>3. CASE Cardinality(completed \cup {r}) <= CompletedCap
  BY <1>1, <1>2, <1>3 DEF Complete
<1>4. CASE ~(Cardinality(completed \cup {r}) <= CompletedCap)
  <2>1. PICK oldest \in completed : completed' = (completed \ {oldest}) \cup {r}
    BY <1>4 DEF Complete
  <2>2. IsFiniteSet(completed \ {oldest}) /\ Cardinality(completed \ {oldest}) = Cardinality(completed) - 1
    BY <1>1, FS_RemoveElement
  <2>3. /\ IsFiniteSet((completed \ {oldest}) \cup {r})
        /\ Cardinality((completed \ {oldest}) \cup {r}) <= Cardinality(completed \ {oldest}) + 1
    BY <2>2, FS_AddElement, FS_CardinalityType
  <2>4. CompletedCap \in Nat /\ Cardinality(completed) \in Nat /\ Cardinality(completed') \in Nat
    BY <1>1, <2>1, <2>3, FS_CardinalityType, AutoPermissionsAssumption
  <2> QED  BY <1>1, <2>1, <2>2, <2>3, <2>4
<1> QED  BY <1>3, <1>4

(* Fewer answered ids are still within the cap.                            *)
LEMMA FewerTypes ==
  ASSUME TypeOK, completed' \subseteq completed
  PROVE  completed' \subseteq Requests /\ IsFiniteSet(completed') /\ Cardinality(completed') <= CompletedCap
<1>1. completed \subseteq Requests /\ IsFiniteSet(completed) /\ Cardinality(completed) <= CompletedCap
  BY DEF TypeOK
<1>2. IsFiniteSet(completed') /\ Cardinality(completed') <= Cardinality(completed)
  BY <1>1, FS_Subset
<1>3. CompletedCap \in Nat /\ Cardinality(completed) \in Nat /\ Cardinality(completed') \in Nat
  BY <1>1, <1>2, FS_CardinalityType, AutoPermissionsAssumption
<1> QED  BY <1>1, <1>2, <1>3

(* The steps that end the head of the queue, and nothing else of it.       *)
LEMMA EndTypeStep ==
  ASSUME TypeOK, HeadInv, AskedSkips \/ RepliedClears \/ Drained \/ ReconcileSkips \/ ListFails \/ LoopEnds
  PROVE  TypeOK'
<1>1. queue # <<>> /\ TaskEnds
  BY DEF HeadInv, Active, AskedSkips, RepliedClears, Drained, ReconcileSkips, ListFails, LoopEnds, Ready
<1>2. completed' \subseteq completed /\ failures' \subseteq failures \cup {"reconcile"}
  BY DEF AskedSkips, RepliedClears, Drained, ReconcileSkips, ListFails, LoopEnds, stateVars
<1>3. completed' \subseteq Requests /\ IsFiniteSet(completed') /\ Cardinality(completed') <= CompletedCap
  BY <1>2, FewerTypes
<1>4. UNCHANGED <<enabled, source, generation, flips, serverVars>>
  BY DEF AskedSkips, RepliedClears, Drained, ReconcileSkips, ListFails, LoopEnds, stateVars
<1>5. /\ queue' \in Seq(Tasks) /\ step' = "idle" /\ todo' \subseteq Requests
      /\ now' \in Requests \cup {None} /\ want' = want /\ persistQueue' = persistQueue
      /\ toggle' \in [Toggles -> {"unused", "loading", "persisting", "waiting", "returned"}]
  BY <1>1, EndTypes
<1> QED  BY <1>2, <1>3, <1>4, <1>5 DEF TypeOK, serverVars

(* The steps of the head of the queue that do not end it.                  *)
LEMMA HeadTypeStep ==
  ASSUME TypeOK, HeadInv,
         \/ AskedApproves \/ ReconcileLists \/ ListServed \/ ListArrives \/ ReplyServed
         \/ \E r \in Requests : LoopApproves(r)
  PROVE  TypeOK'
<1>1. CASE AskedApproves
  <2>1. Head(queue) \in Tasks
    BY <1>1, TailFacts DEF AskedApproves, Ready, TypeOK
  <2>2. now' \in Requests \cup {None}
    BY <1>1, <2>1 DEF AskedApproves, Tasks
  <2> QED  BY <1>1, <2>2 DEF AskedApproves, TypeOK, stateVars, toggleVars, serverVars
<1>2. CASE ReconcileLists
  BY <1>2 DEF ReconcileLists, TypeOK, stateVars, toggleVars, serverVars
<1>3. CASE ListServed
  BY <1>3 DEF ListServed, TypeOK, stateVars, toggleVars, serverVars
<1>4. CASE ListArrives
  <2>1. completed' \subseteq Requests /\ IsFiniteSet(completed') /\ Cardinality(completed') <= CompletedCap
    BY <1>4, FewerTypes DEF ListArrives
  <2> QED  BY <1>4, <2>1 DEF ListArrives, TypeOK, toggleVars, serverVars
<1>5. CASE ReplyServed
  <2>1. replied' \in [Requests -> Progress]
    BY <1>5 DEF ReplyServed, TypeOK, Progress
  <2> QED  BY <1>5, <2>1 DEF ReplyServed, TypeOK, stateVars, toggleVars
<1>6. CASE \E r \in Requests : LoopApproves(r)
  BY <1>6 DEF LoopApproves, TypeOK, stateVars, toggleVars, serverVars
<1> QED  BY <1>1, <1>2, <1>3, <1>4, <1>5, <1>6

(* The answer to a reply.                                                  *)
LEMMA ApproveTypeStep ==
  ASSUME TypeOK, HeadInv, Approved \/ ApproveFails
  PROVE  TypeOK'
<1>1. step = "approving" /\ queue # <<>> /\ now \in Requests
  BY DEF HeadInv, Active, Approved, ApproveFails
<1>2. completed' \subseteq Requests /\ IsFiniteSet(completed') /\ Cardinality(completed') <= CompletedCap
  <2>1. CASE Approved  BY <1>1, <2>1, CompleteTypes DEF Approved
  <2>2. CASE ApproveFails  BY <2>2 DEF ApproveFails, TypeOK
  <2> QED  BY <2>1, <2>2
<1>3. failures' \subseteq Requests \cup {"reconcile"}
  BY <1>1 DEF Approved, ApproveFails, TypeOK
<1>4. UNCHANGED <<enabled, source, generation, flips, serverVars>> /\ ApproveReturns
  BY DEF Approved, ApproveFails
<1>5. /\ queue' \in Seq(Tasks) /\ step' \in {"idle", "looping"} /\ todo' \subseteq Requests
      /\ now' \in Requests \cup {None} /\ want' = want /\ persistQueue' = persistQueue
      /\ toggle' \in [Toggles -> {"unused", "loading", "persisting", "waiting", "returned"}]
  <2>1. CASE Head(queue).kind = "reconcile"
    BY <1>4, <2>1 DEF ApproveReturns, TypeOK, toggleVars
  <2>2. CASE Head(queue).kind # "reconcile"
    BY <1>1, <1>4, <2>2, EndTypes DEF ApproveReturns
  <2> QED  BY <2>1, <2>2
<1> QED  BY <1>2, <1>3, <1>4, <1>5 DEF TypeOK, serverVars

(* The steps of setEnabled().                                              *)
LEMMA ToggleTypeStep ==
  ASSUME TypeOK, NEW t \in Toggles,
         (\E b \in BOOLEAN : ToggleArrives(t, b)) \/ ToggleFlips(t) \/ TogglePersisted(t)
  PROVE  TypeOK'
<1>1. CASE \E b \in BOOLEAN : ToggleArrives(t, b)
  BY <1>1 DEF ToggleArrives, TypeOK, stateVars, taskVars, serverVars
<1>2. CASE ToggleFlips(t)
  <2>1. persistQueue' \in Seq(Toggles)
    BY <1>2 DEF ToggleFlips, TypeOK
  <2>2. enabled' \in BOOLEAN /\ generation' \in Nat
    BY <1>2 DEF ToggleFlips, TypeOK
  <2> QED  BY <1>2, <2>1, <2>2 DEF ToggleFlips, TypeOK, taskVars, serverVars
<1>3. CASE TogglePersisted(t)
  <2>1. persistQueue' \in Seq(Toggles)
    BY <1>3 DEF TogglePersisted, TypeOK
  <2>2. (IF want[t] THEN ReconcileTask(generation, t) ELSE DrainTask(t)) \in Tasks
    BY DEF ReconcileTask, DrainTask, Tasks, TypeOK
  <2>3. queue' \in Seq(Tasks)
    BY <1>3, <2>2, EnqueueFacts DEF TogglePersisted
  <2> QED  BY <1>3, <2>1, <2>3 DEF TogglePersisted, TypeOK, stateVars, taskVars, serverVars
<1> QED  BY <1>1, <1>2, <1>3

(* The steps of the state file.                                            *)
LEMMA FileTypeStep ==
  ASSUME TypeOK, FileLists \/ FileDrops
  PROVE  TypeOK'
<1>1. generation' \in Nat /\ flips' \in 0..MaxFlips /\ enabled' \in BOOLEAN
  <2>1. generation \in Nat /\ flips \in 0..MaxFlips /\ MaxFlips \in Nat
    BY AutoPermissionsAssumption DEF TypeOK
  <2>2. flips < MaxFlips /\ flips' = flips + 1 /\ generation' = generation + 1 /\ enabled' \in BOOLEAN
    BY DEF FileLists, FileDrops
  <2> QED  BY <2>1, <2>2
<1>2. queue' \in Seq(Tasks)
  <2>1. ReconcileTask(generation', None) \in Tasks
    BY <1>1 DEF ReconcileTask, Tasks
  <2>2. CASE FileLists  BY <2>1, <2>2, EnqueueFacts DEF FileLists
  <2>3. CASE FileDrops  BY <2>3 DEF FileDrops, TypeOK
  <2> QED  BY <2>2, <2>3
<1>3. UNCHANGED <<source, failures, completed, taskVars, toggleVars, serverVars>>
  BY DEF FileLists, FileDrops
<1> QED  BY <1>1, <1>2, <1>3 DEF TypeOK, taskVars, toggleVars, serverVars

(* The steps of the bus.                                                   *)
LEMMA BusTypeStep ==
  ASSUME TypeOK,
         \/ StreamLost \/ Reconnected
         \/ \E r \in Requests : RequestOpens(r) \/ HumanReplies(r) \/ HandleAsked(r) \/ HandleReplied(r)
  PROVE  TypeOK'
<1>1. UNCHANGED <<stateVars, taskVars, toggleVars, flips>>
  BY DEF StreamLost, Reconnected, RequestOpens, HumanReplies, HandleAsked, HandleReplied
<1>2. queue' \in Seq(Tasks)
  <2>1. CASE Reconnected
    <3>1. ReconcileTask(generation, None) \in Tasks
      BY DEF ReconcileTask, Tasks, TypeOK
    <3> QED  BY <2>1, <3>1, EnqueueFacts DEF Reconnected, TypeOK
  <2>2. CASE StreamLost  BY <2>2 DEF StreamLost, TypeOK
  <2>3. ASSUME NEW r \in Requests, RequestOpens(r) \/ HumanReplies(r)
        PROVE  queue' \in Seq(Tasks)
    BY <2>3 DEF RequestOpens, HumanReplies, TypeOK
  <2>4. ASSUME NEW r \in Requests, HandleAsked(r)
        PROVE  queue' \in Seq(Tasks)
    <3>1. AskedTask(r, generation) \in Tasks
      BY DEF AskedTask, Tasks, TypeOK
    <3> QED  BY <2>4, <3>1, EnqueueFacts DEF HandleAsked, TypeOK
  <2>5. ASSUME NEW r \in Requests, HandleReplied(r)
        PROVE  queue' \in Seq(Tasks)
    <3>1. RepliedTask(r) \in Tasks
      BY DEF RepliedTask, Tasks
    <3> QED  BY <2>5, <3>1, EnqueueFacts DEF HandleReplied
  <2> QED  BY <2>1, <2>2, <2>3, <2>4, <2>5
<1>3. pending' \subseteq Requests /\ connected' \in BOOLEAN
  BY DEF StreamLost, Reconnected, RequestOpens, HumanReplies, HandleAsked, HandleReplied, TypeOK
<1>5. drops' \in 0..MaxDrops
  <2>1. drops \in 0..MaxDrops /\ MaxDrops \in Nat
    BY AutoPermissionsAssumption DEF TypeOK
  <2>2. drops' = drops \/ (drops < MaxDrops /\ drops' = drops + 1)
    BY DEF StreamLost, Reconnected, RequestOpens, HumanReplies, HandleAsked, HandleReplied
  <2> QED  BY <2>1, <2>2
<1>4. asked' \in [Requests -> Progress] /\ replied' \in [Requests -> Progress]
  <2>1. CASE StreamLost  BY <2>1 DEF StreamLost, TypeOK, Progress
  <2>2. CASE ~StreamLost
    BY <2>2 DEF Reconnected, RequestOpens, HumanReplies, HandleAsked, HandleReplied, TypeOK, Progress
  <2> QED  BY <2>1, <2>2
<1> QED  BY <1>1, <1>2, <1>3, <1>4, <1>5 DEF TypeOK, stateVars, taskVars, toggleVars

(* Every step keeps the types.                                             *)
LEMMA TypeStep ==
  ASSUME TypeOK, HeadInv, [Next]_vars
  PROVE  TypeOK'
<1>1. CASE QueueStep
  BY <1>1, EndTypeStep, HeadTypeStep, ApproveTypeStep DEF QueueStep
<1>2. CASE \E t \in Toggles :
             (\E b \in BOOLEAN : ToggleArrives(t, b)) \/ ToggleFlips(t) \/ TogglePersisted(t)
  BY <1>2, ToggleTypeStep
<1>3. CASE FileLists \/ FileDrops
  BY <1>3, FileTypeStep
<1>4. CASE \/ StreamLost \/ Reconnected
           \/ \E r \in Requests : RequestOpens(r) \/ HumanReplies(r) \/ HandleAsked(r) \/ HandleReplied(r)
  BY <1>4, BusTypeStep
<1>5. CASE UNCHANGED vars
  BY <1>5 DEF vars, stateVars, taskVars, toggleVars, serverVars, TypeOK
<1> QED  BY <1>1, <1>2, <1>3, <1>4, <1>5 DEF Next

-----------------------------------------------------------------------------
(* The running task is the head of the queue                               *)

(* A task at the tail does not disturb the head.                           *)
LEMMA EnqueueHead ==
  ASSUME TypeOK, HeadInv, NEW task \in Tasks, Enqueue(task), UNCHANGED taskVars
  PROVE  HeadInv'
<1>1. queue' # <<>> /\ (queue # <<>> => Head(queue') = Head(queue))
  BY EnqueueFacts
<1> QED  BY <1>1 DEF HeadInv, Active, taskVars

(* The steps of the running task keep it at the head.                      *)
LEMMA QueueHeadStep ==
  ASSUME TypeOK, HeadInv, HistoryInv, QueueStep
  PROVE  HeadInv'
<1>1. CASE TaskEnds
  BY <1>1 DEF TaskEnds, HeadInv, Active
<1>2. CASE AskedApproves
  <2>1. queue # <<>> /\ todo = {} /\ Head(queue).kind = "asked"
    BY <1>2 DEF AskedApproves, Ready, HeadInv, Active
  <2>2. Head(queue) = queue[1] /\ 1 \in DOMAIN queue
    BY <2>1, TailFacts DEF TypeOK
  <2>3. Head(queue).req \in Requests
    BY <2>1, <2>2 DEF HistoryInv
  <2> QED  BY <1>2, <2>1, <2>3 DEF AskedApproves, HeadInv, Active
<1>3. CASE ReconcileLists
  BY <1>3 DEF ReconcileLists, Ready, HeadInv, Active
<1>4. CASE ListServed
  BY <1>4 DEF ListServed, HeadInv, Active
<1>5. CASE ListArrives
  BY <1>5 DEF ListArrives, HeadInv, Active
<1>6. ASSUME NEW r \in Requests, LoopApproves(r)
      PROVE  HeadInv'
  BY <1>6 DEF LoopApproves, HeadInv, Active
<1>7. CASE ReplyServed
  BY <1>7 DEF ReplyServed, HeadInv, Active
<1>8. CASE (Approved \/ ApproveFails) /\ ~TaskEnds
  BY <1>8 DEF Approved, ApproveFails, ApproveReturns, HeadInv, Active
<1> QED  BY <1>1, <1>2, <1>3, <1>4, <1>5, <1>6, <1>7, <1>8
         DEF QueueStep, AskedSkips, RepliedClears, Drained, ReconcileSkips, ListFails, LoopEnds

(* A step outside the running task leaves the queue or appends to it.      *)
LEMMA OtherSteps ==
  ASSUME TypeOK, [Next]_vars, ~QueueStep
  PROVE  /\ UNCHANGED taskVars
         /\ UNCHANGED queue \/ \E task \in Tasks : Enqueue(task)
<1>1. \A r \in Requests : AskedTask(r, generation) \in Tasks /\ RepliedTask(r) \in Tasks
  BY DEF AskedTask, RepliedTask, Tasks, TypeOK
<1>2. \A t \in Toggles \cup {None} :
        /\ ReconcileTask(generation, t) \in Tasks /\ DrainTask(t) \in Tasks
        /\ ReconcileTask(generation + 1, t) \in Tasks
  BY DEF ReconcileTask, DrainTask, Tasks, TypeOK
<1>3. CASE \E t \in Toggles : (\E b \in BOOLEAN : ToggleArrives(t, b)) \/ ToggleFlips(t) \/ TogglePersisted(t)
  BY <1>2, <1>3 DEF ToggleArrives, ToggleFlips, TogglePersisted
<1>4. CASE FileLists \/ FileDrops
  BY <1>2, <1>4 DEF FileLists, FileDrops
<1>5. CASE StreamLost \/ Reconnected
  BY <1>2, <1>5 DEF StreamLost, Reconnected
<1>6. CASE \E r \in Requests : RequestOpens(r) \/ HumanReplies(r) \/ HandleAsked(r) \/ HandleReplied(r)
  BY <1>1, <1>6 DEF RequestOpens, HumanReplies, HandleAsked, HandleReplied
<1>7. CASE UNCHANGED vars
  BY <1>7 DEF vars
<1> QED  BY <1>3, <1>4, <1>5, <1>6, <1>7 DEF Next

(* Every step keeps HeadInv.                                               *)
LEMMA HeadStep ==
  ASSUME TypeOK, HeadInv, HistoryInv, [Next]_vars
  PROVE  HeadInv'
<1>1. CASE QueueStep
  BY <1>1, QueueHeadStep
<1>2. CASE ~QueueStep /\ UNCHANGED queue
  BY <1>2, OtherSteps DEF HeadInv, Active, taskVars
<1>3. CASE ~QueueStep /\ \E task \in Tasks : Enqueue(task)
  BY <1>3, OtherSteps, EnqueueHead
<1> QED  BY <1>1, <1>2, <1>3, OtherSteps

-----------------------------------------------------------------------------
(* What happened to a request and to a call                                *)

(* Events that were sent stay sent, and calls do not go back.              *)
LEMMA History ==
  ASSUME TypeOK, [Next]_vars
  PROVE  /\ \A r \in Requests : asked[r] # "unsent" => asked'[r] # "unsent"
         /\ \A r \in Requests : replied[r] # "unsent" => replied'[r] # "unsent"
         /\ \A t \in Toggles : toggle[t] \in {"waiting", "returned"} => toggle'[t] \in {"waiting", "returned"}
<1>1. \A r \in Requests : asked[r] # "unsent" => asked'[r] # "unsent"
  <2>1. CASE UNCHANGED asked  BY <2>1
  <2>2. CASE StreamLost  BY <2>2 DEF StreamLost
  <2>3. CASE \E r \in Requests : RequestOpens(r) \/ HandleAsked(r)
    BY <2>3 DEF RequestOpens, HandleAsked, TypeOK
  <2> QED
    BY <2>1, <2>2, <2>3
       DEF Next, QueueStep, AskedSkips, AskedApproves, RepliedClears, Drained, ReconcileSkips, ReconcileLists,
           ListServed, ListArrives, ListFails, LoopApproves, LoopEnds, ReplyServed, Approved, ApproveFails,
           ToggleArrives, ToggleFlips, TogglePersisted, FileLists, FileDrops, HumanReplies, HandleReplied,
           Reconnected, serverVars, vars
<1>2. \A r \in Requests : replied[r] # "unsent" => replied'[r] # "unsent"
  <2>1. CASE UNCHANGED replied  BY <2>1
  <2>2. CASE StreamLost  BY <2>2 DEF StreamLost
  <2>3. CASE ReplyServed \/ \E r \in Requests : HumanReplies(r) \/ HandleReplied(r)
    BY <2>3 DEF ReplyServed, HumanReplies, HandleReplied, TypeOK
  <2> QED
    BY <2>1, <2>2, <2>3
       DEF Next, QueueStep, AskedSkips, AskedApproves, RepliedClears, Drained, ReconcileSkips, ReconcileLists,
           ListServed, ListArrives, ListFails, LoopApproves, LoopEnds, Approved, ApproveFails,
           ToggleArrives, ToggleFlips, TogglePersisted, FileLists, FileDrops, RequestOpens, HandleAsked,
           Reconnected, serverVars, vars
<1>3. \A t \in Toggles : toggle[t] \in {"waiting", "returned"} => toggle'[t] \in {"waiting", "returned"}
  <2>1. CASE UNCHANGED toggle  BY <2>1
  <2>2. CASE TaskEnds  BY <2>2 DEF TaskEnds
  <2>3. CASE \E t \in Toggles : (\E b \in BOOLEAN : ToggleArrives(t, b)) \/ ToggleFlips(t) \/ TogglePersisted(t)
    BY <2>3 DEF ToggleArrives, ToggleFlips, TogglePersisted, TypeOK
  <2> QED
    BY <2>1, <2>2, <2>3
       DEF Next, QueueStep, AskedSkips, AskedApproves, RepliedClears, Drained, ReconcileSkips, ReconcileLists,
           ListServed, ListArrives, ListFails, LoopApproves, LoopEnds, ReplyServed, Approved, ApproveFails,
           ApproveReturns, FileLists, FileDrops, RequestOpens, HumanReplies, HandleAsked, HandleReplied,
           StreamLost, Reconnected, toggleVars, vars
<1> QED  BY <1>1, <1>2, <1>3

(* What a queued task says of its request and its call.                    *)
TaskHistory(task) ==
  /\ task.kind = "asked" => task.req \in Requests /\ asked[task.req] # "unsent"
  /\ task.kind = "replied" => task.req \in Requests /\ replied[task.req] # "unsent"
  /\ task.by \in Toggles => toggle[task.by] \in {"waiting", "returned"}

(* It stays true of tasks that stay queued.                                *)
LEMMA TaskHistoryStep ==
  ASSUME TypeOK, [Next]_vars, NEW task \in Tasks, TaskHistory(task)
  PROVE  TaskHistory(task)'
  BY History DEF TaskHistory

(* It is true of the tasks that are appended.                              *)
LEMMA NewTasks ==
  ASSUME TypeOK, [Next]_vars, ~QueueStep
  PROVE  UNCHANGED queue \/ \E task \in Tasks : Enqueue(task) /\ TaskHistory(task)'
<1>1. \A r \in Requests : AskedTask(r, generation) \in Tasks /\ RepliedTask(r) \in Tasks
  BY DEF AskedTask, RepliedTask, Tasks, TypeOK
<1>2. \A t \in Toggles \cup {None} :
        /\ ReconcileTask(generation, t) \in Tasks /\ DrainTask(t) \in Tasks
        /\ ReconcileTask(generation + 1, t) \in Tasks
  BY DEF ReconcileTask, DrainTask, Tasks, TypeOK
<1>3. \A g : TaskHistory(ReconcileTask(g, None))'
  BY AutoPermissionsAssumption DEF TaskHistory, ReconcileTask
<1>4. CASE \E t \in Toggles : (\E b \in BOOLEAN : ToggleArrives(t, b)) \/ ToggleFlips(t)
  BY <1>4 DEF ToggleArrives, ToggleFlips
<1>5. ASSUME NEW t \in Toggles, TogglePersisted(t)
      PROVE  \E task \in Tasks : Enqueue(task) /\ TaskHistory(task)'
  <2>1. PICK new \in Tasks : new = IF want[t] THEN ReconcileTask(generation, t) ELSE DrainTask(t)
    BY <1>2
  <2>2. Enqueue(new) /\ toggle'[t] = "waiting"
    BY <1>5, <2>1 DEF TogglePersisted, TypeOK
  <2>3. new.kind \in {"reconcile", "drain"} /\ new.by = t
    BY <2>1 DEF ReconcileTask, DrainTask
  <2>4. TaskHistory(new)'
    BY <2>2, <2>3 DEF TaskHistory
  <2> QED  BY <2>2, <2>4
<1>6. CASE FileLists \/ FileDrops
  <2>1. CASE FileDrops  BY <2>1 DEF FileDrops
  <2>2. CASE FileLists
    <3>1. Enqueue(ReconcileTask(generation + 1, None))
      BY <2>2 DEF FileLists
    <3> QED  BY <1>2, <1>3, <3>1
  <2> QED  BY <1>6, <2>1, <2>2
<1>7. CASE StreamLost \/ Reconnected
  <2>1. UNCHANGED queue \/ Enqueue(ReconcileTask(generation, None))
    BY <1>7 DEF StreamLost, Reconnected
  <2> QED  BY <1>2, <1>3, <2>1
<1>8. ASSUME NEW r \in Requests, RequestOpens(r) \/ HumanReplies(r)
      PROVE  UNCHANGED queue
  BY <1>8 DEF RequestOpens, HumanReplies
<1>9. ASSUME NEW r \in Requests, HandleAsked(r)
      PROVE  UNCHANGED queue \/ \E task \in Tasks : Enqueue(task) /\ TaskHistory(task)'
  <2>1. asked'[r] = "handled"  BY <1>9 DEF HandleAsked, TypeOK
  <2>2. \A g : TaskHistory(AskedTask(r, g))'
    BY <2>1, AutoPermissionsAssumption DEF TaskHistory, AskedTask
  <2>3. UNCHANGED queue \/ Enqueue(AskedTask(r, generation))
    BY <1>9 DEF HandleAsked
  <2> QED  BY <1>1, <2>2, <2>3
<1>10. ASSUME NEW r \in Requests, HandleReplied(r)
       PROVE  \E task \in Tasks : Enqueue(task) /\ TaskHistory(task)'
  <2>1. replied'[r] = "handled"  BY <1>10 DEF HandleReplied, TypeOK
  <2>2. TaskHistory(RepliedTask(r))'
    BY <2>1, AutoPermissionsAssumption DEF TaskHistory, RepliedTask
  <2>3. Enqueue(RepliedTask(r))
    BY <1>10 DEF HandleReplied
  <2> QED  BY <1>1, <2>2, <2>3
<1>11. CASE UNCHANGED vars
  BY <1>11 DEF vars
<1> QED  BY <1>4, <1>5, <1>6, <1>7, <1>8, <1>9, <1>10, <1>11 DEF Next

(* The running task's steps end it or leave the queue.                     *)
LEMMA QueueSteps ==
  ASSUME HeadInv, QueueStep
  PROVE  queue # <<>> /\ (UNCHANGED queue \/ TaskEnds)
  BY DEF QueueStep, AskedSkips, AskedApproves, RepliedClears, Drained, ReconcileSkips, ReconcileLists,
         ListServed, ListArrives, ListFails, LoopApproves, LoopEnds, ReplyServed, Approved, ApproveFails,
         ApproveReturns, Ready, HeadInv, Active

(* Every queued task keeps its history.                                    *)
LEMMA TaskHistoriesStep ==
  ASSUME TypeOK, HeadInv, [Next]_vars, \A i \in DOMAIN queue : TaskHistory(queue[i])
  PROVE  \A i \in DOMAIN queue' : TaskHistory(queue[i])'
<1>1. \A i \in DOMAIN queue : queue[i] \in Tasks
  BY DEF TypeOK
<1>2. ASSUME NEW i \in DOMAIN queue', NEW j \in DOMAIN queue, queue'[i] = queue[j]
      PROVE  TaskHistory(queue[i])'
  <2>1. TaskHistory(queue[j]) /\ queue[j] \in Tasks  BY <1>1
  <2> DEFINE task == queue[j]
  <2>2. \A x \in Tasks : TaskHistory(x) => TaskHistory(x)'
    BY TaskHistoryStep
  <2> QED  BY <1>2, <2>1, <2>2 DEF TaskHistory
<1>3. CASE UNCHANGED queue
  BY <1>2, <1>3
<1>4. CASE TaskEnds /\ queue # <<>>
  BY <1>2, <1>4, EndFacts
<1>5. ASSUME NEW task \in Tasks, Enqueue(task), TaskHistory(task)'
      PROVE  \A i \in DOMAIN queue' : TaskHistory(queue[i])'
  <2>1. /\ DOMAIN queue' = DOMAIN queue \cup {Len(queue) + 1}
        /\ queue'[Len(queue) + 1] = task
        /\ \A i \in DOMAIN queue : queue'[i] = queue[i]
    BY <1>5, EnqueueFacts
  <2> QED  BY <1>2, <1>5, <2>1 DEF TaskHistory
<1> QED  BY <1>3, <1>4, <1>5, NewTasks, QueueSteps

(* What is open, listed, replied to or answered was asked, what is open is *)
(* not answered, and the event of a reply comes after it.                  *)
LEMMA RequestsStep ==
  ASSUME TypeOK, HeadInv, HistoryInv, [Next]_vars
  PROVE  /\ \A r \in Requests : asked'[r] = "unsent" => r \notin pending' \cup completed' \cup todo' \cup {now'}
         /\ completed' \cap pending' = {}
         /\ \A r \in Requests : replied'[r] # "unsent" => r \notin pending' /\ asked'[r] # "unsent"
<1> USE AutoPermissionsAssumption
<1>1. \A r \in Requests : r \in todo' \cup {now'} => asked[r] # "unsent"
  <2>1. CASE UNCHANGED <<todo, now>>  BY <2>1 DEF HistoryInv
  <2>2. CASE TaskEnds  BY <2>2 DEF TaskEnds
  <2>3. CASE AskedApproves
    <3>1. queue # <<>> /\ Head(queue).kind = "asked"  BY <2>3 DEF AskedApproves, Ready
    <3>2. Head(queue) = queue[1] /\ 1 \in DOMAIN queue  BY <3>1, TailFacts DEF TypeOK
    <3>3. asked[Head(queue).req] # "unsent"  BY <3>1, <3>2 DEF HistoryInv
    <3> QED  BY <2>3, <3>3 DEF AskedApproves, HistoryInv
  <2>4. CASE ListServed  BY <2>4 DEF ListServed, HistoryInv
  <2>5. CASE \E r \in Requests : LoopApproves(r)  BY <2>5 DEF LoopApproves, HistoryInv
  <2>6. CASE (Approved \/ ApproveFails) /\ ~TaskEnds
    BY <2>6 DEF Approved, ApproveFails, ApproveReturns, HistoryInv
  <2>7. CASE ~QueueStep  BY <2>1, <2>7, OtherSteps DEF taskVars
  <2> QED
    BY <2>1, <2>2, <2>3, <2>4, <2>5, <2>6, <2>7
       DEF QueueStep, AskedSkips, RepliedClears, Drained, ReconcileSkips, ReconcileLists, ListArrives,
           ListFails, LoopEnds, ReplyServed
<1>2. \A r \in pending' :
        r \in pending \/ (asked[r] = "unsent" /\ asked'[r] # "unsent" /\ UNCHANGED <<completed, replied>>)
  <2>1. CASE pending' \subseteq pending  BY <2>1
  <2>2. CASE \E r \in Requests : RequestOpens(r)
    BY <2>2 DEF RequestOpens, TypeOK, stateVars
  <2> QED
    BY <2>1, <2>2
       DEF Next, QueueStep, AskedSkips, AskedApproves, RepliedClears, Drained, ReconcileSkips, ReconcileLists,
           ListServed, ListArrives, ListFails, LoopApproves, LoopEnds, ReplyServed, Approved, ApproveFails,
           ToggleArrives, ToggleFlips, TogglePersisted, FileLists, FileDrops, HumanReplies, HandleAsked,
           HandleReplied, StreamLost, Reconnected, serverVars, vars
<1>3. \A r \in completed' : r \in completed \/ (r = now /\ step = "approving" /\ now \notin pending /\ pending' = pending)
  <2>1. CASE completed' \subseteq completed  BY <2>1
  <2>2. CASE Approved
    BY <2>2 DEF Approved, Complete, serverVars
  <2> QED
    BY <2>1, <2>2
       DEF Next, QueueStep, AskedSkips, AskedApproves, RepliedClears, Drained, ReconcileSkips, ReconcileLists,
           ListServed, ListArrives, ListFails, LoopApproves, LoopEnds, ReplyServed, ApproveFails,
           ToggleArrives, ToggleFlips, TogglePersisted, FileLists, FileDrops, RequestOpens, HumanReplies,
           HandleAsked, HandleReplied, StreamLost, Reconnected, stateVars, vars
<1>4. \A r \in Requests : replied'[r] # "unsent" => replied[r] # "unsent" \/ (r \in pending /\ r \notin pending')
  <2>1. CASE UNCHANGED replied  BY <2>1
  <2>2. CASE StreamLost  BY <2>2 DEF StreamLost
  <2>3. CASE ReplyServed \/ \E r \in Requests : HumanReplies(r)
    BY <2>3 DEF ReplyServed, HumanReplies, TypeOK
  <2>4. ASSUME NEW q \in Requests, HandleReplied(q)
        PROVE  \A r \in Requests : replied'[r] # "unsent" => replied[r] # "unsent"
    BY <2>4 DEF HandleReplied, TypeOK
  <2> QED
    BY <2>1, <2>2, <2>3, <2>4
       DEF Next, QueueStep, AskedSkips, AskedApproves, RepliedClears, Drained, ReconcileSkips, ReconcileLists,
           ListServed, ListArrives, ListFails, LoopApproves, LoopEnds, Approved, ApproveFails,
           ToggleArrives, ToggleFlips, TogglePersisted, FileLists, FileDrops, RequestOpens, HandleAsked,
           Reconnected, serverVars, vars
<1>5. \A r \in Requests : asked[r] # "unsent" => asked'[r] # "unsent"
  BY History
<1>6. pending' \subseteq Requests /\ completed' \subseteq Requests
  BY TypeStep DEF TypeOK
<1>7. /\ \A r \in Requests : asked[r] = "unsent" => r \notin pending \cup completed \cup todo \cup {now}
      /\ completed \cap pending = {}
      /\ \A r \in Requests : replied[r] # "unsent" => r \notin pending /\ asked[r] # "unsent"
  BY DEF HistoryInv
<1>8. \A r \in Requests : asked'[r] = "unsent" => r \notin pending' \cup completed' \cup todo' \cup {now'}
  BY <1>1, <1>2, <1>3, <1>5, <1>7
<1>9. completed' \cap pending' = {}
  BY <1>2, <1>3, <1>6, <1>7
<1>10. \A r \in Requests : replied'[r] # "unsent" => r \notin pending' /\ asked'[r] # "unsent"
  BY <1>2, <1>4, <1>5, <1>7
<1> QED  BY <1>8, <1>9, <1>10

(* Every step keeps HistoryInv.                                            *)
LEMMA HistoryStep ==
  ASSUME TypeOK, HeadInv, HistoryInv, [Next]_vars
  PROVE  HistoryInv'
<1>1. \A i \in DOMAIN queue : TaskHistory(queue[i])
  BY DEF HistoryInv, TaskHistory
<1>2. \A i \in DOMAIN queue' : TaskHistory(queue[i])'
  BY <1>1, TaskHistoriesStep
<1> QED  BY <1>2, RequestsStep DEF HistoryInv, TaskHistory

-----------------------------------------------------------------------------
(* Nobody is forgotten outside the running task                            *)

(* Where it does not matter that a request is in hand: it will be.         *)
LEMMA SameInHand ==
  ASSUME TypeOK, NEW r \in Requests, InHand(r),
         UNCHANGED <<enabled, generation, queue, taskVars, asked, connected>>,
         ToBeReconciled => ToBeReconciled'
  PROVE  InHand(r)'
<1>1. UNCHANGED <<step, todo, now>>  BY DEF taskVars
<1>2. EventUnderway(r) => EventUnderway(r)'  BY DEF EventUnderway
<1>3. Queued(r) => Queued(r)'  BY <1>1 DEF Queued
<1>4. Running(r) => Running(r)'  BY <1>1 DEF Running, Outdated
<1> QED  BY <1>2, <1>3, <1>4 DEF InHand

(* The same when a task was appended.                                      *)
LEMMA AppendInHand ==
  ASSUME TypeOK, HeadInv, NEW task \in Tasks, Enqueue(task), NEW r \in Requests,
         UNCHANGED <<enabled, generation, taskVars>>,
         Queued(r) \/ Running(r)
  PROVE  InHand(r)'
  BY EnqueueKeeps DEF InHand

(* Every step of a toggle, the file or the bus keeps what is in hand in    *)
(* hand and takes what is new in hand; a toggle or the file that enables   *)
(* takes everything in hand.                                               *)
LEMMA OtherInHand ==
  ASSUME TypeOK, HeadInv, [Next]_vars, ~QueueStep, enabled', NEW r \in Requests,
         enabled => InHand(r) \/ r \in pending' \ pending
  PROVE  InHand(r)'
<1>1. ASSUME NEW t \in Toggles, NEW b \in BOOLEAN, ToggleArrives(t, b)
      PROVE  InHand(r)'
  <2>1. UNCHANGED <<enabled, generation, queue, taskVars, pending, asked, connected>>
    BY <1>1 DEF ToggleArrives, stateVars, serverVars
  <2>2. ToBeReconciled => ToBeReconciled'
    BY <1>1 DEF ToBeReconciled, ToggleArrives, TypeOK
  <2> QED  BY <2>1, <2>2, SameInHand
<1>2. ASSUME NEW t \in Toggles, ToggleFlips(t)
      PROVE  InHand(r)'
  <2>1. want'[t] /\ toggle'[t] = "persisting"
    BY <1>2 DEF ToggleFlips, TypeOK
  <2> QED  BY <2>1 DEF InHand, ToBeReconciled
<1>3. ASSUME NEW t \in Toggles, TogglePersisted(t)
      PROVE  InHand(r)'
  <2>1. UNCHANGED <<enabled, generation, taskVars, pending, asked, connected, want>>
    BY <1>3 DEF TogglePersisted, stateVars, serverVars
  <2>2. CASE want[t]
    <3>1. Enqueue(ReconcileTask(generation', t)) /\ generation' \in Nat
      BY <1>3, <2>1, <2>2 DEF TogglePersisted, TypeOK
    <3> QED  BY <2>1, <3>1, EnqueueLists DEF InHand
  <2>3. CASE ~want[t]
    <3>1. DrainTask(t) \in Tasks /\ Enqueue(DrainTask(t))
      BY <1>3, <2>3 DEF TogglePersisted, DrainTask, Tasks, TypeOK
    <3>2. ToBeReconciled => ToBeReconciled'
      BY <1>3, <2>1, <2>3 DEF ToBeReconciled, TogglePersisted, TypeOK
    <3>3. EventUnderway(r) => EventUnderway(r)'
      BY <2>1 DEF EventUnderway
    <3>4. EventUnderway(r) \/ Queued(r) \/ Running(r) \/ ToBeReconciled
      BY <2>1 DEF InHand
    <3> QED  BY <2>1, <3>1, <3>2, <3>3, <3>4, AppendInHand DEF InHand
  <2> QED  BY <2>2, <2>3
<1>4. CASE FileLists
  <2>1. Enqueue(ReconcileTask(generation', None)) /\ generation' \in Nat /\ UNCHANGED taskVars
    BY <1>4 DEF FileLists, TypeOK
  <2> QED  BY <2>1, EnqueueLists DEF InHand
<1>5. CASE FileDrops
  BY <1>5 DEF FileDrops
<1>6. ASSUME NEW q \in Requests, RequestOpens(q)
      PROVE  InHand(r)'
  <2>1. UNCHANGED <<enabled, generation, queue, taskVars, toggleVars, connected>>
    BY <1>6 DEF RequestOpens, stateVars
  <2>2. CASE r = q
    BY <1>6, <2>2 DEF RequestOpens, TypeOK, InHand, EventUnderway
  <2>3. CASE r # q
    <3>1. r \notin pending' \ pending /\ asked'[r] = asked[r]
      BY <1>6, <2>3 DEF RequestOpens, TypeOK
    <3>2. EventUnderway(r) => EventUnderway(r)'
      BY <2>1, <3>1 DEF EventUnderway
    <3>3. ToBeReconciled => ToBeReconciled'
      BY <2>1 DEF ToBeReconciled, toggleVars
    <3>4. Queued(r) => Queued(r)'  BY <2>1 DEF Queued, taskVars
    <3>5. Running(r) => Running(r)'  BY <2>1 DEF Running, Outdated, taskVars
    <3> QED  BY <2>1, <3>1, <3>2, <3>3, <3>4, <3>5 DEF InHand
  <2> QED  BY <2>2, <2>3
<1>7. ASSUME NEW q \in Requests, HumanReplies(q)
      PROVE  InHand(r)'
  <2>1. UNCHANGED <<enabled, generation, queue, taskVars, toggleVars, asked, connected>> /\ pending' \subseteq pending
    BY <1>7 DEF HumanReplies, stateVars
  <2> QED  BY <2>1, SameInHand DEF ToBeReconciled, toggleVars
<1>8. ASSUME NEW q \in Requests, HandleAsked(q)
      PROVE  InHand(r)'
  <2>1. UNCHANGED <<enabled, generation, taskVars, toggleVars, connected, pending>>
    BY <1>8 DEF HandleAsked, stateVars
  <2>2. AskedTask(q, generation) \in Tasks /\ Enqueue(AskedTask(q, generation))
    BY <1>8, <2>1 DEF HandleAsked, AskedTask, Tasks, TypeOK
  <2>3. ToBeReconciled => ToBeReconciled'
    BY <2>1 DEF ToBeReconciled, toggleVars
  <2>4. CASE r = q
    <3>1. Len(queue) + 1 \in DOMAIN queue' /\ queue'[Len(queue) + 1] = AskedTask(q, generation)
      BY <2>2, EnqueueFacts
    <3> QED  BY <2>1, <2>4, <3>1 DEF InHand, Queued, AskedTask
  <2>5. CASE r # q
    <3>1. EventUnderway(r) => EventUnderway(r)'
      BY <1>8, <2>1, <2>5 DEF EventUnderway, HandleAsked, TypeOK
    <3> QED  BY <2>1, <2>2, <2>3, <3>1, AppendInHand DEF InHand
  <2> QED  BY <2>4, <2>5
<1>9. ASSUME NEW q \in Requests, HandleReplied(q)
      PROVE  InHand(r)'
  <2>1. UNCHANGED <<enabled, generation, taskVars, toggleVars, asked, connected, pending>>
    BY <1>9 DEF HandleReplied, stateVars
  <2>2. RepliedTask(q) \in Tasks /\ Enqueue(RepliedTask(q))
    BY <1>9 DEF HandleReplied, RepliedTask, Tasks
  <2>3. ToBeReconciled => ToBeReconciled'
    BY <2>1 DEF ToBeReconciled, toggleVars
  <2>4. EventUnderway(r) => EventUnderway(r)'
    BY <2>1 DEF EventUnderway
  <2> QED  BY <2>1, <2>2, <2>3, <2>4, AppendInHand DEF InHand
<1>10. CASE StreamLost
  BY <1>10 DEF StreamLost, InHand, EventUnderway
<1>11. CASE Reconnected
  <2>1. UNCHANGED <<enabled, generation, taskVars>>
    BY <1>11 DEF Reconnected, stateVars
  <2>2. Enqueue(ReconcileTask(generation', None)) /\ generation' \in Nat
    BY <1>11, <2>1 DEF Reconnected, TypeOK
  <2> QED  BY <2>1, <2>2, EnqueueLists DEF InHand
<1>12. CASE UNCHANGED vars
  <2>1. UNCHANGED <<enabled, generation, queue, taskVars, toggleVars, asked, connected, pending>>
    BY <1>12 DEF vars, stateVars, serverVars
  <2> QED  BY <2>1, SameInHand DEF ToBeReconciled, toggleVars
<1> QED  BY <1>1, <1>2, <1>3, <1>4, <1>5, <1>6, <1>7, <1>8, <1>9, <1>10, <1>11, <1>12 DEF Next

-----------------------------------------------------------------------------
(* Nobody is forgotten by the running task                                 *)

(* What is in hand before the running task's step is after it, unless the  *)
(* step ends the task on which the request waited.                         *)
LEMMA EndInHand ==
  ASSUME TypeOK, HeadInv, HistoryInv, TaskEnds, queue # <<>>,
         UNCHANGED <<enabled, generation, asked, connected>>,
         NEW r \in Requests, InHand(r), ~Running(r),
         Head(queue).gen = generation =>
           /\ ~(Head(queue).kind = "asked" /\ Head(queue).req = r)
           /\ ~(Head(queue).kind = "reconcile" /\ step \in {"idle", "listing"})
  PROVE  InHand(r)'
<1>1. EventUnderway(r) => EventUnderway(r)'  BY DEF EventUnderway
<1>2. (Queued(r) => Queued(r)') /\ (ToBeReconciled => ToBeReconciled')
  BY EndKeeps
<1> QED  BY <1>1, <1>2 DEF InHand

(* A step of the head that keeps the queue and the toggles.                *)
LEMMA StayInHand ==
  ASSUME TypeOK, UNCHANGED <<enabled, generation, queue, toggleVars, asked, connected>>,
         NEW r \in Requests, InHand(r),
         Queued(r) => Queued(r)', Running(r) => Running(r)'
  PROVE  InHand(r)'
<1>1. EventUnderway(r) => EventUnderway(r)'  BY DEF EventUnderway
<1>2. ToBeReconciled => ToBeReconciled'  BY DEF ToBeReconciled, toggleVars
<1> QED  BY <1>1, <1>2 DEF InHand

(* An idle queue runs nothing.                                             *)
LEMMA IdleRuns ==
  ASSUME HeadInv, step = "idle", NEW r \in Requests
  PROVE  ~Running(r)
  BY DEF HeadInv, Active, Running

(* A step of the running task keeps every open request reported or in      *)
(* hand; before the list arrives it even keeps it in hand.                 *)
LEMMA QueueForgotten ==
  ASSUME TypeOK, HeadInv, HistoryInv, ListInv, QueueStep, enabled, NEW r \in pending', r \in pending,
         Reported(r) \/ InHand(r)
  PROVE  (Reported(r) \/ InHand(r))'
<1> USE AutoPermissionsAssumption
<1>1. r \in Requests /\ r \notin completed  BY DEF TypeOK, HistoryInv
<1>2. CASE AskedSkips
  <2>1. TaskEnds /\ queue # <<>> /\ step = "idle" /\ UNCHANGED <<enabled, generation, asked, connected, failures>>
    BY <1>2 DEF AskedSkips, Ready, stateVars, serverVars
  <2>2. Head(queue).kind = "asked" /\ (Head(queue).gen = generation => Head(queue).req # r)
    BY <1>1, <1>2 DEF AskedSkips, Ready, Outdated
  <2> QED  BY <1>1, <2>1, <2>2, IdleRuns, EndInHand DEF Reported
<1>3. CASE AskedApproves
  <2>1. UNCHANGED <<enabled, generation, queue, toggleVars, asked, connected, failures, todo>>
    BY <1>3 DEF AskedApproves, stateVars, serverVars
  <2>2. Queued(r) => Queued(r)'
    <3>1. queue \in Seq(Tasks) /\ queue # <<>> /\ Head(queue).kind = "asked"
      BY <1>3 DEF AskedApproves, Ready, TypeOK
    <3>2. Head(queue) = queue[1]  BY <3>1
    <3>3. \A i \in DOMAIN queue : i = 1 \/ i > 1  BY <3>1
    <3> QED  BY <2>1, <3>1, <3>2, <3>3 DEF Queued
  <2>3. ~Running(r)  BY <1>1, <1>3, IdleRuns DEF AskedApproves, Ready
  <2> QED  BY <1>1, <2>1, <2>2, <2>3, StayInHand DEF Reported
<1>4. CASE RepliedClears
  <2>1. TaskEnds /\ queue # <<>> /\ step = "idle" /\ UNCHANGED <<enabled, generation, asked, connected>>
    BY <1>4 DEF RepliedClears, Ready, serverVars
  <2>2. Head(queue) = queue[1] /\ 1 \in DOMAIN queue /\ Head(queue).kind = "replied"
    BY <1>4, <2>1, EndFacts DEF RepliedClears, Ready
  <2>3. Head(queue).req \in Requests /\ Head(queue).req \notin pending
    BY <2>2 DEF HistoryInv
  <2>4. Reported(r) => Reported(r)'
    BY <1>4, <2>3 DEF RepliedClears, Reported
  <2> QED  BY <1>1, <2>1, <2>2, <2>4, IdleRuns, EndInHand
<1>5. CASE Drained
  <2>1. TaskEnds /\ queue # <<>> /\ step = "idle" /\ UNCHANGED <<enabled, generation, asked, connected, failures>>
    BY <1>5 DEF Drained, Ready, stateVars, serverVars
  <2>2. Head(queue).kind = "drain"  BY <1>5 DEF Drained, Ready
  <2> QED  BY <1>1, <2>1, <2>2, IdleRuns, EndInHand DEF Reported
<1>6. CASE ReconcileSkips
  <2>1. TaskEnds /\ queue # <<>> /\ step = "idle" /\ UNCHANGED <<enabled, generation, asked, connected, failures>>
    BY <1>6 DEF ReconcileSkips, Ready, stateVars, serverVars
  <2>2. Head(queue).gen # generation  BY <1>6 DEF ReconcileSkips, Outdated
  <2> QED  BY <1>1, <2>1, <2>2, IdleRuns, EndInHand DEF Reported
<1>7. CASE ReconcileLists
  <2>1. UNCHANGED <<enabled, generation, queue, toggleVars, asked, connected, failures, todo, now>>
    BY <1>7 DEF ReconcileLists, stateVars, serverVars
  <2>2. Queued(r) => Queued(r)'  BY <1>7, <2>1 DEF Queued, ReconcileLists
  <2>3. ~Running(r)  BY <1>1, <1>7, IdleRuns DEF ReconcileLists, Ready
  <2> QED  BY <1>1, <2>1, <2>2, <2>3, StayInHand DEF Reported
<1>8. CASE ListServed
  <2>1. UNCHANGED <<enabled, generation, queue, toggleVars, asked, connected, failures>> /\ todo' = pending
    BY <1>8 DEF ListServed, stateVars, serverVars
  <2>2. CASE ~Outdated(Head(queue))
    BY <2>1, <2>2 DEF InHand, Running, Outdated
  <2>3. CASE Outdated(Head(queue))
    <3>1. step = "listing" /\ step' = "listed" /\ Head(queue).gen # generation
      BY <1>8, <2>3 DEF ListServed, Outdated
    <3>2. queue # <<>> /\ queue \in Seq(Tasks)  BY <3>1 DEF HeadInv, Active, TypeOK
    <3>3. queue[1].gen # generation /\ \A i \in DOMAIN queue : i = 1 \/ i > 1
      BY <3>1, <3>2
    <3>4. Queued(r) => Queued(r)'  BY <2>1, <3>1, <3>3 DEF Queued
    <3>5. ~Running(r)  BY <2>3, <3>1 DEF Running
    <3> QED  BY <1>1, <2>1, <3>4, <3>5, StayInHand DEF Reported
  <2> QED  BY <2>2, <2>3
<1>9. CASE ListArrives
  <2>1. UNCHANGED <<enabled, generation, queue, toggleVars, asked, connected, todo, now>>
    BY <1>9 DEF ListArrives, serverVars
  <2>2. step = "listed" /\ step' = "looping"  BY <1>9 DEF ListArrives
  <2>3. Queued(r) => Queued(r)'  BY <2>1, <2>2 DEF Queued
  <2>4. Running(r) => Running(r)'  BY <2>1, <2>2 DEF Running, Outdated
  <2>5. InHand(r)  BY <2>2 DEF ListInv
  <2> QED  BY <1>1, <2>1, <2>3, <2>4, <2>5, StayInHand
<1>10. CASE ListFails
  BY <1>10 DEF ListFails, Reported
<1>11. ASSUME NEW q \in Requests, LoopApproves(q)
       PROVE  (Reported(r) \/ InHand(r))'
  <2>1. UNCHANGED <<enabled, generation, queue, toggleVars, asked, connected, failures>>
    BY <1>11 DEF LoopApproves, stateVars, serverVars
  <2>2. step = "looping" /\ step' = "approving" /\ now' = q /\ todo' = todo \ {q}
    BY <1>11 DEF LoopApproves
  <2>3. Queued(r) => Queued(r)'  BY <2>1, <2>2 DEF Queued
  <2>4. Running(r) => Running(r)'  BY <2>1, <2>2 DEF Running, Outdated
  <2> QED  BY <1>1, <2>1, <2>3, <2>4, StayInHand DEF Reported
<1>12. CASE LoopEnds
  <2>1. TaskEnds /\ step = "looping" /\ UNCHANGED <<enabled, generation, asked, connected, failures>>
    BY <1>12 DEF LoopEnds, stateVars, serverVars
  <2>2. queue # <<>> /\ Head(queue).kind = "reconcile"  BY <2>1 DEF HeadInv, Active
  <2>3. ~Running(r)  BY <1>1, <1>12 DEF LoopEnds, Running
  <2> QED  BY <1>1, <2>1, <2>2, <2>3, EndInHand DEF Reported
<1>13. CASE ReplyServed
  <2>1. UNCHANGED <<enabled, generation, queue, toggleVars, asked, connected, failures, taskVars>>
    BY <1>13 DEF ReplyServed, stateVars, taskVars
  <2>2. Queued(r) => Queued(r)'  BY <2>1 DEF Queued, taskVars
  <2>3. Running(r) => Running(r)'  BY <2>1 DEF Running, Outdated, taskVars
  <2> QED  BY <1>1, <2>1, <2>2, <2>3, StayInHand DEF Reported
<1>14. CASE Approved \/ ApproveFails
  <2>1. /\ step = "approving" /\ now \in Requests /\ ApproveReturns /\ queue # <<>>
        /\ UNCHANGED <<enabled, generation, asked, connected>>
    BY <1>14 DEF Approved, ApproveFails, serverVars, HeadInv, Active
  <2>2. r = now => Reported(r)'
    BY <1>14 DEF Approved, ApproveFails, Reported
  <2>3. Reported(r) => r = now \/ Reported(r)'
    BY <1>14, <2>1 DEF Approved, ApproveFails, Reported
  <2>4. ASSUME r # now, InHand(r)
        PROVE  InHand(r)'
    <3>1. CASE Head(queue).kind = "reconcile"
      <4>1. UNCHANGED <<queue, todo, toggleVars>> /\ step' = "looping"
        BY <2>1, <3>1 DEF ApproveReturns
      <4>2. Queued(r) => Queued(r)'  BY <2>1, <4>1 DEF Queued
      <4>3. Running(r) => Running(r)'  BY <2>1, <2>4, <4>1 DEF Running, Outdated
      <4> QED  BY <1>1, <2>1, <2>4, <4>1, <4>2, <4>3, StayInHand
    <3>2. CASE Head(queue).kind # "reconcile"
      <4>1. TaskEnds /\ Head(queue).kind = "asked"
        BY <2>1, <3>2 DEF ApproveReturns, HeadInv
      <4>2. todo = {} /\ Head(queue).req = now
        BY <2>1, <4>1 DEF HeadInv
      <4>3. ~Running(r)  BY <2>4, <4>2 DEF Running
      <4> QED  BY <1>1, <2>1, <2>4, <4>1, <4>2, <4>3, EndInHand
    <3> QED  BY <3>1, <3>2
  <2> QED  BY <2>2, <2>3, <2>4
<1> QED  BY <1>2, <1>3, <1>4, <1>5, <1>6, <1>7, <1>8, <1>9, <1>10, <1>11, <1>12, <1>13, <1>14 DEF QueueStep

(* The running task opens no request and changes neither the flag nor the  *)
(* generation.                                                             *)
LEMMA QueueFrame ==
  ASSUME QueueStep
  PROVE  pending' \subseteq pending /\ UNCHANGED <<enabled, source, generation, want>>
  BY DEF QueueStep, AskedSkips, AskedApproves, RepliedClears, Drained, ReconcileSkips, ReconcileLists,
         ListServed, ListArrives, ListFails, LoopApproves, LoopEnds, ReplyServed, Approved, ApproveFails,
         ApproveReturns, TaskEnds, stateVars, toggleVars, serverVars

(* Outside the running task failures are only cleared by a toggle.         *)
LEMMA OtherFailures ==
  ASSUME [Next]_vars, ~QueueStep
  PROVE  failures' = failures \/ \E t \in Toggles : ToggleFlips(t)
  BY DEF Next, ToggleArrives, TogglePersisted, FileLists, FileDrops, RequestOpens, HumanReplies,
         HandleAsked, HandleReplied, StreamLost, Reconnected, stateVars, vars

(* Every step keeps NobodyForgotten.                                       *)
LEMMA ForgottenStep ==
  ASSUME TypeOK, QueueInv, [Next]_vars
  PROVE  NobodyForgotten'
<1> SUFFICES ASSUME enabled', NEW r \in pending'
             PROVE  (Reported(r) \/ InHand(r))'
  BY DEF NobodyForgotten
<1>1. r \in Requests
  BY TypeStep DEF TypeOK, QueueInv
<1>2. CASE QueueStep
  <2>1. enabled /\ r \in pending  BY <1>2, QueueFrame
  <2>2. Reported(r) \/ InHand(r)  BY <2>1 DEF QueueInv, NobodyForgotten
  <2> QED  BY <1>2, <2>1, <2>2, QueueForgotten DEF QueueInv
<1>3. CASE ~QueueStep /\ enabled /\ r \in pending /\ ~InHand(r)
  <2>1. Reported(r)  BY <1>3 DEF QueueInv, NobodyForgotten
  <2>2. CASE failures' = failures  BY <2>1, <2>2 DEF Reported
  <2>3. ASSUME NEW t \in Toggles, ToggleFlips(t)
        PROVE  InHand(r)'
    <3>1. want'[t] /\ toggle'[t] = "persisting"
      BY <2>3 DEF ToggleFlips, TypeOK
    <3> QED  BY <3>1 DEF InHand, ToBeReconciled
  <2> QED  BY <1>3, <2>2, <2>3, OtherFailures
<1>4. CASE ~QueueStep /\ (enabled => InHand(r) \/ r \notin pending)
  BY <1>1, <1>4, OtherInHand DEF QueueInv
<1> QED  BY <1>2, <1>3, <1>4

(* Another list stays queued while the running task goes on, and one is    *)
(* queued by whatever ends the generation of the running task.             *)
LEMMA OutdatedStep ==
  ASSUME TypeOK, HeadInv, OutdatedInv, [Next]_vars
  PROVE  OutdatedInv'
<1> SUFFICES ASSUME Active', enabled', Head(queue').gen # generation'
             PROVE  (ToBeReconciled \/ AnotherList)'
  BY DEF OutdatedInv
<1>1. CASE QueueStep
  <2>1. UNCHANGED <<enabled, generation>>  BY <1>1, QueueFrame
  <2>2. ~TaskEnds  BY DEF TaskEnds, Active
  <2>3. UNCHANGED <<queue, toggleVars>>
    BY <1>1, <2>2 DEF QueueStep, AskedSkips, AskedApproves, RepliedClears, Drained, ReconcileSkips,
       ReconcileLists, ListServed, ListArrives, ListFails, LoopApproves, LoopEnds, ReplyServed, Approved,
       ApproveFails, ApproveReturns
  <2>4. CASE AskedApproves \/ ReconcileLists
    BY <2>1, <2>3, <2>4 DEF AskedApproves, ReconcileLists, Outdated
  <2>5. CASE Active
    BY <2>1, <2>3, <2>5 DEF OutdatedInv, ToBeReconciled, AnotherList, toggleVars
  <2> QED
    BY <1>1, <2>2, <2>4, <2>5
       DEF Active, QueueStep, AskedSkips, RepliedClears, Drained, ReconcileSkips, ListServed, ListArrives,
           ListFails, LoopApproves, LoopEnds, ReplyServed, Approved, ApproveFails
<1>2. ASSUME ~QueueStep
      PROVE  Active /\ queue # <<>> /\ Head(queue') = Head(queue) /\ UNCHANGED taskVars
  <2>1. UNCHANGED taskVars  BY <1>2, OtherSteps
  <2>2. Active /\ queue # <<>>  BY <2>1 DEF Active, HeadInv, taskVars
  <2> QED  BY <1>2, <2>1, <2>2, OtherSteps, EnqueueFacts
<1>3. CASE ~QueueStep /\ \E t \in Toggles : ToggleFlips(t)
  <2>1. PICK t \in Toggles : ToggleFlips(t)  BY <1>3
  <2>2. want'[t] /\ toggle'[t] = "persisting"  BY <2>1 DEF ToggleFlips, TypeOK
  <2> QED  BY <2>2 DEF ToBeReconciled
<1>4. CASE FileLists
  <2>1. Enqueue(ReconcileTask(generation', None)) /\ generation' \in Nat /\ UNCHANGED taskVars
    BY <1>4 DEF FileLists, TypeOK
  <2>2. Active  BY <2>1 DEF Active, taskVars
  <2> QED  BY <2>1, <2>2, EnqueueLists
<1>5. CASE ~QueueStep /\ ~FileLists /\ ~\E t \in Toggles : ToggleFlips(t)
  <2>1. UNCHANGED <<enabled, generation>>
    BY <1>5 DEF Next, ToggleArrives, TogglePersisted, FileDrops, RequestOpens, HumanReplies,
       HandleAsked, HandleReplied, StreamLost, Reconnected, stateVars, vars
  <2>2. ToBeReconciled \/ AnotherList
    BY <1>2, <1>5, <2>1 DEF OutdatedInv
  <2>3. AnotherList => AnotherList'
    <3>1. CASE UNCHANGED queue  BY <2>1, <3>1 DEF AnotherList
    <3>2. CASE \E task \in Tasks : Enqueue(task)
      BY <1>2, <1>5, <2>1, <3>2, EnqueueKeeps
    <3> QED  BY <1>5, <3>1, <3>2, OtherSteps
  <2>4. ASSUME NEW t \in Toggles, want[t], toggle[t] = "persisting"
        PROVE  (ToBeReconciled \/ AnotherList)'
    <3>1. CASE TogglePersisted(t)
      <4>1. Enqueue(ReconcileTask(generation', t)) /\ generation' \in Nat /\ UNCHANGED taskVars
        BY <2>1, <2>4, <3>1 DEF TogglePersisted, TypeOK
      <4> QED  BY <1>2, <1>5, <4>1, EnqueueLists
    <3>2. CASE ~TogglePersisted(t)
      <4>1. toggle'[t] = "persisting" /\ want'[t]
        BY <1>5, <2>4, <3>2
           DEF Next, ToggleArrives, TogglePersisted, FileDrops, RequestOpens, HumanReplies,
               HandleAsked, HandleReplied, StreamLost, Reconnected, toggleVars, vars, TypeOK
      <4> QED  BY <4>1 DEF ToBeReconciled
    <3> QED  BY <3>1, <3>2
  <2> QED  BY <2>2, <2>3, <2>4 DEF ToBeReconciled
<1> QED  BY <1>1, <1>3, <1>4, <1>5

(* Every step keeps ListInv.                                               *)
LEMMA ListStep ==
  ASSUME TypeOK, HeadInv, OutdatedInv, ListInv, [Next]_vars
  PROVE  ListInv'
<1> SUFFICES ASSUME step' = "listed", enabled', NEW r \in pending'
             PROVE  InHand(r)'
  BY DEF ListInv
<1>1. r \in Requests  BY TypeStep DEF TypeOK
<1>2. CASE QueueStep
  <2>1. ListServed
    BY <1>2
       DEF QueueStep, AskedSkips, AskedApproves, RepliedClears, Drained, ReconcileSkips, ReconcileLists,
           ListArrives, ListFails, LoopApproves, LoopEnds, ReplyServed, Approved, ApproveFails,
           ApproveReturns, TaskEnds, Ready
  <2>2. /\ step = "listing" /\ UNCHANGED <<enabled, generation, queue, toggleVars>>
        /\ todo' = pending /\ r \in pending
    BY <2>1 DEF ListServed, stateVars, serverVars
  <2>3. CASE ~Outdated(Head(queue))
    BY <2>2, <2>3 DEF InHand, Running, Outdated
  <2>4. CASE Outdated(Head(queue))
    <3>1. ToBeReconciled \/ AnotherList
      BY <2>2, <2>4 DEF Outdated, OutdatedInv, Active
    <3>2. ToBeReconciled => ToBeReconciled'
      BY <2>2 DEF ToBeReconciled, toggleVars
    <3>3. AnotherList => Queued(r)'
      BY <2>2 DEF AnotherList, Queued
    <3> QED  BY <3>1, <3>2, <3>3 DEF InHand
  <2> QED  BY <2>3, <2>4
<1>3. CASE ~QueueStep
  <2>1. step = "listed"  BY <1>3, OtherSteps DEF taskVars
  <2>2. enabled /\ r \in pending => InHand(r)  BY <2>1 DEF ListInv
  <2> QED  BY <1>1, <1>3, <2>2, OtherInHand
<1> QED  BY <1>2, <1>3

-----------------------------------------------------------------------------
(* The theorems                                                            *)

(* The types and the inductive form of NobodyForgotten hold throughout,    *)
(* for any number of requests and of overlapping setEnabled() calls.       *)
THEOREM QueueInvariant == Spec => [](TypeOK /\ QueueInv)
<1> USE AutoPermissionsAssumption
<1>1. Init => TypeOK /\ QueueInv
  <2> SUFFICES ASSUME Init PROVE TypeOK /\ QueueInv
    OBVIOUS
  <2>1. IsFiniteSet(completed) /\ Cardinality(completed) = 0
    BY FS_EmptySet DEF Init
  <2>2. TypeOK
    <3>1. enabled \in BOOLEAN /\ connected \in BOOLEAN
      BY DEF Init
    <3>5. generation \in Nat /\ flips \in 0..MaxFlips /\ drops \in 0..MaxDrops
      BY DEF Init
    <3>6. CompletedCap \in Nat /\ Cardinality(completed) <= CompletedCap
      BY <2>1
    <3>2. queue \in Seq(Tasks) /\ persistQueue \in Seq(Toggles)
      BY DEF Init
    <3>3. want \in [Toggles -> BOOLEAN]
      BY DEF Init
    <3>4. asked \in [Requests -> Progress] /\ replied \in [Requests -> Progress]
      BY DEF Init, Progress
    <3> QED  BY <2>1, <3>1, <3>2, <3>3, <3>4, <3>5, <3>6 DEF Init, TypeOK
  <2>3. QueueInv
    BY DEF Init, QueueInv, NobodyForgotten, HeadInv, Active, HistoryInv, OutdatedInv, ListInv
  <2> QED  BY <2>2, <2>3
<1>2. TypeOK /\ QueueInv /\ [Next]_vars => (TypeOK /\ QueueInv)'
  BY TypeStep, HeadStep, HistoryStep, OutdatedStep, ListStep, ForgottenStep DEF QueueInv
<1> QED  BY <1>1, <1>2, PTL DEF Spec

(* autoPermissions.ts: whatever toggles, events, lists, failures, losses   *)
(* of the stream and changes of the state file overlap, an open request of *)
(* an enabled directory is reported or somebody will still look at it.     *)
THEOREM Remembered == Spec => []NobodyForgotten
<1>1. QueueInv => NobodyForgotten
  BY DEF QueueInv
<1> QED  BY <1>1, QueueInvariant, PTL

(* Every variable keeps its type and the answered ids their cap.           *)
THEOREM Typed == Spec => []TypeOK
  BY QueueInvariant, PTL

(* The step that keeps NoApprovalAfterDisable.                             *)
LEMMA DisableStep ==
  ASSUME TypeOK, HeadInv, NoApprovalAfterDisable, [Next]_vars
  PROVE  NoApprovalAfterDisable'
<1> SUFFICES ASSUME step' = "approving", ~enabled', source' = "explicit"
             PROVE  \E t \in Toggles : ~want'[t] /\ toggle'[t] \in {"persisting", "waiting"}
  BY DEF NoApprovalAfterDisable
<1>1. CASE QueueStep
  <2>1. UNCHANGED <<enabled, source>>  BY <1>1, QueueFrame
  <2>2. ~TaskEnds  BY DEF TaskEnds
  <2>3. step = "approving" /\ UNCHANGED toggleVars
    BY <1>1, <2>1, <2>2
       DEF QueueStep, AskedSkips, AskedApproves, RepliedClears, Drained, ReconcileSkips, ReconcileLists,
           ListServed, ListArrives, ListFails, LoopApproves, LoopEnds, ReplyServed, Approved, ApproveFails,
           ApproveReturns, Outdated
  <2> QED  BY <2>1, <2>3 DEF NoApprovalAfterDisable, toggleVars
<1>2. ASSUME ~QueueStep, NEW t \in Toggles,
             (\E b \in BOOLEAN : ToggleArrives(t, b)) \/ ToggleFlips(t) \/ TogglePersisted(t)
      PROVE  \E u \in Toggles : ~want'[u] /\ toggle'[u] \in {"persisting", "waiting"}
  <2>1. step = "approving"  BY <1>2, OtherSteps DEF taskVars
  <2>2. CASE \E b \in BOOLEAN : ToggleArrives(t, b)
    <3>1. PICK u \in Toggles : ~want[u] /\ toggle[u] \in {"persisting", "waiting"}
      BY <2>1, <2>2 DEF ToggleArrives, stateVars, NoApprovalAfterDisable
    <3>2. u # t  BY <2>2, <3>1 DEF ToggleArrives
    <3> QED  BY <2>2, <3>1, <3>2 DEF ToggleArrives, TypeOK
  <2>3. CASE ToggleFlips(t)
    BY <2>3 DEF ToggleFlips, TypeOK
  <2>4. CASE TogglePersisted(t)
    <3>1. PICK u \in Toggles : ~want[u] /\ toggle[u] \in {"persisting", "waiting"}
      BY <2>1, <2>4 DEF TogglePersisted, stateVars, NoApprovalAfterDisable
    <3> QED  BY <2>4, <3>1 DEF TogglePersisted, TypeOK
  <2> QED  BY <1>2, <2>2, <2>3, <2>4
<1>3. CASE FileLists \/ FileDrops
  BY <1>3 DEF FileLists, FileDrops
<1>4. CASE /\ ~QueueStep /\ ~FileLists /\ ~FileDrops
           /\ ~\E t \in Toggles : (\E b \in BOOLEAN : ToggleArrives(t, b)) \/ ToggleFlips(t) \/ TogglePersisted(t)
  <2>1. UNCHANGED <<stateVars, taskVars, toggleVars>>
    BY <1>4 DEF Next, RequestOpens, HumanReplies, HandleAsked, HandleReplied, StreamLost, Reconnected, vars
  <2> QED  BY <2>1 DEF NoApprovalAfterDisable, stateVars, taskVars, toggleVars
<1> QED  BY <1>1, <1>2, <1>3, <1>4

(* setEnabled(dir, false) means what its comment says: when the last call  *)
(* that switched the directory off has returned, no reply is in flight.    *)
THEOREM DisableHolds == Spec => []NoApprovalAfterDisable
<1>1. Init => NoApprovalAfterDisable
  BY DEF Init, NoApprovalAfterDisable
<1>2. TypeOK /\ QueueInv /\ NoApprovalAfterDisable /\ [Next]_vars => NoApprovalAfterDisable'
  BY DisableStep DEF QueueInv
<1> QED  BY <1>1, <1>2, QueueInvariant, PTL DEF Spec

=============================================================================
