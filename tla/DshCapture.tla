-------------------------------- MODULE DshCapture --------------------------------
(* The queue of captures behind the DSH routes (server/routes/dsh.ts:55): what a  *)
(* session emits is written one record after another, at most MaxQueue wait, and  *)
(* a session whose record was dropped gets a "capture-gap" record instead, when   *)
(* there is room for it.                                                          *)
EXTENDS Naturals, Sequences, FiniteSets, SequencesExt

CONSTANTS Sessions,
          MaxQueue,       \* MAX_CAPTURE_QUEUE, of the queue and of the overflow set
          MaxCaptures,    \* bound: records asked for
          MaxFaults       \* bound: writes that fail

VARIABLES queue,          \* Seq of [session, gap]: the record that is written, and those that wait
          overflow,       \* overflowSessions, in the order they came
          dropped,        \* ghost: the sessions that lost a record, and had no gap
                          \* record written since
          unnamed,        \* ghost: those of them for which none is owed: a write of
                          \* theirs failed, or there was no room for their name
          captures, faults

vars == <<queue, overflow, dropped, unnamed, captures, faults>>

TypeOK ==
  /\ queue \in Seq([session: Sessions, gap: BOOLEAN]) /\ Len(queue) <= MaxQueue
  /\ overflow \in Seq(Sessions) /\ IsInjective(overflow)
  /\ dropped \subseteq Sessions /\ unnamed \subseteq Sessions
  /\ captures \in 0..MaxCaptures /\ faults \in 0..MaxFaults

Init ==
  /\ queue = <<>> /\ overflow = <<>> /\ dropped = {} /\ unnamed = {}
  /\ captures = 0 /\ faults = 0

Record(s, gap) == [session |-> s, gap |-> gap]

(* enqueueCapture and captureLifecycle: the record waits its turn, or is dropped *)
(* and its session noted while there is room to note it.                         *)
Capture(s) ==
  /\ captures < MaxCaptures /\ captures' = captures + 1
  /\ \/ /\ Len(queue) < MaxQueue
        /\ queue' = Append(queue, Record(s, FALSE))
        /\ UNCHANGED <<overflow, dropped, unnamed>>
     \/ /\ Len(queue) = MaxQueue
        /\ dropped' = dropped \cup {s}
        /\ overflow' = IF Len(overflow) < MaxQueue /\ s \notin ToSet(overflow)
                       THEN Append(overflow, s) ELSE overflow
        /\ unnamed' = IF s \in ToSet(overflow') THEN unnamed ELSE unnamed \cup {s}
        /\ UNCHANGED queue
  /\ UNCHANGED faults

(* What a write makes of the losses of its session: a gap record names them, and *)
(* a record that is not written is lost with a warning alone (dsh.ts:63).        *)
Accounts(done, written) ==
  /\ dropped' = IF written THEN (IF done.gap THEN dropped \ {done.session} ELSE dropped)
                 ELSE dropped \cup {done.session}
  /\ unnamed' = IF written THEN (IF done.gap THEN unnamed \ {done.session} ELSE unnamed)
                 ELSE unnamed \cup {done.session}

\* Mutant: the session is taken off the set without the record it waited for.
ForgetGap(written) ==
  /\ queue' = Tail(queue)
  /\ overflow' = IF overflow = <<>> THEN <<>> ELSE Tail(overflow)
  /\ Accounts(Head(queue), written)

(* A write settled: its place is free, and the oldest noted session takes it.    *)
Settled(written) ==
  LET first == overflow # <<>>
  IN /\ queue' = IF first THEN Append(Tail(queue), Record(Head(overflow), TRUE))
                 ELSE Tail(queue)
     /\ overflow' = IF first THEN Tail(overflow) ELSE overflow
     /\ Accounts(Head(queue), written)

Write ==
  /\ queue # <<>>
  /\ \/ Settled(TRUE) /\ UNCHANGED faults
     \/ Settled(FALSE) /\ faults < MaxFaults /\ faults' = faults + 1
  /\ UNCHANGED captures

Next == Write \/ \E s \in Sessions : Capture(s)
Spec == Init /\ [][Next]_vars

-------------------------------------------------------------------------------
(* When the pages of a trajectory say nothing is pending (dsh.ts:300), every     *)
(* session that lost a record for want of room has a gap record after the loss,  *)
(* but for one of which a write failed since its last gap record, the gap's own  *)
(* or any other, or whose name found the set of names full.                      *)
QuietMeansNamed == queue = <<>> /\ overflow = <<>> => dropped \subseteq unnamed

(* Why that is so: until then, its name waits in the set, or its gap record in   *)
(* the queue; and what is not owed is not named either.                          *)
LossIsNoted ==
  /\ unnamed \subseteq dropped
  /\ \A s \in dropped \ unnamed :
       \/ \E i \in DOMAIN overflow : overflow[i] = s
       \/ \E i \in DOMAIN queue : queue[i].gap /\ queue[i].session = s

CaptureInv == QuietMeansNamed /\ LossIsNoted
================================================================================
