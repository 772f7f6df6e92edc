----------------------------- MODULE ServicesProofs -----------------------------
(* What TLAPS proves of the services that MCServices sets side by side, for any   *)
(* values of their constants: the prompts of opencode sessions, a device's badge,  *)
(* the registrations of devices and the launches of sessions.                      *)
EXTENDS MCServices, FiniteSetTheorems, SequenceTheorems, WellFoundedInduction,
        NaturalsInduction, TLAPS

(* A behaviour moves one of them, and a step of it is one of that one's.          *)
LEMMA OneServiceMoves ==
  ASSUME [Next]_vars
  PROVE  /\ moves' = moves
         /\ moves = "prompts" => Prompts!Next \/ UNCHANGED promptsVars
         /\ moves = "launches" => Launches!Next \/ UNCHANGED launchesVars
         /\ moves = "badge" => Badge!Next \/ UNCHANGED badgeVars
         /\ moves = "devices" => Devices!Next \/ UNCHANGED devicesVars
<1> USE DEF MovesPrompts, MovesLaunches, MovesRuns, MovesBadge, MovesDevices, MovesStream,
            MovesClaude
<1>1. CASE MovesPrompts /\ Prompts!Next
  BY <1>1
<1>2. CASE MovesLaunches /\ Launches!Next
  BY <1>2
<1>3. CASE MovesRuns /\ Runs!Next
  BY <1>3
<1>4. CASE MovesBadge /\ Badge!Next
  BY <1>4
<1>5. CASE MovesDevices /\ Devices!Next
  BY <1>5
<1>6. CASE MovesStream \/ MovesClaude
  BY <1>6
<1>7. CASE UNCHANGED vars
  BY <1>7 DEF vars
<1> QED
  BY <1>1, <1>2, <1>3, <1>4, <1>5, <1>6, <1>7 DEF Next

-------------------------------------------------------------------------------
(* Prompts                                                                        *)

PromptRows ==
  [pc : {"new", "waiting", "patching", "sending", "accepted", "failed"},
   session : PromptSessions \union {None}, path : Prompts!Paths \union {None},
   prev : Prompts!Requests \union {None}, tools : SUBSET Tools]
PromptsTyped ==
  /\ req \in [Prompts!Requests -> PromptRows]
  /\ tail \in [PromptSessions -> Prompts!Requests \union {None}]

\* What a request has read and found in place, of the session it holds the lock of.
HolderOK(r) ==
  LET s == req[r].session IN
    /\ req[r].path \in Prompts!Modes =>
         Prompts!Identity(s) # {} /\ Prompts!Identity(s) \subseteq Prompts!Modes
    /\ req[r].path = "agent" => Prompts!Identity(s) = {Agent}
    /\ req[r].pc = "patching" => req[r].path \in Prompts!Modes
    /\ req[r].pc = "sending" /\ req[r].path = "plan" => req[r].tools \subseteq denied[s]
    /\ req[r].pc = "sending" /\ req[r].path = "build" => req[r].tools \intersect denied[s] = {}
RulesOK(s) ==
  \A tools \in SUBSET Tools :
    /\ suffix[s] = <<"plan", tools>> => tools \subseteq denied[s]
    /\ suffix[s] = <<"build", tools>> => tools \intersect denied[s] = {}

PolicyByParts ==
  /\ \A s \in PromptSessions : RulesOK(s)
  /\ \A r \in Prompts!Requests : Prompts!Holds(r) => HolderOK(r)

(* The policy invariant, by session and by request.                               *)
LEMMA PolicyParts == Prompts!PolicyHolds <=> PolicyByParts
BY Zenon DEF Prompts!PolicyHolds, PolicyByParts, RulesOK, HolderOK

(* A request is numbered, and None is no request, session or path.                *)
LEMMA PromptNumbers ==
  /\ Prompts!Requests \subseteq Nat /\ None \notin Prompts!Requests
  /\ None \notin PromptSessions /\ None \notin Prompts!Paths
  /\ MaxRequests \in Nat
BY ServicesAssumption, PromptWords DEF Prompts!Requests, Prompts!Paths, Prompts!Modes

(* Whoever has its turn or holds the lock: all before it in the line are answered, *)
(* and all behind it wait for somebody that is not before it.                      *)
LEMMA AloneInLine ==
  ASSUME PromptsTyped, Prompts!LineIsOrdered, NEW r \in Prompts!Requests,
         Prompts!Turn(r) \/ Prompts!Holds(r)
  PROVE  \A q \in Prompts!Requests : q # r /\ req[q].session = req[r].session =>
           \/ Prompts!Ended(q)
           \/ q > r /\ req[q].pc = "waiting" /\ req[q].prev # None /\ r <= req[q].prev
<1> SUFFICES ASSUME NEW q \in Prompts!Requests, q # r, req[q].session = req[r].session,
                    ~Prompts!Ended(q)
             PROVE  q > r /\ req[q].pc = "waiting" /\ req[q].prev # None /\ r <= req[q].prev
  BY Zenon
<1>1. req[r].pc \in {"waiting", "patching", "sending"} /\ ~Prompts!Ended(r)
  BY DEF Prompts!Turn, Prompts!Holds, Prompts!Ended
<1>2. req[r].session # None
  BY <1>1 DEF Prompts!LineIsOrdered, Prompts!Holds
<1>3. q \in Nat /\ r \in Nat
  BY PromptNumbers
<1>4. CASE q < r
  <2>1. req[r].pc = "waiting" /\ req[r].prev # None /\ q <= req[r].prev
    BY <1>2, <1>4, Zenon DEF Prompts!LineIsOrdered
  <2>2. Prompts!Ended(req[r].prev)
    BY <2>1 DEF Prompts!Turn, Prompts!Holds
  <2>3. req[r].prev \in Prompts!Requests /\ req[req[r].prev].session = req[r].session
    BY <2>1 DEF Prompts!LineIsOrdered, PromptsTyped, PromptRows
  <2>4. q < req[r].prev
    <3>1. q # req[r].prev /\ req[r].prev \in Nat
      BY <2>2, <2>3, PromptNumbers, Zenon
    <3> QED
      BY <1>3, <2>1, <3>1
  <2>5. req[req[r].prev].pc = "waiting"
    BY <1>2, <2>3, <2>4, Zenon DEF Prompts!LineIsOrdered
  <2> QED
    BY <2>2, <2>5 DEF Prompts!Ended
<1>5. CASE q > r
  <2>1. r < q
    BY <1>3, <1>5
  <2> QED
    BY <1>1, <1>2, <1>5, <2>1, Zenon DEF Prompts!LineIsOrdered
<1> QED
  BY <1>3, <1>4, <1>5

(* So one at a time holds it.                                                     *)
LEMMA LineIsOneAtATime ==
  ASSUME PromptsTyped, Prompts!LineIsOrdered
  PROVE  Prompts!OneAtATime
<1>1. ASSUME NEW q \in Prompts!Requests, NEW r \in Prompts!Requests, Prompts!Holds(q),
             Prompts!Holds(r), req[q].session = req[r].session
      PROVE  q = r
  <2>1. ~Prompts!Ended(q) /\ req[q].pc # "waiting"
    BY <1>1 DEF Prompts!Ended, Prompts!Holds
  <2> QED
    BY <1>1, <2>1, AloneInLine, Zenon
<1>2. ASSUME NEW r \in Prompts!Requests, req[r].pc = "waiting" \/ Prompts!Holds(r)
      PROVE  tail[req[r].session] # None
  <2>1. req[r].session # None /\ req[r].session \in PromptSessions
    BY <1>2 DEF Prompts!LineIsOrdered, PromptsTyped, PromptRows
  <2>2. ~Prompts!Ended(r)
    BY <1>2 DEF Prompts!Ended, Prompts!Holds
  <2> QED
    BY <2>1, <2>2 DEF Prompts!LineIsOrdered
<1> QED
  BY <1>1, <1>2, Zenon DEF Prompts!OneAtATime

\* A step of request r alone, which has its turn or holds the lock: it goes on or is
\* answered, and the last in line leaves no tail when it is answered.
GoesOn(r) ==
  /\ req' \in [Prompts!Requests -> PromptRows]
  /\ \A q \in Prompts!Requests : q # r => req'[q] = req[q]
  /\ req'[r].session = req[r].session /\ req'[r].prev = req[r].prev
  /\ req'[r].path = req[r].path
  /\ req'[r].pc \in {"patching", "sending", "accepted", "failed"}
  /\ tail' \in [PromptSessions -> Prompts!Requests \union {None}]
  /\ \A s \in PromptSessions : s # req[r].session \/ tail[s] # r => tail'[s] = tail[s]
  /\ \A s \in PromptSessions : s = req[r].session /\ tail[s] = r =>
       \/ tail'[s] = r
       \/ tail'[s] = None /\ req'[r].pc \in {"accepted", "failed"}

(* The line stays ordered.                                                        *)
LEMMA GoesOnInLine ==
  ASSUME PromptsTyped, Prompts!LineIsOrdered, NEW r \in Prompts!Requests,
         Prompts!Turn(r) \/ Prompts!Holds(r), GoesOn(r)
  PROVE  PromptsTyped' /\ Prompts!LineIsOrdered'
<1> DEFINE NowEnded(q) == req'[q].pc \in {"accepted", "failed"}
<1>0. PromptsTyped'
  BY DEF PromptsTyped, GoesOn
<1>1. /\ req[r].pc \in {"waiting", "patching", "sending"} /\ ~Prompts!Ended(r)
      /\ req[r].session # None /\ req[r].path # None /\ req[r].session \in PromptSessions
  <2>1. req[r].pc \in {"waiting", "patching", "sending"} /\ ~Prompts!Ended(r)
    BY DEF Prompts!Turn, Prompts!Holds, Prompts!Ended
  <2>2. req[r].session # None
    BY <2>1 DEF Prompts!LineIsOrdered, Prompts!Holds
  <2>3. req[r].path # None
    BY <2>2 DEF Prompts!LineIsOrdered
  <2> QED
    BY <2>1, <2>2, <2>3 DEF PromptsTyped, PromptRows
<1>2. \A q \in Prompts!Requests :
        /\ req'[q].session = req[q].session /\ req'[q].prev = req[q].prev
        /\ req'[q].path = req[q].path
        /\ Prompts!Ended(q) => NowEnded(q)
        /\ req'[q].pc = "waiting" => req[q].pc = "waiting"
        /\ (req'[q].pc = "new" <=> req[q].pc = "new")
        /\ q # r => req'[q] = req[q]
  BY <1>1 DEF GoesOn, Prompts!Ended
<1>3. \A q \in Prompts!Requests : q # r /\ req[q].session = req[r].session =>
        \/ Prompts!Ended(q)
        \/ q > r /\ req[q].pc = "waiting" /\ req[q].prev # None /\ r <= req[q].prev
  BY AloneInLine
<1>4. \A q \in Prompts!Requests :
        /\ req'[q].pc = "new" => req'[q] = Prompts!Fresh
        /\ req'[q].pc = "waiting" \/ Prompts!Holds(q)' => req'[q].session # None
        /\ req'[q].session # None => req'[q].path # None
  <2> SUFFICES ASSUME NEW q \in Prompts!Requests
               PROVE  /\ req'[q].pc = "new" => req'[q] = Prompts!Fresh
                      /\ req'[q].pc = "waiting" \/ Prompts!Holds(q)' => req'[q].session # None
                      /\ req'[q].session # None => req'[q].path # None
    BY Zenon
  <2>1. CASE q = r
    BY <1>1, <1>2, <2>1
  <2>2. CASE q # r
    <3>1. req'[q] = req[q]
      BY <1>2, <2>2
    <3>2. Prompts!Holds(q)' <=> Prompts!Holds(q)
      BY <3>1 DEF Prompts!Holds
    <3> QED
      BY <3>1, <3>2 DEF Prompts!LineIsOrdered
  <2> QED
    BY <2>1, <2>2
<1>5. \A p, q \in Prompts!Requests : p < q /\ req'[q].pc # "new" => req'[p].pc # "new"
  BY <1>2 DEF Prompts!LineIsOrdered
<1>6. \A p, q \in Prompts!Requests :
        p < q /\ req'[p].session = req'[q].session /\ req'[q].session # None =>
          NowEnded(p) \/ (req'[q].pc = "waiting" /\ req'[q].prev # None /\ p <= req'[q].prev)
  <2> SUFFICES ASSUME NEW p \in Prompts!Requests, NEW q \in Prompts!Requests, p < q,
                      req[p].session = req[q].session, req[q].session # None
               PROVE  NowEnded(p) \/ (req'[q].pc = "waiting" /\ req[q].prev # None /\ p <= req[q].prev)
    BY <1>2
  <2>1. Prompts!Ended(p) \/ (req[q].pc = "waiting" /\ req[q].prev # None /\ p <= req[q].prev)
    BY Zenon DEF Prompts!LineIsOrdered
  <2>2. CASE q = r
    <3>1. p # r /\ ~(p > r)
      BY <2>2, PromptNumbers
    <3>2. Prompts!Ended(p)
      BY <1>3, <2>2, <3>1
    <3> QED
      BY <1>2, <3>2
  <2>3. CASE q # r
    BY <1>2, <2>1, <2>3
  <2> QED
    BY <2>2, <2>3
<1>7. \A q \in Prompts!Requests : req'[q].pc = "waiting" /\ req'[q].prev # None =>
        req'[q].prev < q /\ req'[req'[q].prev].session = req'[q].session
  <2> SUFFICES ASSUME NEW q \in Prompts!Requests, req'[q].pc = "waiting", req'[q].prev # None
               PROVE  req'[q].prev < q /\ req'[req'[q].prev].session = req'[q].session
    BY Zenon
  <2>1. req[q].pc = "waiting" /\ req[q].prev # None /\ req[q].prev \in Prompts!Requests
    BY <1>2 DEF PromptsTyped, PromptRows
  <2>2. req[q].prev < q /\ req[req[q].prev].session = req[q].session
    BY <2>1 DEF Prompts!LineIsOrdered
  <2> QED
    BY <1>2, <2>1, <2>2
<1>8. \A s \in PromptSessions :
        /\ tail'[s] # None => req'[tail'[s]].session = s
        /\ \A q \in Prompts!Requests : req'[q].session = s =>
             IF tail'[s] = None THEN NowEnded(q) ELSE q <= tail'[s]
  <2> SUFFICES ASSUME NEW s \in PromptSessions
               PROVE  /\ tail'[s] # None => req'[tail'[s]].session = s
                      /\ \A q \in Prompts!Requests : req[q].session = s =>
                           IF tail'[s] = None THEN NowEnded(q) ELSE q <= tail'[s]
    BY <1>2
  <2>1. /\ tail[s] # None => req[tail[s]].session = s
        /\ \A q \in Prompts!Requests : req[q].session = s =>
             IF tail[s] = None THEN Prompts!Ended(q) ELSE q <= tail[s]
    BY DEF Prompts!LineIsOrdered
  <2>2. tail[s] \in Prompts!Requests \union {None}
    BY DEF PromptsTyped
  <2>3. CASE tail'[s] = tail[s]
    BY <1>2, <2>1, <2>2, <2>3
  <2>4. CASE tail'[s] # tail[s]
    <3>1. s = req[r].session /\ tail[s] = r /\ tail'[s] = None /\ NowEnded(r)
      BY <2>4 DEF GoesOn
    <3>2. \A q \in Prompts!Requests : req[q].session = s => q <= r
      BY <2>1, <3>1, PromptNumbers
    <3>3. ASSUME NEW q \in Prompts!Requests, req[q].session = s
          PROVE  NowEnded(q)
      <4>1. CASE q = r
        BY <3>1, <4>1
      <4>2. CASE q # r
        <5>1. ~(q > r)
          BY <3>2, <3>3, PromptNumbers
        <5>2. Prompts!Ended(q)
          BY <1>3, <3>1, <3>3, <4>2, <5>1
        <5> QED
          BY <1>2, <5>2
      <4> QED
        BY <4>1, <4>2
    <3> QED
      BY <3>1, <3>3
  <2> QED
    BY <2>3, <2>4
<1> QED
  BY <1>0, <1>4, <1>5, <1>6, <1>7, <1>8 DEF Prompts!LineIsOrdered, Prompts!Ended, Prompts!Holds

(* What goes on or is answered goes on in that sense.                             *)
LEMMA StepsGoOn ==
  ASSUME PromptsTyped, NEW r \in Prompts!Requests, req[r].session \in PromptSessions
  PROVE  /\ \A pc \in {"accepted", "failed"} : Prompts!Answer(r, pc) =>
              GoesOn(r) /\ req'[r].pc = pc
         /\ Prompts!Go(r, "sending") => GoesOn(r) /\ req'[r] = [req[r] EXCEPT !.pc = "sending"]
<1>0. r \in Nat /\ req[r] \in PromptRows /\ None \notin Prompts!Requests
  BY PromptNumbers DEF PromptsTyped
<1>1. ASSUME NEW pc \in {"accepted", "failed", "sending"}, req' = [req EXCEPT ![r].pc = pc]
      PROVE  /\ req' \in [Prompts!Requests -> PromptRows]
             /\ \A q \in Prompts!Requests : q # r => req'[q] = req[q]
             /\ req'[r] = [req[r] EXCEPT !.pc = pc]
             /\ req'[r].session = req[r].session /\ req'[r].prev = req[r].prev
             /\ req'[r].path = req[r].path /\ req'[r].pc = pc
  <2>1. [req[r] EXCEPT !.pc = pc] \in PromptRows
    BY <1>0 DEF PromptRows
  <2>2. req' = [req EXCEPT ![r] = [req[r] EXCEPT !.pc = pc]]
    BY <1>1
  <2>3. /\ [req[r] EXCEPT !.pc = pc].session = req[r].session
        /\ [req[r] EXCEPT !.pc = pc].prev = req[r].prev
        /\ [req[r] EXCEPT !.pc = pc].path = req[r].path
        /\ [req[r] EXCEPT !.pc = pc].pc = pc
    BY <1>0 DEF PromptRows
  <2> DEFINE row == [req[r] EXCEPT !.pc = pc]
  <2> HIDE DEF row
  <2>4. req'[r] = row /\ req' \in [Prompts!Requests -> PromptRows]
    BY <2>1, <2>2 DEF PromptsTyped, row
  <2>5. \A q \in Prompts!Requests : q # r => req'[q] = req[q]
    BY <2>2 DEF PromptsTyped, row
  <2> QED
    BY <2>3, <2>4, <2>5, Zenon DEF row
<1>2. ASSUME NEW pc \in {"accepted", "failed"}, Prompts!Answer(r, pc)
      PROVE  GoesOn(r) /\ req'[r].pc = pc
  <2>1. req' = [req EXCEPT ![r].pc = pc]
    BY <1>2 DEF Prompts!Answer
  <2>2. tail' = IF tail[req[r].session] = r THEN [tail EXCEPT ![req[r].session] = None] ELSE tail
    BY <1>2 DEF Prompts!Answer, Prompts!Release
  <2>3. /\ tail' \in [PromptSessions -> Prompts!Requests \union {None}]
        /\ \A s \in PromptSessions : s # req[r].session \/ tail[s] # r => tail'[s] = tail[s]
        /\ \A s \in PromptSessions : s = req[r].session /\ tail[s] = r => tail'[s] = None
    BY <2>2 DEF PromptsTyped
  <2> QED
    BY <1>1, <2>1, <2>3 DEF GoesOn
<1>3. ASSUME Prompts!Go(r, "sending")
      PROVE  GoesOn(r) /\ req'[r] = [req[r] EXCEPT !.pc = "sending"]
  <2>1. req' = [req EXCEPT ![r].pc = "sending"] /\ tail' = tail
    BY <1>3 DEF Prompts!Go
  <2>2. tail' \in [PromptSessions -> Prompts!Requests \union {None}]
    BY <2>1 DEF PromptsTyped
  <2> QED
    BY <1>1, <2>1, <2>2 DEF GoesOn
<1> QED
  BY <1>2, <1>3

(* A request that joins, or is refused before it takes the lock.                  *)
LEMMA JoinsInLine ==
  ASSUME PromptsTyped, Prompts!LineIsOrdered, NEW r \in Prompts!Requests,
         NEW s \in PromptSessions, Prompts!Join(r, s)
  PROVE  /\ PromptsTyped' /\ Prompts!LineIsOrdered'
         /\ \A q \in Prompts!Requests : q # r => req'[q] = req[q]
         /\ req'[r].pc \in {"waiting", "failed"}
<1>0. /\ req[r].pc = "new" /\ req[r] = Prompts!Fresh /\ r \in Nat /\ req[r] \in PromptRows
      /\ \A q \in Prompts!Requests : q < r => req[q].pc # "new"
      /\ \A q \in Prompts!Requests : q > r => req[q].pc = "new" /\ req[q] = Prompts!Fresh
  <2>1. req[r].pc = "new" /\ \A q \in 1..(r - 1) : req[q].pc # "new"
    BY DEF Prompts!Join
  <2>2. \A q \in Prompts!Requests : q < r => q \in 1..(r - 1)
    BY PromptNumbers DEF Prompts!Requests
  <2>3. \A q \in Prompts!Requests : q > r => r < q
    BY PromptNumbers
  <2> QED
    BY <2>1, <2>2, <2>3, PromptNumbers DEF Prompts!LineIsOrdered, PromptsTyped
<1>n. \A q \in Prompts!Requests : q \in Nat
  BY PromptNumbers
<1>f. Prompts!Fresh.session = None /\ None \notin PromptSessions
  BY PromptNumbers DEF Prompts!Fresh
<1>1. CASE Prompts!Go(r, "failed")
  <2>1. req' = [req EXCEPT ![r].pc = "failed"] /\ tail' = tail
    BY <1>1 DEF Prompts!Go
  <2> DEFINE row == [req[r] EXCEPT !.pc = "failed"]
  <2>2. row \in PromptRows /\ row.pc = "failed" /\ row.session = None
    BY <1>0, <1>f DEF PromptRows
  <2>3. req' = [req EXCEPT ![r] = row]
    BY <2>1
  <2> HIDE DEF row
  <2>4. /\ req'[r] = row /\ req' \in [Prompts!Requests -> PromptRows]
        /\ \A q \in Prompts!Requests : q # r => req'[q] = req[q]
    BY <2>2, <2>3 DEF PromptsTyped
  <2>5. PromptsTyped'
    BY <2>1, <2>4 DEF PromptsTyped
  <2>6. /\ req'[r].pc = "failed" /\ req'[r].session = None
        /\ \A q \in Prompts!Requests : req'[q].session # None => q # r
    BY <2>2, <2>4
  <2>7. \A q \in Prompts!Requests :
          /\ req'[q].pc = "new" => req'[q] = Prompts!Fresh
          /\ req'[q].pc = "waiting" \/ Prompts!Holds(q)' => req'[q].session # None
          /\ req'[q].session # None => req'[q].path # None
    BY <2>4, <2>6 DEF Prompts!LineIsOrdered, Prompts!Holds
  <2>8. \A p, q \in Prompts!Requests : p < q /\ req'[q].pc # "new" => req'[p].pc # "new"
    BY <1>0, <1>n, <2>4, <2>6
  <2>9. \A p, q \in Prompts!Requests :
          p < q /\ req'[p].session = req'[q].session /\ req'[q].session # None =>
            Prompts!Ended(p)' \/ (req'[q].pc = "waiting" /\ req'[q].prev # None /\ p <= req'[q].prev)
    BY <2>4, <2>6 DEF Prompts!LineIsOrdered, Prompts!Ended
  <2>10. \A q \in Prompts!Requests : req'[q].pc = "waiting" /\ req'[q].prev # None =>
          req'[q].prev < q /\ req'[req'[q].prev].session = req'[q].session
    <3> SUFFICES ASSUME NEW q \in Prompts!Requests, req'[q].pc = "waiting", req'[q].prev # None
                 PROVE  req'[q].prev < q /\ req'[req'[q].prev].session = req'[q].session
      BY Zenon
    <3>1. req'[q] = req[q] /\ req[q].prev \in Prompts!Requests /\ req[q].session # None
      BY <2>4, <2>6 DEF PromptsTyped, PromptRows, Prompts!LineIsOrdered
    <3>2. req[q].prev < q /\ req[req[q].prev].session = req[q].session
      BY <3>1 DEF Prompts!LineIsOrdered
    <3>3. req[r].session = None
      BY <1>0, <1>f
    <3> QED
      BY <2>4, <3>1, <3>2, <3>3
  <2>11. \A t \in PromptSessions :
           /\ tail'[t] # None => req'[tail'[t]].session = t
           /\ \A q \in Prompts!Requests : req'[q].session = t =>
                IF tail'[t] = None THEN Prompts!Ended(q)' ELSE q <= tail'[t]
    <3> SUFFICES ASSUME NEW t \in PromptSessions
                 PROVE  /\ tail[t] # None => req'[tail[t]].session = t
                        /\ \A q \in Prompts!Requests : req'[q].session = t =>
                             IF tail[t] = None THEN Prompts!Ended(q)' ELSE q <= tail[t]
      BY <2>1
    <3>1. tail[t] # None => tail[t] \in Prompts!Requests /\ tail[t] # r
      BY <1>0, <1>f DEF PromptsTyped, Prompts!LineIsOrdered
    <3> QED
      BY <1>f, <2>4, <2>6, <3>1 DEF Prompts!LineIsOrdered, Prompts!Ended
  <2> QED
    BY <2>4, <2>5, <2>6, <2>7, <2>8, <2>9, <2>10, <2>11 DEF Prompts!LineIsOrdered
<1>2. ASSUME NEW path \in Prompts!Paths,
             req' = [req EXCEPT ![r] = [pc |-> "waiting", session |-> s, path |-> path,
                                        prev |-> tail[s], tools |-> {}]],
             tail' = [tail EXCEPT ![s] = r]
      PROVE  PromptsTyped' /\ Prompts!LineIsOrdered'
             /\ (\A q \in Prompts!Requests : q # r => req'[q] = req[q])
             /\ req'[r].pc = "waiting"
  <2> DEFINE row == [pc |-> "waiting", session |-> s, path |-> path, prev |-> tail[s], tools |-> {}]
  <2>1. /\ row \in PromptRows /\ row.pc = "waiting" /\ row.session = s /\ row.path = path
        /\ row.prev = tail[s]
    BY DEF PromptRows, PromptsTyped
  <2>2. req' = [req EXCEPT ![r] = row]
    BY <1>2
  <2> HIDE DEF row
  <2>3. /\ req'[r] = row /\ req' \in [Prompts!Requests -> PromptRows]
        /\ \A q \in Prompts!Requests : q # r => req'[q] = req[q]
    BY <2>1, <2>2 DEF PromptsTyped
  <2>4. /\ tail' \in [PromptSessions -> Prompts!Requests \union {None}] /\ tail'[s] = r
        /\ \A t \in PromptSessions : t # s => tail'[t] = tail[t]
    BY <1>2 DEF PromptsTyped
  <2>5. PromptsTyped'
    BY <2>3, <2>4 DEF PromptsTyped
  <2>6. /\ req'[r].pc = "waiting" /\ req'[r].session = s /\ req'[r].path = path
        /\ req'[r].prev = tail[s]
    BY <2>1, <2>3
  <2>7. /\ \A q \in Prompts!Requests : q > r => req[q].session = None /\ req'[q] = req[q]
        /\ \A q \in Prompts!Requests : req[q].session # None => q < r
    BY <1>0, <1>f, <1>n, <2>3
  <2>8. /\ tail[s] # None => tail[s] \in Prompts!Requests /\ tail[s] < r /\ req[tail[s]].session = s
        /\ \A q \in Prompts!Requests : req[q].session = s =>
             IF tail[s] = None THEN Prompts!Ended(q) ELSE q <= tail[s]
    BY <1>f, <2>7 DEF PromptsTyped, Prompts!LineIsOrdered
  <2>9. \A q \in Prompts!Requests :
          /\ req'[q].pc = "new" => req'[q] = Prompts!Fresh
          /\ req'[q].pc = "waiting" \/ Prompts!Holds(q)' => req'[q].session # None
          /\ req'[q].session # None => req'[q].path # None
    <3> SUFFICES ASSUME NEW q \in Prompts!Requests
                 PROVE  /\ req'[q].pc = "new" => req'[q] = Prompts!Fresh
                        /\ req'[q].pc = "waiting" \/ Prompts!Holds(q)' => req'[q].session # None
                        /\ req'[q].session # None => req'[q].path # None
      BY Zenon
    <3>1. CASE q = r
      BY <1>f, <2>6, <3>1, PromptNumbers
    <3>2. CASE q # r
      <4>1. req'[q] = req[q] /\ (Prompts!Holds(q)' <=> Prompts!Holds(q))
        BY <2>3, <3>2 DEF Prompts!Holds
      <4> QED
        BY <4>1 DEF Prompts!LineIsOrdered
    <3> QED
      BY <3>1, <3>2
  <2>10. \A p, q \in Prompts!Requests : p < q /\ req'[q].pc # "new" => req'[p].pc # "new"
    BY <1>0, <1>n, <2>3, <2>6
  <2>11. \A p, q \in Prompts!Requests :
          p < q /\ req'[p].session = req'[q].session /\ req'[q].session # None =>
            Prompts!Ended(p)' \/ (req'[q].pc = "waiting" /\ req'[q].prev # None /\ p <= req'[q].prev)
    <3> SUFFICES ASSUME NEW p \in Prompts!Requests, NEW q \in Prompts!Requests, p < q,
                        req'[p].session = req'[q].session, req'[q].session # None
                 PROVE  Prompts!Ended(p)' \/
                          (req'[q].pc = "waiting" /\ req'[q].prev # None /\ p <= req'[q].prev)
      BY Zenon
    <3>1. ~(q > r) /\ p # r /\ req'[p] = req[p]
      BY <1>0, <1>n, <2>3, <2>7
    <3>2. Prompts!Ended(p)' <=> Prompts!Ended(p)
      BY <3>1 DEF Prompts!Ended
    <3>3. CASE q = r
      BY <2>6, <2>8, <3>1, <3>2, <3>3
    <3>4. CASE q # r
      BY <2>3, <3>1, <3>2, <3>4 DEF Prompts!LineIsOrdered
    <3> QED
      BY <3>3, <3>4
  <2>12. \A q \in Prompts!Requests : req'[q].pc = "waiting" /\ req'[q].prev # None =>
          req'[q].prev < q /\ req'[req'[q].prev].session = req'[q].session
    <3> SUFFICES ASSUME NEW q \in Prompts!Requests, req'[q].pc = "waiting", req'[q].prev # None
                 PROVE  req'[q].prev < q /\ req'[req'[q].prev].session = req'[q].session
      BY Zenon
    <3>1. CASE q = r
      BY <1>0, <2>3, <2>6, <2>8, <3>1
    <3>2. CASE q # r
      <4>1. req'[q] = req[q] /\ req[q].prev \in Prompts!Requests /\ req[q].session # None
        BY <2>3, <3>2 DEF PromptsTyped, PromptRows, Prompts!LineIsOrdered
      <4>2. req[q].prev < q /\ req[req[q].prev].session = req[q].session
        BY <4>1 DEF Prompts!LineIsOrdered
      <4>3. req[r].session = None
        BY <1>0, <1>f
      <4> QED
        BY <2>3, <4>1, <4>2, <4>3
    <3> QED
      BY <3>1, <3>2
  <2>13. \A t \in PromptSessions :
           /\ tail'[t] # None => req'[tail'[t]].session = t
           /\ \A q \in Prompts!Requests : req'[q].session = t =>
                IF tail'[t] = None THEN Prompts!Ended(q)' ELSE q <= tail'[t]
    <3> SUFFICES ASSUME NEW t \in PromptSessions
                 PROVE  /\ tail'[t] # None => req'[tail'[t]].session = t
                        /\ \A q \in Prompts!Requests : req'[q].session = t =>
                             IF tail'[t] = None THEN Prompts!Ended(q)' ELSE q <= tail'[t]
      BY Zenon
    <3>1. CASE t = s
      <4>1. r # None
        BY PromptNumbers
      <4>2. \A q \in Prompts!Requests : req'[q].session = t => q <= r
        BY <1>0, <1>f, <1>n, <2>7
      <4> QED
        BY <2>4, <2>6, <3>1, <4>1, <4>2
    <3>2. CASE t # s
      <4>1. tail'[t] = tail[t] /\ (tail[t] # None => tail[t] \in Prompts!Requests)
        BY <2>4, <3>2 DEF PromptsTyped
      <4>2. \A q \in Prompts!Requests : req'[q].session = t => q # r
        BY <2>6, <3>2
      <4>3. \A q \in Prompts!Requests : q # r => (Prompts!Ended(q)' <=> Prompts!Ended(q))
        BY <2>3 DEF Prompts!Ended
      <4>4. tail[t] # None => tail[t] # r
        BY <1>0, <1>f DEF Prompts!LineIsOrdered
      <4> QED
        BY <2>3, <4>1, <4>2, <4>3, <4>4 DEF Prompts!LineIsOrdered
    <3> QED
      BY <3>1, <3>2
  <2> QED
    BY <2>3, <2>5, <2>6, <2>9, <2>10, <2>11, <2>12, <2>13 DEF Prompts!LineIsOrdered
<1> QED
  BY <1>1, <1>2, Zenon DEF Prompts!Join

PromptKeeps ==
  Prompts!TypeOK' /\ Prompts!LineIsOrdered' /\ Prompts!PolicyHolds'
    /\ Prompts!SubmittedUnderOwnPolicy' /\ Prompts!IdentityKept'

UpstreamTyped ==
  /\ alive \subseteq PromptSessions /\ denied \in [PromptSessions -> SUBSET Tools]
  /\ recorded \in [PromptSessions -> Prompts!Agents]
  /\ lastUser \in [PromptSessions -> Prompts!Agents]
  /\ suffix \in [PromptSessions -> {None} \union (Prompts!Modes \X SUBSET Tools)]
  /\ config \in [PromptSessions -> Prompts!Config] /\ catalogue \subseteq Tools
AllPromptsTyped == PromptsTyped /\ UpstreamTyped /\ promptFaults \in 0..PromptFaults

(* The type invariant, by what a step of the line moves and what it does not.     *)
LEMMA PromptTypes == Prompts!TypeOK <=> AllPromptsTyped
BY Zenon DEF Prompts!TypeOK, AllPromptsTyped, UpstreamTyped, PromptsTyped, PromptRows

(* Faults are counted up to their bound.                                          *)
LEMMA FaultsCount ==
  ASSUME promptFaults \in 0..PromptFaults, Prompts!Fault \/ Prompts!NoFault
  PROVE  promptFaults' \in 0..PromptFaults
BY ServicesAssumption DEF Prompts!Fault, Prompts!NoFault

(* A step is typed by its parts.                                                  *)
LEMMA StepTyped ==
  ASSUME Prompts!TypeOK, PromptsTyped', Prompts!Fault \/ Prompts!NoFault, UpstreamTyped'
  PROVE  Prompts!TypeOK'
<1>1. Prompts!TypeOK' <=> AllPromptsTyped'
  BY PromptTypes, PTL
<1>2. promptFaults' \in 0..PromptFaults
  BY FaultsCount, PromptTypes DEF AllPromptsTyped
<1> QED
  BY <1>1, <1>2 DEF AllPromptsTyped

\* What a step leaves alone when it changes no session's policy and sends nothing.
PolicyUntouched == UNCHANGED <<denied, suffix, recorded, lastUser, sent>>

(* A request that a step leaves alone, with its session's policy, holds what it read. *)
LEMMA HolderStays ==
  ASSUME NEW q \in Prompts!Requests, req'[q] = req[q], denied'[req[q].session] = denied[req[q].session],
         recorded'[req[q].session] = recorded[req[q].session],
         lastUser'[req[q].session] = lastUser[req[q].session]
  PROVE  (Prompts!Holds(q)' <=> Prompts!Holds(q)) /\ (HolderOK(q)' <=> HolderOK(q))
<1>1. Prompts!Holds(q)' <=> Prompts!Holds(q)
  BY DEF Prompts!Holds
<1>2. HolderOK(q)' <=> HolderOK(q)
  BY DEF HolderOK, Prompts!Identity
<1> QED
  BY <1>1, <1>2

(* The policy invariant stays where no policy is touched and whoever begins to    *)
(* hold a lock found it in place.                                                 *)
LEMMA PolicyStays ==
  ASSUME Prompts!PolicyHolds, PolicyUntouched, NEW r,
         \A q \in Prompts!Requests : q # r => req'[q] = req[q],
         r \in Prompts!Requests => ~Prompts!Holds(r)' \/ HolderOK(r)'
  PROVE  Prompts!PolicyHolds'
<1>1. \A s \in PromptSessions : RulesOK(s)'
  <2>1. \A s \in PromptSessions : RulesOK(s)
    BY PolicyParts DEF PolicyByParts
  <2> QED
    BY <2>1 DEF RulesOK, PolicyUntouched
<1>2. ASSUME NEW q \in Prompts!Requests, Prompts!Holds(q)'
      PROVE  HolderOK(q)'
  <2>1. CASE q = r
    BY <1>2, <2>1
  <2>2. CASE q # r
    <3>1. req'[q] = req[q]
      BY <2>2
    <3>2. (Prompts!Holds(q)' <=> Prompts!Holds(q)) /\ (HolderOK(q)' <=> HolderOK(q))
      BY <3>1, HolderStays DEF PolicyUntouched
    <3> QED
      BY <1>2, <3>2, PolicyParts, Zenon DEF PolicyByParts
  <2> QED
    BY <2>1, <2>2
<1>3. Prompts!PolicyHolds' <=> PolicyByParts'
  BY PolicyParts, PTL
<1> QED
  BY <1>1, <1>2, <1>3, Zenon DEF PolicyByParts

(* What was sent does not change with it.                                         *)
LEMMA SentStays ==
  ASSUME PolicyUntouched, Prompts!SubmittedUnderOwnPolicy, Prompts!IdentityKept
  PROVE  Prompts!SubmittedUnderOwnPolicy' /\ Prompts!IdentityKept'
BY DEF PolicyUntouched, Prompts!SubmittedUnderOwnPolicy, Prompts!IdentityKept

(* Who has its turn or holds a lock has a session and a path.                     *)
LEMMA HolderHasSession ==
  ASSUME PromptsTyped, Prompts!LineIsOrdered, NEW r \in Prompts!Requests,
         Prompts!Turn(r) \/ Prompts!Holds(r)
  PROVE  req[r].session \in PromptSessions /\ req[r].path \in Prompts!Paths /\ req[r] \in PromptRows
<1>1. req[r].pc = "waiting" \/ Prompts!Holds(r)
  BY DEF Prompts!Turn
<1>2. req[r].session # None
  BY <1>1 DEF Prompts!LineIsOrdered
<1>3. req[r].path # None
  BY <1>2 DEF Prompts!LineIsOrdered
<1> QED
  BY <1>2, <1>3 DEF PromptsTyped, PromptRows

(* Join keeps everything.                                                         *)
LEMMA JoinKeeps ==
  ASSUME Prompts!TypeOK, Prompts!PromptInv, NEW r \in Prompts!Requests, NEW s \in PromptSessions,
         Prompts!Join(r, s)
  PROVE  PromptKeeps
<1>0. PromptsTyped /\ Prompts!LineIsOrdered /\ Prompts!PolicyHolds
        /\ Prompts!SubmittedUnderOwnPolicy /\ Prompts!IdentityKept
  BY PromptTypes DEF Prompts!PromptInv, AllPromptsTyped
<1>1. /\ PromptsTyped' /\ Prompts!LineIsOrdered'
      /\ \A q \in Prompts!Requests : q # r => req'[q] = req[q]
      /\ req'[r].pc \in {"waiting", "failed"}
  BY <1>0, JoinsInLine
<1>2. /\ UNCHANGED <<alive, denied, suffix, recorded, lastUser, config, catalogue>>
      /\ PolicyUntouched /\ Prompts!NoFault
  BY DEF Prompts!Join, Prompts!upstream, PolicyUntouched
<1>3. Prompts!TypeOK'
  <2>1. UpstreamTyped'
    BY <1>2, PromptTypes DEF AllPromptsTyped, UpstreamTyped
  <2> QED
    BY <1>1, <1>2, <2>1, StepTyped
<1>4. Prompts!PolicyHolds'
  <2>1. ~Prompts!Holds(r)'
    BY <1>1 DEF Prompts!Holds
  <2> QED
    BY <1>0, <1>1, <1>2, <2>1, PolicyStays
<1> QED
  BY <1>0, <1>1, <1>2, <1>3, <1>4, SentStays DEF PromptKeeps

\* What a step of the prompts starts from.
PromptHolds ==
  /\ PromptsTyped /\ UpstreamTyped /\ Prompts!LineIsOrdered /\ Prompts!PolicyHolds
  /\ Prompts!SubmittedUnderOwnPolicy /\ Prompts!IdentityKept

(* The invariants hold it.                                                        *)
LEMMA InvHoldsPrompt ==
  Prompts!TypeOK /\ Prompts!PromptInv => PromptHolds
BY PromptTypes DEF Prompts!PromptInv, AllPromptsTyped, PromptHolds

(* An answer that touches no session keeps everything.                            *)
LEMMA AnswerKeeps ==
  ASSUME Prompts!TypeOK, Prompts!PromptInv, NEW r \in Prompts!Requests,
         Prompts!Turn(r) \/ Prompts!Holds(r), NEW pc \in {"accepted", "failed"},
         Prompts!Answer(r, pc), Prompts!Fault \/ Prompts!NoFault,
         UNCHANGED <<alive, denied, suffix, recorded, lastUser, config, catalogue, sent>>
  PROVE  PromptKeeps
<1>0. PromptHolds
  BY InvHoldsPrompt
<1>1. req[r].session \in PromptSessions
  BY <1>0, HolderHasSession DEF PromptHolds
<1>2. GoesOn(r) /\ req'[r].pc = pc
  BY <1>0, <1>1, StepsGoOn DEF PromptHolds
<1>3. PromptsTyped' /\ Prompts!LineIsOrdered'
  BY <1>0, <1>2, GoesOnInLine DEF PromptHolds
<1>4. PolicyUntouched /\ UpstreamTyped'
  BY <1>0 DEF PromptHolds, PolicyUntouched, UpstreamTyped
<1>5. ~Prompts!Holds(r)'
  BY <1>2 DEF Prompts!Holds
<1>6. Prompts!PolicyHolds'
  BY <1>0, <1>2, <1>4, <1>5, PolicyStays DEF PromptHolds, GoesOn
<1> QED
  BY <1>0, <1>3, <1>4, <1>6, StepTyped, SentStays DEF PromptKeeps, PromptHolds

(* What a request reads of its session is what it goes on with.                   *)
LEMMA ReadKeeps ==
  ASSUME Prompts!TypeOK, Prompts!PromptInv, NEW r \in Prompts!Requests, Prompts!Read(r)
  PROVE  PromptKeeps
<1>0. PromptHolds
  BY InvHoldsPrompt
<1>1. /\ Prompts!Turn(r)
      /\ UNCHANGED <<alive, denied, suffix, recorded, lastUser, config, catalogue, sent>>
  BY DEF Prompts!Read, Prompts!upstream
<1>2. CASE Prompts!Answer(r, "failed") /\ (Prompts!Fault \/ Prompts!NoFault)
  BY <1>1, <1>2, AnswerKeeps
<1>3. ASSUME Prompts!Qualifies(r), Prompts!NoFault, tail' = tail,
             req' = [req EXCEPT ![r].tools = catalogue,
                       ![r].pc = IF req[r].path \in Prompts!Modes
                                    /\ ~Prompts!InPlace(req[r].session, req[r].path, catalogue)
                                   THEN "patching" ELSE "sending"]
      PROVE  PromptKeeps
  <2>1. req[r].session \in PromptSessions /\ req[r].path \in Prompts!Paths /\ req[r] \in PromptRows
    BY <1>0, <1>1, HolderHasSession DEF PromptHolds
  <2> DEFINE patches == req[r].path \in Prompts!Modes
                          /\ ~Prompts!InPlace(req[r].session, req[r].path, catalogue)
             row == [req[r] EXCEPT !.tools = catalogue, !.pc = IF patches THEN "patching" ELSE "sending"]
  <2>2. req' = [req EXCEPT ![r] = row]
    <3>1. req \in [Prompts!Requests -> PromptRows]
      BY <1>0 DEF PromptHolds, PromptsTyped
    <3> HIDE DEF patches
    <3> QED
      BY <1>3, <2>1, <3>1 DEF patches, PromptRows
  <2> HIDE DEF patches
  <2>3. /\ row \in PromptRows /\ row.session = req[r].session /\ row.path = req[r].path
        /\ row.prev = req[r].prev /\ row.tools = catalogue
        /\ row.pc = IF patches THEN "patching" ELSE "sending"
    BY <1>0, <2>1 DEF PromptRows, PromptHolds, UpstreamTyped
  <2> HIDE DEF row
  <2>4. /\ req'[r] = row /\ req' \in [Prompts!Requests -> PromptRows]
        /\ \A q \in Prompts!Requests : q # r => req'[q] = req[q]
    BY <1>0, <2>2, <2>3 DEF PromptHolds, PromptsTyped
  <2>5. GoesOn(r)
    <3>1. tail' \in [PromptSessions -> Prompts!Requests \union {None}]
      BY <1>0, <1>3 DEF PromptHolds, PromptsTyped
    <3> QED
      BY <1>3, <2>3, <2>4, <3>1 DEF GoesOn
  <2>6. PromptsTyped' /\ Prompts!LineIsOrdered'
    BY <1>0, <1>1, <2>5, GoesOnInLine DEF PromptHolds
  <2>7. PolicyUntouched /\ UpstreamTyped'
    BY <1>0, <1>1 DEF PromptHolds, PolicyUntouched, UpstreamTyped
  <2>8. HolderOK(r)'
    <3> DEFINE s == req[r].session  path == req[r].path
    <3>1. /\ path \in Prompts!Modes => Prompts!Identity(s) # {} /\ Prompts!Identity(s) \subseteq Prompts!Modes
          /\ path = "agent" => Prompts!Identity(s) = {Agent}
      BY <1>3 DEF Prompts!Qualifies, Prompts!Modes
    <3>2. /\ patches => path \in Prompts!Modes
          /\ ~patches /\ path = "plan" => catalogue \subseteq denied[s]
          /\ ~patches /\ path = "build" => catalogue \intersect denied[s] = {}
      <4>1. RulesOK(s) /\ catalogue \in SUBSET Tools
        BY <1>0, <2>1, PolicyParts DEF PromptHolds, PolicyByParts, UpstreamTyped
      <4> QED
        BY <4>1 DEF patches, RulesOK, Prompts!InPlace, Prompts!Modes
    <3>3. /\ req'[r].session = s /\ req'[r].path = path /\ req'[r].tools = catalogue
          /\ req'[r].pc = IF patches THEN "patching" ELSE "sending"
          /\ denied' = denied /\ recorded' = recorded /\ lastUser' = lastUser
      BY <1>1, <2>3, <2>4
    <3> HIDE DEF s, path
    <3> QED
      BY <3>1, <3>2, <3>3 DEF HolderOK, Prompts!Identity
  <2>9. Prompts!PolicyHolds'
    BY <1>0, <2>4, <2>7, <2>8, PolicyStays DEF PromptHolds
  <2> QED
    BY <1>0, <1>3, <2>6, <2>7, <2>9, StepTyped, SentStays DEF PromptKeeps, PromptHolds
<1> QED
  <2>1. \/ Prompts!Answer(r, "failed") /\ (Prompts!Fault \/ Prompts!NoFault)
        \/ /\ Prompts!Qualifies(r) /\ Prompts!NoFault /\ tail' = tail
           /\ req' = [req EXCEPT ![r].tools = catalogue,
                       ![r].pc = IF req[r].path \in Prompts!Modes
                                    /\ ~Prompts!InPlace(req[r].session, req[r].path, catalogue)
                                   THEN "patching" ELSE "sending"]
    BY Zenon DEF Prompts!Read
  <2> QED
    BY <1>2, <1>3, <2>1, Zenon

(* The rules that are put on a session are of its holder's mode, and nobody else   *)
(* of the session holds what it read.                                             *)
LEMMA PatchKeeps ==
  ASSUME Prompts!TypeOK, Prompts!PromptInv, NEW r \in Prompts!Requests, Prompts!Patch(r)
  PROVE  PromptKeeps
<1> DEFINE s == req[r].session
<1>0. PromptHolds
  BY InvHoldsPrompt
<1>1. /\ req[r].pc = "patching" /\ Prompts!Holds(r)
      /\ UNCHANGED <<alive, recorded, lastUser, config, catalogue, sent>>
  BY DEF Prompts!Patch, Prompts!Holds
<1>2. s \in PromptSessions /\ req[r].path \in Prompts!Paths /\ req[r] \in PromptRows
  BY <1>0, <1>1, HolderHasSession DEF PromptHolds
<1>3. CASE Prompts!Answer(r, "failed") /\ (Prompts!Fault \/ Prompts!NoFault) /\ UNCHANGED <<suffix, denied>>
  BY <1>1, <1>3, AnswerKeeps
<1>4. ASSUME suffix' = [suffix EXCEPT ![s] = <<req[r].path, req[r].tools>>],
             denied' = [denied EXCEPT ![s] = IF req[r].path = "plan"
                                 THEN @ \union req[r].tools ELSE @ \ req[r].tools],
             Prompts!Fault \/ Prompts!NoFault,
             Prompts!Go(r, "sending") \/ Prompts!Answer(r, "failed")
      PROVE  PromptKeeps
  <2>1. HolderOK(r)
    BY <1>0, <1>1, PolicyParts DEF PromptHolds, PolicyByParts
  <2>2. req[r].path \in Prompts!Modes /\ req[r].tools \in SUBSET Tools
    BY <1>1, <1>2, <2>1 DEF HolderOK, PromptRows
  <2>3. /\ suffix'[s] = <<req[r].path, req[r].tools>>
        /\ denied'[s] = IF req[r].path = "plan" THEN denied[s] \union req[r].tools
                                               ELSE denied[s] \ req[r].tools
        /\ \A t \in PromptSessions : t # s => suffix'[t] = suffix[t] /\ denied'[t] = denied[t]
    BY <1>0, <1>2, <1>4 DEF PromptHolds, UpstreamTyped
  <2>4. UpstreamTyped'
    <3>1. suffix' \in [PromptSessions -> {None} \union (Prompts!Modes \X SUBSET Tools)]
      BY <1>0, <1>4, <2>2 DEF PromptHolds, UpstreamTyped
    <3>2. denied' \in [PromptSessions -> SUBSET Tools]
      BY <1>0, <1>2, <1>4, <2>2 DEF PromptHolds, UpstreamTyped
    <3> QED
      BY <1>0, <1>1, <3>1, <3>2 DEF PromptHolds, UpstreamTyped
  <2>5. GoesOn(r) /\ (req'[r].pc = "failed" \/ req'[r] = [req[r] EXCEPT !.pc = "sending"])
    <3>1. CASE Prompts!Go(r, "sending")
      BY <1>0, <1>2, <3>1, StepsGoOn DEF PromptHolds
    <3>2. CASE Prompts!Answer(r, "failed")
      BY <1>0, <1>2, <3>2, StepsGoOn DEF PromptHolds
    <3> QED
      BY <1>4, <3>1, <3>2
  <2>6. PromptsTyped' /\ Prompts!LineIsOrdered'
    BY <1>0, <1>1, <2>5, GoesOnInLine DEF PromptHolds
  <2>7. \A t \in PromptSessions : RulesOK(t)'
    <3> SUFFICES ASSUME NEW t \in PromptSessions
                 PROVE  RulesOK(t)'
      OBVIOUS
    <3>1. CASE t = s
      <4>1. suffix'[t] = <<req[r].path, req[r].tools>>
        BY <2>3, <3>1
      <4>2. ASSUME NEW tools \in SUBSET Tools, suffix'[t] = <<"plan", tools>>
            PROVE  tools \subseteq denied'[t]
        <5>1. req[r].path = "plan" /\ tools = req[r].tools
          BY <4>1, <4>2
        <5> QED
          BY <2>3, <3>1, <5>1
      <4>3. ASSUME NEW tools \in SUBSET Tools, suffix'[t] = <<"build", tools>>
            PROVE  tools \intersect denied'[t] = {}
        <5>1. req[r].path = "build" /\ tools = req[r].tools
          BY <4>1, <4>3
        <5> QED
          BY <2>3, <3>1, <5>1
      <4> QED
        BY <4>2, <4>3 DEF RulesOK
    <3>2. CASE t # s
      <4>1. RulesOK(t)
        BY <1>0, PolicyParts DEF PromptHolds, PolicyByParts
      <4>2. suffix'[t] = suffix[t] /\ denied'[t] = denied[t]
        BY <2>3, <3>2
      <4> QED
        BY <4>1, <4>2 DEF RulesOK
    <3> QED
      BY <3>1, <3>2
  <2>8. ASSUME NEW q \in Prompts!Requests, Prompts!Holds(q)'
        PROVE  HolderOK(q)'
    <3>1. CASE q = r
      <4>1. req'[r] = [req[r] EXCEPT !.pc = "sending"]
        BY <2>5, <2>8, <3>1 DEF Prompts!Holds
      <4>2. /\ req'[r].session = s /\ req'[r].path = req[r].path /\ req'[r].tools = req[r].tools
            /\ req'[r].pc = "sending"
        BY <1>2, <4>1 DEF PromptRows
      <4>3. /\ Prompts!Identity(s) # {} /\ Prompts!Identity(s) \subseteq Prompts!Modes
            /\ req[r].path = "plan" \/ req[r].path = "build"
        BY <2>1, <2>2 DEF HolderOK, Prompts!Modes
      <4> HIDE DEF s
      <4> QED
        BY <1>1, <2>3, <3>1, <4>2, <4>3 DEF HolderOK, Prompts!Identity
    <3>2. CASE q # r
      <4>1. req'[q] = req[q]
        BY <2>5, <3>2 DEF GoesOn
      <4>2. Prompts!Holds(q)
        BY <2>8, <4>1 DEF Prompts!Holds
      <4>3. req[q].session \in PromptSessions
        BY <1>0, <4>2, HolderHasSession DEF PromptHolds
      <4>4. req[q].session # s
        <5>1. Prompts!OneAtATime
          BY <1>0, LineIsOneAtATime DEF PromptHolds
        <5> QED
          BY <1>1, <3>2, <4>2, <5>1, Zenon DEF Prompts!OneAtATime
      <4>5. HolderOK(q)' <=> HolderOK(q)
        BY <1>1, <2>3, <4>1, <4>3, <4>4, HolderStays
      <4> QED
        BY <1>0, <4>2, <4>5, PolicyParts DEF PromptHolds, PolicyByParts
    <3> QED
      BY <3>1, <3>2
  <2>9. Prompts!PolicyHolds'
    <3>1. Prompts!PolicyHolds' <=> PolicyByParts'
      BY PolicyParts, PTL
    <3> QED
      BY <2>7, <2>8, <3>1, Zenon DEF PolicyByParts
  <2>10. Prompts!SubmittedUnderOwnPolicy' /\ Prompts!IdentityKept'
    BY <1>0, <1>1 DEF PromptHolds, Prompts!SubmittedUnderOwnPolicy, Prompts!IdentityKept
  <2> QED
    BY <1>4, <2>4, <2>6, <2>9, <2>10, StepTyped DEF PromptKeeps
<1> QED
  <2>1. \/ /\ suffix' = [suffix EXCEPT ![s] = <<req[r].path, req[r].tools>>]
           /\ denied' = [denied EXCEPT ![s] = IF req[r].path = "plan"
                                 THEN @ \union req[r].tools ELSE @ \ req[r].tools]
           /\ Prompts!Fault \/ Prompts!NoFault
           /\ Prompts!Go(r, "sending") \/ Prompts!Answer(r, "failed")
        \/ Prompts!Answer(r, "failed") /\ (Prompts!Fault \/ Prompts!NoFault) /\ UNCHANGED <<suffix, denied>>
    BY Zenon DEF Prompts!Patch
  <2> QED
    BY <1>3, <1>4, <2>1, Zenon

(* What is submitted is what its holder found in place, and the agent it names is  *)
(* of the session's kind; nobody else of the session holds what it read.           *)
LEMMA SubmitKeeps ==
  ASSUME Prompts!TypeOK, Prompts!PromptInv, NEW r \in Prompts!Requests, Prompts!Submit(r)
  PROVE  PromptKeeps
<1> DEFINE s == req[r].session
           entry == [path |-> req[r].path, tools |-> req[r].tools,
                     of |-> Prompts!Effective(s, req[r].tools)]
<1>0. PromptHolds
  BY InvHoldsPrompt
<1>1. /\ req[r].pc = "sending" /\ Prompts!Holds(r)
      /\ UNCHANGED <<alive, denied, suffix, recorded, config, catalogue>>
  BY DEF Prompts!Submit, Prompts!Holds
<1>2. s \in PromptSessions /\ req[r].path \in Prompts!Paths /\ req[r] \in PromptRows
  BY <1>0, <1>1, HolderHasSession DEF PromptHolds
<1>3. CASE Prompts!Answer(r, "failed") /\ (Prompts!Fault \/ Prompts!NoFault) /\ UNCHANGED <<lastUser, sent>>
  BY <1>1, <1>3, AnswerKeeps
<1>4. ASSUME NEW pc \in {"accepted", "failed"}, Prompts!Answer(r, pc),
             lastUser' = [lastUser EXCEPT ![s] = Prompts!AgentOf(r)],
             sent' = sent \union {entry}, Prompts!Fault \/ Prompts!NoFault
      PROVE  PromptKeeps
  <2>1. HolderOK(r)
    BY <1>0, <1>1, PolicyParts DEF PromptHolds, PolicyByParts
  <2>2. Prompts!AgentOf(r) \in Prompts!Agents
    <3>1. recorded[s] \in Prompts!Agents
      BY <1>0, <1>2 DEF PromptHolds, UpstreamTyped
    <3> QED
      BY <1>2, <3>1 DEF Prompts!AgentOf, Prompts!Agents, Prompts!Paths, Prompts!Modes
  <2> DEFINE agent == Prompts!AgentOf(r)
  <2>3. UpstreamTyped'
    <3>1. lastUser' \in [PromptSessions -> Prompts!Agents]
      <4>1. lastUser' = [lastUser EXCEPT ![s] = agent] /\ agent \in Prompts!Agents
        BY <1>4, <2>2
      <4> HIDE DEF agent
      <4> QED
        BY <1>0, <4>1 DEF PromptHolds, UpstreamTyped
    <3> QED
      BY <1>0, <1>1, <3>1 DEF PromptHolds, UpstreamTyped
  <2>4. GoesOn(r) /\ req'[r].pc = pc
    BY <1>0, <1>2, <1>4, StepsGoOn DEF PromptHolds
  <2>5. PromptsTyped' /\ Prompts!LineIsOrdered'
    BY <1>0, <1>1, <2>4, GoesOnInLine DEF PromptHolds
  <2>6. \A t \in PromptSessions : t # s => lastUser'[t] = lastUser[t]
    <3> HIDE DEF s
    <3>1. lastUser' = [lastUser EXCEPT ![s] = Prompts!AgentOf(r)]
      BY <1>4
    <3> QED
      BY <1>0, <3>1 DEF PromptHolds, UpstreamTyped
  <2>7. \A t \in PromptSessions : RulesOK(t)'
    <3>1. \A t \in PromptSessions : RulesOK(t)
      BY <1>0, PolicyParts DEF PromptHolds, PolicyByParts
    <3> QED
      BY <1>1, <3>1 DEF RulesOK
  <2>8. ASSUME NEW q \in Prompts!Requests, Prompts!Holds(q)'
        PROVE  HolderOK(q)'
    <3>1. q # r
      BY <2>4, <2>8 DEF Prompts!Holds
    <3>2. req'[q] = req[q]
      BY <2>4, <3>1 DEF GoesOn
    <3>3. Prompts!Holds(q)
      BY <2>8, <3>2 DEF Prompts!Holds
    <3>4. req[q].session \in PromptSessions
      BY <1>0, <3>3, HolderHasSession DEF PromptHolds
    <3>5. req[q].session # s
      <4>1. Prompts!OneAtATime
        BY <1>0, LineIsOneAtATime DEF PromptHolds
      <4> QED
        BY <1>1, <3>1, <3>3, <4>1, Zenon DEF Prompts!OneAtATime
    <3>6. lastUser'[req[q].session] = lastUser[req[q].session]
      BY <2>6, <3>4, <3>5, Zenon
    <3>7. HolderOK(q)' <=> HolderOK(q)
      BY <1>1, <3>2, <3>6, HolderStays
    <3> QED
      BY <1>0, <3>3, <3>7, PolicyParts DEF PromptHolds, PolicyByParts
  <2>9. Prompts!PolicyHolds'
    <3>1. Prompts!PolicyHolds' <=> PolicyByParts'
      BY PolicyParts, PTL
    <3> QED
      BY <2>7, <2>8, <3>1, Zenon DEF PolicyByParts
  <2>10. /\ entry.path = req[r].path /\ entry.tools = req[r].tools
         /\ entry.of.denied = denied[s] \intersect req[r].tools
         /\ entry.of.agents = Prompts!Identity(s)
    BY DEF Prompts!Effective
  <2>11. /\ entry.path = "plan" => entry.of.denied = entry.tools
         /\ entry.path = "build" => entry.of.denied = {}
         /\ entry.path \in Prompts!Modes => entry.of.agents # {} /\ entry.of.agents \subseteq Prompts!Modes
         /\ entry.path = "agent" => entry.of.agents = {Agent}
    <3> HIDE DEF entry, s
    <3>1. HolderOK(r) /\ req[r].pc = "sending"
      BY <1>1, <2>1
    <3> QED
      BY <2>10, <3>1 DEF HolderOK, s
  <2>12. Prompts!SubmittedUnderOwnPolicy' /\ Prompts!IdentityKept'
    <3> HIDE DEF entry
    <3> QED
      BY <1>0, <1>4, <2>11 DEF PromptHolds, Prompts!SubmittedUnderOwnPolicy, Prompts!IdentityKept
  <2> QED
    BY <1>4, <2>3, <2>5, <2>9, <2>12, StepTyped DEF PromptKeeps
<1> QED
  <2>1. \/ \E pc \in {"accepted", "failed"} :
             /\ Prompts!Answer(r, pc) /\ (Prompts!Fault \/ Prompts!NoFault)
             /\ lastUser' = [lastUser EXCEPT ![s] = Prompts!AgentOf(r)]
             /\ sent' = sent \union {entry}
        \/ Prompts!Answer(r, "failed") /\ (Prompts!Fault \/ Prompts!NoFault) /\ UNCHANGED <<lastUser, sent>>
    BY DEF Prompts!Submit
  <2> QED
    BY <1>3, <1>4, <2>1, Zenon

(* What happens beside the requests changes no policy and no agent.               *)
LEMMA UpstreamKeeps ==
  ASSUME Prompts!TypeOK, Prompts!PromptInv,
         Prompts!ConfigChanges \/ (\E s \in PromptSessions : Prompts!Delete(s)) \/ UNCHANGED promptsVars
  PROVE  PromptKeeps
<1>0. PromptHolds
  BY InvHoldsPrompt
<1>1. /\ UNCHANGED <<denied, suffix, recorded, lastUser, config, sent, req, tail>>
      /\ alive' \subseteq alive /\ catalogue' \subseteq Tools /\ (Prompts!Fault \/ Prompts!NoFault)
  BY <1>0 DEF Prompts!ConfigChanges, Prompts!Delete, promptsVars, PromptHolds, UpstreamTyped,
              Prompts!Catalogues, Prompts!NoFault
<1>2. PromptsTyped' /\ PolicyUntouched /\ UpstreamTyped'
  BY <1>0, <1>1 DEF PromptHolds, PromptsTyped, UpstreamTyped, PolicyUntouched
<1>3. Prompts!LineIsOrdered'
  BY <1>0, <1>1 DEF PromptHolds, Prompts!LineIsOrdered, Prompts!Ended, Prompts!Holds
<1>4. Prompts!PolicyHolds'
  <2>1. None \notin Prompts!Requests /\ \A q \in Prompts!Requests : req'[q] = req[q]
    BY <1>1, PromptNumbers
  <2> QED
    BY <1>0, <1>2, <2>1, PolicyStays DEF PromptHolds
<1> QED
  BY <1>0, <1>1, <1>2, <1>3, <1>4, StepTyped, SentStays DEF PromptKeeps, PromptHolds

(* Every step of the prompts keeps them.                                          *)
LEMMA PromptStep ==
  ASSUME Prompts!TypeOK, Prompts!PromptInv, Prompts!Next \/ UNCHANGED promptsVars
  PROVE  Prompts!TypeOK' /\ Prompts!PromptInv'
<1>1. PromptKeeps
  <2>1. CASE \E r \in Prompts!Requests : Prompts!Read(r)
    BY <2>1, ReadKeeps
  <2>2. CASE \E r \in Prompts!Requests : Prompts!Patch(r)
    BY <2>2, PatchKeeps
  <2>3. CASE \E r \in Prompts!Requests : Prompts!Submit(r)
    BY <2>3, SubmitKeeps
  <2>4. CASE \E s \in PromptSessions, r \in Prompts!Requests : Prompts!Join(r, s)
    BY <2>4, JoinKeeps
  <2>5. CASE Prompts!ConfigChanges \/ (\E s \in PromptSessions : Prompts!Delete(s)) \/ UNCHANGED promptsVars
    BY <2>5, UpstreamKeeps
  <2> QED
    BY <2>1, <2>2, <2>3, <2>4, <2>5, Zenon DEF Prompts!Next, Prompts!Work
<1>2. AllPromptsTyped' <=> Prompts!TypeOK'
  BY PromptTypes, PTL
<1>3. PromptsTyped'
  BY <1>1, <1>2 DEF PromptKeeps, AllPromptsTyped
<1>4. Prompts!OneAtATime'
  <2>1. PromptsTyped /\ Prompts!LineIsOrdered => Prompts!OneAtATime
    BY LineIsOneAtATime
  <2>2. (PromptsTyped /\ Prompts!LineIsOrdered)' => Prompts!OneAtATime'
    BY LineIsOneAtATime, PTL
  <2> QED
    BY <1>1, <1>3, <2>2 DEF PromptKeeps
<1> QED
  BY <1>1, <1>4 DEF PromptKeeps, Prompts!PromptInv

(* They hold of a server that starts.                                             *)
LEMMA PromptStart ==
  Prompts!Init => Prompts!TypeOK /\ Prompts!PromptInv
<1> SUFFICES ASSUME Prompts!Init
             PROVE  Prompts!TypeOK /\ Prompts!PromptInv
  OBVIOUS
<1>1. \A r \in Prompts!Requests : req[r] = Prompts!Fresh
  BY DEF Prompts!Init
<1>2. /\ Prompts!Fresh \in PromptRows /\ Prompts!Fresh.pc = "new" /\ Prompts!Fresh.session = None
  BY DEF Prompts!Fresh, PromptRows
<1>3. PromptsTyped
  BY <1>2 DEF Prompts!Init, PromptsTyped
<1>4. UpstreamTyped
  BY DEF Prompts!Init, UpstreamTyped, Prompts!Agents, Prompts!Catalogues
<1>5. Prompts!LineIsOrdered
  <2>1. \A s \in PromptSessions : tail[s] = None
    BY DEF Prompts!Init
  <2> QED
    BY <1>1, <1>2, <2>1, PromptNumbers DEF Prompts!LineIsOrdered, Prompts!Holds
<1>6. Prompts!PolicyHolds
  <2>1. \A s \in PromptSessions : RulesOK(s)
    BY PromptWords DEF Prompts!Init, RulesOK
  <2>2. \A r \in Prompts!Requests : ~Prompts!Holds(r)
    BY <1>1, <1>2 DEF Prompts!Holds
  <2> QED
    BY <2>1, <2>2, PolicyParts DEF PolicyByParts
<1>7. Prompts!SubmittedUnderOwnPolicy /\ Prompts!IdentityKept /\ promptFaults = 0
  BY DEF Prompts!Init, Prompts!SubmittedUnderOwnPolicy, Prompts!IdentityKept
<1>8. Prompts!TypeOK
  BY <1>3, <1>4, <1>7, PromptTypes, ServicesAssumption DEF AllPromptsTyped
<1>9. Prompts!OneAtATime
  BY <1>3, <1>5, LineIsOneAtATime
<1> QED
  BY <1>5, <1>6, <1>7, <1>8, <1>9 DEF Prompts!PromptInv

(* Whatever prompts of one session come in, fail, are refused or get their answers *)
(* lost, and whatever changes at opencode meanwhile: each is submitted alone, under *)
(* its own policy and to an agent of the session's kind.                           *)
THEOREM PromptsUnderPolicy == Spec => []PromptInv
<1>1. Init => PromptInv
  BY PromptStart DEF Init, PromptInv
<1>2. PromptInv /\ [Next]_vars => PromptInv'
  <2> SUFFICES ASSUME PromptInv, [Next]_vars, moves' = "prompts"
               PROVE  Prompts!TypeOK' /\ Prompts!PromptInv'
    BY DEF PromptInv
  <2>1. moves = "prompts" /\ (Prompts!Next \/ UNCHANGED promptsVars)
    BY OneServiceMoves
  <2> QED
    BY <2>1, PromptStep DEF PromptInv
<1> QED
  BY <1>1, <1>2, PTL DEF Spec

-------------------------------------------------------------------------------
(* Sequences                                                                      *)

(* A sequence without its head.                                                   *)
LEMMA TailFacts ==
  ASSUME NEW T, NEW q \in Seq(T), q # <<>>
  PROVE  /\ Tail(q) \in Seq(T) /\ Head(q) \in T /\ Head(q) = q[1] /\ 1 \in DOMAIN q
         /\ DOMAIN q = 1..Len(q) /\ DOMAIN Tail(q) = 1..(Len(q) - 1) /\ Len(q) \in Nat
         /\ \A i \in DOMAIN Tail(q) :
              i \in Nat /\ i > 0 /\ i + 1 \in DOMAIN q /\ Tail(q)[i] = q[i + 1]
         /\ \A i \in DOMAIN q : i = 1 \/ (i - 1 \in DOMAIN Tail(q) /\ Tail(q)[i - 1] = q[i])
OBVIOUS

(* A sequence with an element more at its end.                                    *)
LEMMA AppendFacts ==
  ASSUME NEW T, NEW q \in Seq(T), NEW x \in T
  PROVE  /\ Append(q, x) \in Seq(T) /\ Append(q, x) # <<>> /\ Len(q) \in Nat
         /\ DOMAIN q = 1..Len(q) /\ DOMAIN Append(q, x) = 1..(Len(q) + 1)
         /\ \A i \in DOMAIN q : i \in DOMAIN Append(q, x) /\ i # Len(q) + 1 /\ Append(q, x)[i] = q[i]
         /\ Len(q) + 1 \in DOMAIN Append(q, x) /\ Append(q, x)[Len(q) + 1] = x
         /\ \A i \in DOMAIN Append(q, x) : i \in DOMAIN q \/ i = Len(q) + 1
OBVIOUS

-------------------------------------------------------------------------------
(* The badge                                                                      *)

\* The calls that wait in the worker's queue: who made one waits for it or is gone, the
\* worker has the count it was made with, and nobody has made two.
SyncAt(i) == i \in DOMAIN badgeQueue /\ badgeQueue[i].type = "sync"
CallersWait ==
  \A i : SyncAt(i) => page[badgeQueue[i].page].state \in {"waiting", "closed"}
CallsCount ==
  \A i : SyncAt(i) => page[badgeQueue[i].page].count = CountOf[badgeQueue[i].revision]
CallersOnce ==
  \A i, j : SyncAt(i) /\ SyncAt(j) /\ badgeQueue[i].page = badgeQueue[j].page => i = j
LeasesOK ==
  /\ \A p \in Pages : page[p].state \in {"accepted", "applying", "applied"} => lease[p] # "none"
  /\ \A p \in Pages : page[p].state = "idle" => lease[p] = "none"
  /\ \A p, q \in Pages : lease[p] = "open" /\ lease[q] = "open" => p = q
  /\ \A p \in Pages : lease[p] = "open" => stored.count = page[p].count
ReapplyWaits == \E i \in DOMAIN badgeQueue : badgeQueue[i] = Badge!Reapply
BadgeOK ==
  Badge!TypeOK /\ CallersWait /\ CallsCount /\ CallersOnce /\ LeasesOK /\ Badge!IconIsOwed

(* The invariant by its parts; that a settled icon shows the stored count follows. *)
LEMMA BadgeParts ==
  Badge!TypeOK /\ Badge!BadgeInv <=> BadgeOK
<1>1. Badge!LeaseIsOwn <=> CallersWait /\ CallsCount /\ CallersOnce /\ LeasesOK
  BY DEF Badge!LeaseIsOwn, CallersWait, CallsCount, CallersOnce, LeasesOK, SyncAt
<1>2. ASSUME Badge!IconIsOwed
      PROVE  Badge!BadgeShowsStored
  <2> SUFFICES ASSUME Badge!Settled, ~late
               PROVE  shown = stored.count
    BY DEF Badge!BadgeShowsStored
  <2>1. ~(\E i \in DOMAIN badgeQueue : badgeQueue[i] = Badge!Reapply)
    BY DEF Badge!Settled
  <2>2. ~(\E p \in Pages : lease[p] \in {"open", "released"})
    BY DEF Badge!Settled
  <2> QED
    BY <1>2, <2>1, <2>2 DEF Badge!IconIsOwed, Badge!Repaired
<1> QED
  BY <1>1, <1>2 DEF BadgeOK, Badge!BadgeInv

(* The counts of the revisions are numbers.                                       *)
LEMMA CountFacts == \A r \in Badge!Revisions : CountOf[r] \in Nat
BY ServicesAssumption DEF CountOf, Badge!Revisions

\* The queue as it was, with a task behind it, or without its head.
QueueSame == badgeQueue' = badgeQueue
QueueGrows(t) == t \in Badge!Tasks /\ badgeQueue' = Append(badgeQueue, t)
QueueMoves == badgeQueue # <<>> /\ badgeQueue' = Tail(badgeQueue)

(* The calls stay in order when no new one comes and no caller's call changes.     *)
LEMMA CallsStay ==
  ASSUME BadgeOK, page' \in [Pages -> [state : Badge!PageStates, count : Nat]],
         QueueSame \/ QueueMoves \/ (\E t \in Badge!Tasks : t.type # "sync" /\ QueueGrows(t)),
         \A p \in Pages : page'[p].count = page[p].count,
         \A i : SyncAt(i)' =>
           \/ page'[badgeQueue'[i].page].state \in {"waiting", "closed"}
           \/ page'[badgeQueue'[i].page].state = page[badgeQueue'[i].page].state
  PROVE  /\ badgeQueue' \in Seq(Badge!Tasks)
         /\ CallersWait' /\ CallsCount' /\ CallersOnce'
<1>0. badgeQueue \in Seq(Badge!Tasks) /\ page \in [Pages -> [state : Badge!PageStates, count : Nat]]
  BY DEF BadgeOK, Badge!TypeOK
<1>1. PICK k \in {0, 1} : \A i : SyncAt(i)' =>
        i \in Nat /\ SyncAt(i + k) /\ badgeQueue'[i] = badgeQueue[i + k]
  <2>1. CASE QueueSame
    <3>1. \A i : SyncAt(i)' => i \in Nat /\ SyncAt(i + 0) /\ badgeQueue'[i] = badgeQueue[i + 0]
      BY <1>0, <2>1 DEF SyncAt, QueueSame
    <3> QED
      BY <3>1
  <2>2. CASE QueueMoves
    <3>1. \A i : SyncAt(i)' => i \in Nat /\ SyncAt(i + 1) /\ badgeQueue'[i] = badgeQueue[i + 1]
      BY <1>0, <2>2, TailFacts DEF SyncAt, QueueMoves
    <3> QED
      BY <3>1
  <2>3. CASE \E t \in Badge!Tasks : t.type # "sync" /\ QueueGrows(t)
    <3>1. PICK t \in Badge!Tasks : t.type # "sync" /\ badgeQueue' = Append(badgeQueue, t)
      BY <2>3 DEF QueueGrows
    <3>2. \A i : SyncAt(i)' => i \in DOMAIN badgeQueue /\ badgeQueue'[i] = badgeQueue[i] /\ i \in Nat
      BY <1>0, <3>1, AppendFacts DEF SyncAt
    <3>3. \A i : SyncAt(i)' => i \in Nat /\ SyncAt(i + 0) /\ badgeQueue'[i] = badgeQueue[i + 0]
      BY <3>2 DEF SyncAt
    <3> QED
      BY <3>3
  <2> QED
    BY <2>1, <2>2, <2>3
<1>2. badgeQueue' \in Seq(Badge!Tasks)
  <2>1. CASE QueueSame
    BY <1>0, <2>1 DEF QueueSame
  <2>2. CASE QueueMoves
    BY <1>0, <2>2, TailFacts DEF QueueMoves
  <2>3. CASE \E t \in Badge!Tasks : t.type # "sync" /\ QueueGrows(t)
    BY <1>0, <2>3, AppendFacts DEF QueueGrows
  <2> QED
    BY <2>1, <2>2, <2>3
<1>3. \A i : SyncAt(i)' => badgeQueue'[i].page \in Pages
  <2>1. \A i : SyncAt(i)' => badgeQueue'[i] \in Badge!Tasks
    BY <1>2 DEF SyncAt
  <2> QED
    BY <2>1 DEF SyncAt, Badge!Tasks, Badge!Reapply
<1>4. CallersWait'
  BY <1>1 DEF CallersWait, BadgeOK
<1>5. CallsCount'
  BY <1>1, <1>3 DEF CallsCount, BadgeOK
<1>6. CallersOnce'
  BY <1>1 DEF CallersOnce, BadgeOK
<1> QED
  BY <1>2, <1>4, <1>5, <1>6

(* A reapplication waits on, unless it is what the worker runs.                   *)
LEMMA ReapplyStays ==
  ASSUME badgeQueue \in Seq(Badge!Tasks)
  PROVE  /\ ReapplyWaits /\ (QueueSame \/ (\E t \in Badge!Tasks : QueueGrows(t))) => ReapplyWaits'
         /\ ReapplyWaits /\ QueueMoves /\ Head(badgeQueue).type # "reapply" => ReapplyWaits'
         /\ QueueGrows(Badge!Reapply) => ReapplyWaits'
<1>1. ReapplyWaits /\ QueueSame => ReapplyWaits'
  BY DEF ReapplyWaits, QueueSame, Badge!Reapply
<1>2. ASSUME NEW t \in Badge!Tasks, QueueGrows(t)
      PROVE  /\ ReapplyWaits => ReapplyWaits'
             /\ t = Badge!Reapply => ReapplyWaits'
  BY <1>2, AppendFacts DEF ReapplyWaits, QueueGrows, Badge!Reapply
<1>3. ReapplyWaits /\ QueueMoves /\ Head(badgeQueue).type # "reapply" => ReapplyWaits'
  <2> SUFFICES ASSUME NEW i \in DOMAIN badgeQueue, badgeQueue[i] = Badge!Reapply, QueueMoves,
                      Head(badgeQueue).type # "reapply"
               PROVE  ReapplyWaits'
    BY DEF ReapplyWaits
  <2>1. i # 1
    BY TailFacts DEF Badge!Reapply, QueueMoves
  <2>2. i - 1 \in DOMAIN badgeQueue' /\ badgeQueue'[i - 1] = Badge!Reapply
    BY <2>1, TailFacts DEF QueueMoves
  <2> QED
    BY <2>2 DEF ReapplyWaits, Badge!Reapply
<1>4. Badge!Reapply \in Badge!Tasks
  BY DEF Badge!Tasks
<1> QED
  BY <1>1, <1>2, <1>3, <1>4

PageRecords == [state : Badge!PageStates, count : Nat]

(* A page that changes its state changes nothing else.                            *)
LEMMA PageStateFacts ==
  ASSUME page \in [Pages -> PageRecords], NEW p \in Pages, NEW x \in Badge!PageStates,
         page' = [page EXCEPT ![p].state = x]
  PROVE  /\ page' \in [Pages -> PageRecords] /\ page'[p].state = x
         /\ \A q \in Pages : page'[q].count = page[q].count
         /\ \A q \in Pages : q # p => page'[q].state = page[q].state
<1> DEFINE row == [page[p] EXCEPT !.state = x]
<1>1. row \in PageRecords /\ row.state = x /\ row.count = page[p].count
  BY DEF PageRecords
<1>2. page' = [page EXCEPT ![p] = row]
  OBVIOUS
<1> HIDE DEF row
<1> QED
  BY <1>1, <1>2

(* The parts of the invariant that are typed.                                     *)
LEMMA BadgeTyped ==
  BadgeOK => /\ stored \in [count : Nat, revision : Badge!Revisions \union {-1}]
             /\ shown \in Nat /\ badgeQueue \in Seq(Badge!Tasks) /\ page \in [Pages -> PageRecords]
             /\ lease \in [Pages -> {"none", "open", "released", "over"}]
             /\ messages \in 0..MaxPushes /\ late \in BOOLEAN
BY DEF BadgeOK, Badge!TypeOK, PageRecords

(* Some page is owed for, or nobody need be.                                      *)
LEMMA OwedParts ==
  ASSUME BadgeOK
  PROVE  /\ late \/ shown = stored.count \/ ReapplyWaits \/ \E p \in Pages : lease[p] \in {"open", "released"}
         /\ \A p \in Pages : lease[p] = "open" /\ page[p].state = "applied" =>
              late \/ shown = stored.count \/ ReapplyWaits \/ \E q \in Pages : lease[q] = "released"
BY DEF BadgeOK, Badge!IconIsOwed, Badge!Repaired, ReapplyWaits

(* A page that hears, gives up or is closed owes no less.                         *)
LEMMA PageTurns ==
  ASSUME BadgeOK, NEW p \in Pages, NEW x \in Badge!PageStates,
         page' = [page EXCEPT ![p].state = x],
         x = "closed" \/ (page[p].state = "accepted" /\ x = "applying"),
         UNCHANGED <<stored, shown, badgeQueue, lease, late, messages>>
  PROVE  BadgeOK'
<1>0. /\ page \in [Pages -> PageRecords]
      /\ page' \in [Pages -> PageRecords] /\ page'[p].state = x
      /\ \A q \in Pages : page'[q].count = page[q].count
      /\ \A q \in Pages : q # p => page'[q].state = page[q].state
  BY BadgeTyped, PageStateFacts
<1>1. \A i : SyncAt(i) => badgeQueue[i].page \in Pages
  BY BadgeTyped DEF SyncAt, Badge!Tasks, Badge!Reapply
<1>2. \A i : SyncAt(i)' <=> SyncAt(i)
  BY DEF SyncAt
<1>3. badgeQueue' \in Seq(Badge!Tasks) /\ CallersWait' /\ CallsCount' /\ CallersOnce'
  <2>1. \A i : SyncAt(i)' => page'[badgeQueue'[i].page].state \in {"waiting", "closed"}
    BY <1>0, <1>1, <1>2 DEF BadgeOK, CallersWait
  <2> QED
    BY <1>0, <2>1, CallsStay DEF QueueSame, PageRecords
<1>4. LeasesOK'
  BY <1>0 DEF BadgeOK, LeasesOK
<1>5. Badge!IconIsOwed'
  <2>1. \A q \in Pages : page'[q].state = "applied" => page[q].state = "applied"
    BY <1>0
  <2> QED
    BY <2>1 DEF BadgeOK, Badge!IconIsOwed, Badge!Repaired, Badge!Reapply
<1>6. Badge!TypeOK'
  BY <1>0, BadgeTyped DEF Badge!TypeOK, PageRecords
<1> QED
  BY <1>3, <1>4, <1>5, <1>6 DEF BadgeOK

(* What each step leaves alone.                                                   *)
LEMMA PageApplyKeeps ==
  ASSUME BadgeOK, NEW p \in Pages, Badge!PageApplies(p)
  PROVE  BadgeOK'
<1>0. /\ page \in [Pages -> PageRecords]
      /\ page' \in [Pages -> PageRecords] /\ page'[p].state = "applied"
      /\ \A q \in Pages : page'[q].count = page[q].count
      /\ \A q \in Pages : q # p => page'[q].state = page[q].state
  <2>1. page' = [page EXCEPT ![p].state = "applied"] /\ "applied" \in Badge!PageStates
    BY DEF Badge!PageApplies, Badge!PageStates
  <2> QED
    BY <2>1, BadgeTyped, PageStateFacts
<1>1. /\ UNCHANGED <<stored, badgeQueue, lease, messages>> /\ page[p].state = "applying"
      /\ shown' = page[p].count /\ late' = (lease[p] = "over")
  BY DEF Badge!PageApplies
<1>2. badgeQueue' \in Seq(Badge!Tasks) /\ CallersWait' /\ CallsCount' /\ CallersOnce'
  <2>1. \A i : SyncAt(i) => badgeQueue[i].page \in Pages
    BY BadgeTyped DEF SyncAt, Badge!Tasks, Badge!Reapply
  <2>2. \A i : SyncAt(i)' <=> SyncAt(i)
    BY <1>1 DEF SyncAt
  <2>3. \A i : SyncAt(i)' => page'[badgeQueue'[i].page].state \in {"waiting", "closed"}
    BY <1>0, <1>1, <2>1, <2>2 DEF BadgeOK, CallersWait
  <2> QED
    BY <1>0, <1>1, <2>3, CallsStay DEF QueueSame, PageRecords
<1>3. LeasesOK'
  BY <1>0, <1>1 DEF BadgeOK, LeasesOK
<1>4. lease[p] # "none" /\ lease[p] \in {"none", "open", "released", "over"}
  BY <1>1, BadgeTyped DEF BadgeOK, LeasesOK
<1>5. late' \/ shown' = stored.count \/ lease[p] = "released"
  <2>1. CASE lease[p] = "open"
    BY <1>1, <2>1 DEF BadgeOK, LeasesOK
  <2>2. CASE lease[p] = "over"
    BY <1>1, <2>2
  <2> QED
    BY <1>4, <2>1, <2>2
<1>6. Badge!IconIsOwed'
  BY <1>1, <1>5 DEF Badge!IconIsOwed, Badge!Repaired
<1>7. Badge!TypeOK'
  BY <1>0, <1>1, <1>2, BadgeTyped DEF Badge!TypeOK, PageRecords
<1> QED
  BY <1>2, <1>3, <1>6, <1>7 DEF BadgeOK

(* A page that has applied acknowledges: behind a lease that was released the      *)
(* worker applies the stored count once more.                                     *)
LEMMA PageAcknowledgeKeeps ==
  ASSUME BadgeOK, NEW p \in Pages, Badge!PageAcknowledges(p)
  PROVE  BadgeOK'
<1>0. /\ page \in [Pages -> PageRecords]
      /\ page' \in [Pages -> PageRecords] /\ page'[p].state = "closed"
      /\ \A q \in Pages : page'[q].count = page[q].count
      /\ \A q \in Pages : q # p => page'[q].state = page[q].state
  <2>1. page' = [page EXCEPT ![p].state = "closed"] /\ "closed" \in Badge!PageStates
    BY DEF Badge!PageAcknowledges, Badge!PageStates
  <2> QED
    BY <2>1, BadgeTyped, PageStateFacts
<1>1. /\ UNCHANGED <<stored, shown, late, messages>> /\ page[p].state = "applied"
      /\ lease' = [lease EXCEPT ![p] = "over"]
      /\ lease[p] = "released" => QueueGrows(Badge!Reapply)
      /\ lease[p] # "released" => QueueSame
  BY DEF Badge!PageAcknowledges, QueueGrows, QueueSame, Badge!Tasks
<1>2. /\ lease' \in [Pages -> {"none", "open", "released", "over"}] /\ lease'[p] = "over"
      /\ \A q \in Pages : q # p => lease'[q] = lease[q]
  BY <1>1, BadgeTyped
<1>3. badgeQueue' \in Seq(Badge!Tasks) /\ CallersWait' /\ CallsCount' /\ CallersOnce'
  <2>1. QueueSame \/ (\E t \in Badge!Tasks : t.type # "sync" /\ QueueGrows(t))
    BY <1>1 DEF Badge!Tasks, Badge!Reapply
  <2>2. \A q \in Pages : page'[q].state = "closed" \/ page'[q].state = page[q].state
    BY <1>0
  <2>3. \A i : SyncAt(i)' => badgeQueue'[i].page \in Pages
    <3>1. badgeQueue' \in Seq(Badge!Tasks)
      BY <1>1, BadgeTyped, AppendFacts DEF QueueSame, QueueGrows
    <3> QED
      BY <3>1 DEF SyncAt, Badge!Tasks, Badge!Reapply
  <2>4. \A i : SyncAt(i)' =>
           \/ page'[badgeQueue'[i].page].state \in {"waiting", "closed"}
           \/ page'[badgeQueue'[i].page].state = page[badgeQueue'[i].page].state
    BY <2>2, <2>3
  <2> QED
    BY <1>0, <2>1, <2>4, CallsStay DEF PageRecords
<1>4. LeasesOK'
  BY <1>0, <1>1, <1>2 DEF BadgeOK, LeasesOK
<1>5. lease[p] = "released" => ReapplyWaits'
  BY <1>1, BadgeTyped, ReapplyStays
<1>6. ReapplyWaits => ReapplyWaits'
  <2>1. Badge!Reapply \in Badge!Tasks
    BY DEF Badge!Tasks
  <2> QED
    BY <1>1, <2>1, BadgeTyped, ReapplyStays
<1>7. Badge!IconIsOwed'
  <2>1. lease[p] = "open" => late \/ shown = stored.count \/ ReapplyWaits \/ \E q \in Pages : lease[q] = "released"
    BY <1>1, OwedParts
  <2>2. (\E q \in Pages : lease[q] = "released") => lease[p] = "released" \/ \E q \in Pages : lease'[q] = "released"
    BY <1>2
  <2>3. (\E q \in Pages : lease[q] = "open") => lease[p] = "open" \/ \E q \in Pages : lease'[q] = "open"
    BY <1>2
  <2>4. late \/ shown = stored.count \/ ReapplyWaits' \/ \E q \in Pages : lease'[q] \in {"open", "released"}
    BY <1>5, <1>6, <2>1, <2>2, <2>3, OwedParts
  <2>5. ASSUME NEW q \in Pages, lease'[q] = "open", page'[q].state = "applied"
        PROVE  late \/ shown = stored.count \/ ReapplyWaits' \/ \E r \in Pages : lease'[r] = "released"
    <3>1. q # p /\ lease[q] = "open" /\ page[q].state = "applied"
      BY <1>0, <1>2, <2>5
    <3>2. late \/ shown = stored.count \/ ReapplyWaits \/ \E r \in Pages : lease[r] = "released"
      BY <3>1, OwedParts
    <3> QED
      BY <1>5, <1>6, <2>2, <3>2
  <2> QED
    BY <1>1, <2>4, <2>5 DEF Badge!IconIsOwed, Badge!Repaired, ReapplyWaits, Badge!Reapply
<1>8. Badge!TypeOK'
  BY <1>0, <1>1, <1>2, <1>3, BadgeTyped DEF Badge!TypeOK, PageRecords
<1> QED
  BY <1>3, <1>4, <1>7, <1>8 DEF BadgeOK

(* A lease is released, and an abandoned one leaves a reapplication behind.       *)
LEMMA LeaseEndsKeeps ==
  ASSUME BadgeOK, NEW p \in Pages, Badge!Release(p) \/ Badge!Abandon(p)
  PROVE  BadgeOK'
<1>1. /\ UNCHANGED <<stored, shown, page, late, messages>>
      /\ \/ lease[p] = "open" /\ lease' = [lease EXCEPT ![p] = "released"] /\ QueueSame
         \/ /\ lease[p] = "released" /\ lease' = [lease EXCEPT ![p] = "over"]
            /\ QueueGrows(Badge!Reapply)
  BY DEF Badge!Release, Badge!Abandon, QueueGrows, QueueSame, Badge!Tasks
<1>2. /\ lease' \in [Pages -> {"none", "open", "released", "over"}] /\ lease'[p] \in {"released", "over"}
      /\ lease[p] = "open" => lease'[p] = "released"
      /\ \A q \in Pages : q # p => lease'[q] = lease[q]
  BY <1>1, BadgeTyped
<1>3. badgeQueue' \in Seq(Badge!Tasks) /\ CallersWait' /\ CallsCount' /\ CallersOnce'
  <2>1. QueueSame \/ (\E t \in Badge!Tasks : t.type # "sync" /\ QueueGrows(t))
    BY <1>1 DEF Badge!Tasks, Badge!Reapply
  <2> QED
    BY <1>1, <2>1, BadgeTyped, CallsStay DEF PageRecords
<1>4. LeasesOK'
  BY <1>1, <1>2 DEF BadgeOK, LeasesOK
<1>5. ReapplyWaits => ReapplyWaits'
  <2>1. Badge!Reapply \in Badge!Tasks
    BY DEF Badge!Tasks
  <2> QED
    BY <1>1, <2>1, BadgeTyped, ReapplyStays
<1>6. lease'[p] = "released" \/ ReapplyWaits'
  BY <1>1, <1>2, BadgeTyped, ReapplyStays
<1>7. Badge!IconIsOwed'
  BY <1>1, <1>6 DEF Badge!IconIsOwed, Badge!Repaired, ReapplyWaits, Badge!Reapply
<1>8. Badge!TypeOK'
  BY <1>1, <1>2, <1>3, BadgeTyped DEF Badge!TypeOK, PageRecords
<1> QED
  BY <1>3, <1>4, <1>7, <1>8 DEF BadgeOK

(* A push waits behind the others, a call as well.                                *)
LEMMA MessageKeeps ==
  ASSUME BadgeOK, NEW r \in Badge!Revisions,
         Badge!PushArrives(r) \/ \E p \in Pages : Badge!PageSyncs(p, r)
  PROVE  BadgeOK'
<1>0. messages' \in 0..MaxPushes
  BY BadgeTyped, ServicesAssumption DEF Badge!PushArrives, Badge!PageSyncs, Badge!Message
<1>1. CASE Badge!PushArrives(r)
  <2>1. UNCHANGED <<stored, shown, page, lease, late>> /\ QueueGrows(Badge!Push(r))
          /\ Badge!Push(r).type # "sync"
    BY <1>1 DEF Badge!PushArrives, QueueGrows, Badge!Push, Badge!Tasks
  <2>2. badgeQueue' \in Seq(Badge!Tasks) /\ CallersWait' /\ CallsCount' /\ CallersOnce'
    <3>1. \E t \in Badge!Tasks : t.type # "sync" /\ QueueGrows(t)
      BY <2>1 DEF QueueGrows
    <3> QED
      BY <2>1, <3>1, BadgeTyped, CallsStay DEF PageRecords
  <2>3. LeasesOK'
    BY <2>1 DEF BadgeOK, LeasesOK
  <2>4. ReapplyWaits => ReapplyWaits'
    BY <2>1, BadgeTyped, ReapplyStays DEF QueueGrows
  <2>5. Badge!IconIsOwed'
    BY <2>1, <2>4 DEF BadgeOK, Badge!IconIsOwed, Badge!Repaired, ReapplyWaits, Badge!Reapply
  <2>6. Badge!TypeOK'
    BY <1>0, <2>1, <2>2, BadgeTyped DEF Badge!TypeOK, PageRecords
  <2> QED
    BY <2>2, <2>3, <2>5, <2>6 DEF BadgeOK
<1>2. ASSUME NEW p \in Pages, Badge!PageSyncs(p, r)
      PROVE  BadgeOK'
  <2>1. /\ UNCHANGED <<stored, shown, lease, late>> /\ QueueGrows(Badge!Sync(p, r))
        /\ Badge!Sync(p, r).type = "sync" /\ Badge!Sync(p, r).page = p
        /\ Badge!Sync(p, r).revision = r /\ page[p].state = "idle"
    BY <1>2 DEF Badge!PageSyncs, QueueGrows, Badge!Sync, Badge!Tasks
  <2> DEFINE row == [state |-> "waiting", count |-> CountOf[r]]  task == Badge!Sync(p, r)
  <2>2. row \in PageRecords /\ row.state = "waiting" /\ row.count = CountOf[r]
    BY CountFacts DEF PageRecords, Badge!PageStates
  <2>3. page' = [page EXCEPT ![p] = row]
    BY <1>2 DEF Badge!PageSyncs
  <2> HIDE DEF row
  <2>4. /\ page' \in [Pages -> PageRecords] /\ page'[p].state = "waiting" /\ page'[p].count = CountOf[r]
        /\ \A q \in Pages : q # p => page'[q] = page[q]
    BY <2>2, <2>3, BadgeTyped
  <2>5. /\ badgeQueue' = Append(badgeQueue, task) /\ task \in Badge!Tasks
        /\ badgeQueue \in Seq(Badge!Tasks)
    BY <2>1, BadgeTyped DEF QueueGrows
  <2>6. task.type = "sync" /\ task.page = p /\ task.revision = r
    BY <2>1
  <2> HIDE DEF task
  <2>7. /\ badgeQueue' \in Seq(Badge!Tasks) /\ Len(badgeQueue) \in Nat
        /\ \A i : SyncAt(i) => SyncAt(i)' /\ badgeQueue'[i] = badgeQueue[i] /\ i # Len(badgeQueue) + 1
        /\ \A i : SyncAt(i)' => \/ SyncAt(i) /\ badgeQueue'[i] = badgeQueue[i]
                                \/ i = Len(badgeQueue) + 1 /\ badgeQueue'[i] = task
    BY <2>5, AppendFacts DEF SyncAt
  <2>8. \A i : SyncAt(i) => badgeQueue[i].page \in Pages /\ badgeQueue[i].page # p
    <3>1. \A i : SyncAt(i) => badgeQueue[i].page \in Pages
      BY BadgeTyped DEF SyncAt, Badge!Tasks, Badge!Reapply
    <3>2. \A i : SyncAt(i) => page[badgeQueue[i].page].state \in {"waiting", "closed"}
      BY DEF BadgeOK, CallersWait
    <3> QED
      BY <2>1, <3>1, <3>2
  <2>9. CallersWait'
    BY <2>4, <2>6, <2>7, <2>8 DEF BadgeOK, CallersWait
  <2>10. CallsCount'
    BY <2>4, <2>6, <2>7, <2>8 DEF BadgeOK, CallsCount
  <2>11. CallersOnce'
    <3> SUFFICES ASSUME NEW i, NEW j, SyncAt(i)', SyncAt(j)', badgeQueue'[i].page = badgeQueue'[j].page
                 PROVE  i = j
      BY DEF CallersOnce
    <3>1. CASE SyncAt(i) /\ badgeQueue'[i] = badgeQueue[i] /\ SyncAt(j) /\ badgeQueue'[j] = badgeQueue[j]
      BY <3>1 DEF BadgeOK, CallersOnce
    <3> QED
      BY <2>6, <2>7, <2>8, <3>1
  <2>12. LeasesOK'
    <3>1. lease[p] = "none"
      BY <2>1 DEF BadgeOK, LeasesOK
    <3> QED
      BY <2>1, <2>4, <3>1 DEF BadgeOK, LeasesOK
  <2>13. ReapplyWaits => ReapplyWaits'
    BY <2>1, BadgeTyped, ReapplyStays DEF QueueGrows
  <2>14. Badge!IconIsOwed'
    <3>1. \A q \in Pages : page'[q].state = "applied" => page[q].state = "applied"
      BY <2>4
    <3> QED
      BY <2>1, <2>13, <3>1 DEF BadgeOK, Badge!IconIsOwed, Badge!Repaired, ReapplyWaits, Badge!Reapply
  <2>15. Badge!TypeOK'
    BY <1>0, <2>1, <2>4, <2>7, BadgeTyped DEF Badge!TypeOK, PageRecords
  <2> QED
    BY <2>7, <2>9, <2>10, <2>11, <2>12, <2>14, <2>15 DEF BadgeOK
<1> QED
  BY <1>1, <1>2

(* No lease is open while the worker runs a task; what it runs leaves the queue.   *)
LEMMA TaskRuns ==
  ASSUME BadgeOK, ~Badge!Held, QueueMoves
  PROVE  /\ \A p \in Pages : lease[p] # "open"
         /\ badgeQueue' \in Seq(Badge!Tasks) /\ Head(badgeQueue) \in Badge!Tasks
         /\ Head(badgeQueue).type # "reapply" /\ ReapplyWaits => ReapplyWaits'
BY BadgeTyped, ReapplyStays, TailFacts DEF QueueMoves, Badge!Held

(* A push is shown when it is accepted, and a reapplication shows what is stored.  *)
LEMMA PushRunKeeps ==
  ASSUME BadgeOK, Badge!RunPush \/ Badge!RunReapply
  PROVE  BadgeOK'
<1>1. ~Badge!Held /\ QueueMoves /\ UNCHANGED <<page, lease, messages>>
  BY DEF Badge!RunPush, Badge!RunReapply, QueueMoves
<1>2. /\ \A p \in Pages : lease[p] # "open"
      /\ badgeQueue' \in Seq(Badge!Tasks) /\ Head(badgeQueue) \in Badge!Tasks
      /\ Head(badgeQueue).type # "reapply" /\ ReapplyWaits => ReapplyWaits'
  BY <1>1, TaskRuns
<1>3. CallersWait' /\ CallsCount' /\ CallersOnce'
  BY <1>1, BadgeTyped, CallsStay DEF PageRecords
<1>4. \/ /\ shown' = stored'.count /\ late' = FALSE
         /\ stored' \in [count : Nat, revision : Badge!Revisions \union {-1}]
      \/ UNCHANGED <<stored, shown, late>> /\ Head(badgeQueue).type # "reapply"
  <2>1. CASE Badge!RunPush
    <3>1. Head(badgeQueue).type = "push" /\ Head(badgeQueue).revision \in Badge!Revisions
      BY <1>2, <2>1 DEF Badge!RunPush, Badge!Tasks, Badge!Reapply
    <3> DEFINE r == Head(badgeQueue).revision
    <3>2. \/ stored' = [count |-> CountOf[r], revision |-> r] /\ shown' = CountOf[r] /\ late' = FALSE
          \/ UNCHANGED <<stored, shown, late>>
      BY <2>1, Zenon DEF Badge!RunPush, Badge!Accept
    <3>3. CountOf[r] \in Nat
      BY <3>1, CountFacts
    <3> HIDE DEF r
    <3>4. r \in Badge!Revisions
      BY <3>1 DEF r
    <3> QED
      BY <3>1, <3>2, <3>3, <3>4
  <2>2. CASE Badge!RunReapply
    BY <2>2, BadgeTyped DEF Badge!RunReapply
  <2> QED
    BY <2>1, <2>2
<1>5. LeasesOK'
  BY <1>1, <1>2 DEF BadgeOK, LeasesOK
<1>6. Badge!IconIsOwed'
  <2>1. late' \/ shown' = stored'.count \/ ReapplyWaits' \/ \E p \in Pages : lease[p] \in {"open", "released"}
    BY <1>2, <1>4, OwedParts
  <2> QED
    BY <1>1, <1>2, <2>1 DEF Badge!IconIsOwed, Badge!Repaired, ReapplyWaits, Badge!Reapply
<1>7. Badge!TypeOK'
  BY <1>1, <1>2, <1>4, BadgeTyped DEF Badge!TypeOK, PageRecords
<1> QED
  BY <1>2, <1>3, <1>5, <1>6, <1>7 DEF BadgeOK

(* A call that is accepted opens its page's lease, with nobody else's open.       *)
LEMMA SyncRunKeeps ==
  ASSUME BadgeOK, Badge!RunSync
  PROVE  BadgeOK'
<1> DEFINE r == Head(badgeQueue).revision  p == Head(badgeQueue).page
<1>1. /\ ~Badge!Held /\ QueueMoves /\ UNCHANGED <<shown, late, messages>>
      /\ Head(badgeQueue).type = "sync"
  BY DEF Badge!RunSync, QueueMoves
<1>2. /\ \A q \in Pages : lease[q] # "open"
      /\ badgeQueue' \in Seq(Badge!Tasks) /\ Head(badgeQueue) \in Badge!Tasks
      /\ ReapplyWaits => ReapplyWaits'
  BY <1>1, TaskRuns
<1>3. r \in Badge!Revisions /\ p \in Pages /\ CountOf[r] \in Nat
  <2>1. r \in Badge!Revisions /\ p \in Pages
    BY <1>1, <1>2 DEF Badge!Tasks, Badge!Reapply
  <2> QED
    BY <2>1, CountFacts
<1>4. SyncAt(1) /\ badgeQueue[1] = Head(badgeQueue) /\ badgeQueue \in Seq(Badge!Tasks) /\ badgeQueue # <<>>
  BY <1>1, BadgeTyped, TailFacts DEF SyncAt, QueueMoves
<1>5. page[p].state \in {"waiting", "closed"} /\ page[p].count = CountOf[r]
  BY <1>4 DEF BadgeOK, CallersWait, CallsCount
<1>6. \A i : SyncAt(i)' => badgeQueue'[i].page # p /\ badgeQueue'[i].page \in Pages
  <2> SUFFICES ASSUME NEW i, SyncAt(i)'
               PROVE  badgeQueue'[i].page # p /\ badgeQueue'[i].page \in Pages
    BY Zenon
  <2>1. i \in Nat /\ i > 0 /\ SyncAt(i + 1) /\ badgeQueue'[i] = badgeQueue[i + 1]
    BY <1>1, <1>4, TailFacts DEF SyncAt, QueueMoves
  <2>2. i + 1 # 1
    BY <2>1
  <2>3. badgeQueue[i + 1].page # p
    BY <1>4, <2>1, <2>2 DEF BadgeOK, CallersOnce
  <2>4. badgeQueue'[i].page \in Pages
    BY <1>2 DEF SyncAt, Badge!Tasks, Badge!Reapply
  <2> QED
    BY <2>1, <2>3, <2>4
<1> HIDE DEF r, p
<1>7. ASSUME NEW verdict \in {"accepted", "refused"},
             page' = [page EXCEPT ![p].state = IF @ = "waiting" THEN verdict ELSE @]
      PROVE  /\ page' \in [Pages -> PageRecords] /\ page'[p].state \in {verdict, "closed"}
             /\ \A q \in Pages : page'[q].count = page[q].count
             /\ \A q \in Pages : q # p => page'[q].state = page[q].state
             /\ CallersWait' /\ CallsCount' /\ CallersOnce'
  <2> DEFINE x == IF page[p].state = "waiting" THEN verdict ELSE page[p].state
  <2>1. x \in Badge!PageStates /\ x \in {verdict, "closed"}
    BY <1>5 DEF Badge!PageStates
  <2>2. page' = [page EXCEPT ![p].state = x]
    BY <1>7
  <2> HIDE DEF x
  <2>3. /\ page' \in [Pages -> PageRecords] /\ page'[p].state = x
        /\ \A q \in Pages : page'[q].count = page[q].count
        /\ \A q \in Pages : q # p => page'[q].state = page[q].state
    BY <1>3, <2>1, <2>2, BadgeTyped, PageStateFacts
  <2>4. \A i : SyncAt(i)' => page'[badgeQueue'[i].page].state = page[badgeQueue'[i].page].state
    BY <1>6, <2>3
  <2>5. CallersWait' /\ CallsCount' /\ CallersOnce'
    BY <1>1, <2>3, <2>4, CallsStay DEF PageRecords
  <2> QED
    BY <2>1, <2>3, <2>5
<1>8. CASE /\ stored' = [count |-> CountOf[r], revision |-> r]
           /\ lease' = [lease EXCEPT ![p] = "open"]
           /\ page' = [page EXCEPT ![p].state = IF @ = "waiting" THEN "accepted" ELSE @]
  <2>1. /\ lease' \in [Pages -> {"none", "open", "released", "over"}] /\ lease'[p] = "open"
        /\ \A q \in Pages : q # p => lease'[q] = lease[q]
    BY <1>3, <1>8, BadgeTyped
  <2>2. stored' \in [count : Nat, revision : Badge!Revisions \union {-1}] /\ stored'.count = page[p].count
    BY <1>3, <1>5, <1>8
  <2>3. LeasesOK'
    BY <1>2, <1>7, <1>8, <2>1, <2>2 DEF BadgeOK, LeasesOK
  <2>4. Badge!IconIsOwed'
    <3>1. page'[p].state # "applied"
      BY <1>7, <1>8
    <3> QED
      BY <1>2, <1>3, <2>1, <3>1 DEF Badge!IconIsOwed
  <2>5. Badge!TypeOK'
    BY <1>1, <1>2, <1>7, <1>8, <2>1, <2>2, BadgeTyped DEF Badge!TypeOK, PageRecords
  <2> QED
    BY <1>2, <1>7, <1>8, <2>3, <2>4, <2>5 DEF BadgeOK
<1>9. CASE /\ UNCHANGED <<stored, lease>>
           /\ page' = [page EXCEPT ![p].state = IF @ = "waiting" THEN "refused" ELSE @]
  <2>1. LeasesOK'
    BY <1>2, <1>7, <1>9 DEF BadgeOK, LeasesOK
  <2>2. Badge!IconIsOwed'
    <3>1. late \/ shown = stored.count \/ ReapplyWaits' \/ \E q \in Pages : lease[q] \in {"open", "released"}
      BY <1>2, OwedParts
    <3> QED
      BY <1>1, <1>2, <1>9, <3>1 DEF Badge!IconIsOwed, Badge!Repaired, ReapplyWaits, Badge!Reapply
  <2>3. Badge!TypeOK'
    BY <1>1, <1>2, <1>7, <1>9, BadgeTyped DEF Badge!TypeOK, PageRecords
  <2> QED
    BY <1>2, <1>7, <1>9, <2>1, <2>2, <2>3 DEF BadgeOK
<1> QED
  BY <1>8, <1>9, Zenon DEF Badge!RunSync, Badge!Accept, r, p

(* Every step of the badge keeps its invariant, and it holds at first.            *)
LEMMA BadgeStep ==
  ASSUME Badge!TypeOK, Badge!BadgeInv, Badge!Next \/ UNCHANGED badgeVars
  PROVE  Badge!TypeOK' /\ Badge!BadgeInv'
<1>0. BadgeOK
  BY BadgeParts
<1>1. ASSUME NEW p \in Pages, Badge!PageGivesUp(p) \/ Badge!PageHears(p) \/ Badge!PageDies(p)
      PROVE  BadgeOK'
  <2>1. \E x \in Badge!PageStates :
          /\ page' = [page EXCEPT ![p].state = x]
          /\ x = "closed" \/ (page[p].state = "accepted" /\ x = "applying")
    BY <1>1 DEF Badge!PageGivesUp, Badge!PageHears, Badge!PageDies, Badge!PageStates
  <2>2. UNCHANGED <<stored, shown, badgeQueue, lease, late, messages>>
    BY <1>1 DEF Badge!PageGivesUp, Badge!PageHears, Badge!PageDies
  <2> QED
    BY <1>0, <2>1, <2>2, PageTurns
<1>2. ASSUME UNCHANGED badgeVars
      PROVE  BadgeOK'
  BY <1>0, <1>2 DEF badgeVars, BadgeOK, Badge!TypeOK, CallersWait, CallsCount, CallersOnce, SyncAt,
     LeasesOK, Badge!IconIsOwed, Badge!Repaired, Badge!Reapply
<1>3. BadgeOK'
  <2>1. CASE \E p \in Pages : Badge!PageStep(p)
    BY <1>0, <1>1, <2>1, PageApplyKeeps, PageAcknowledgeKeeps DEF Badge!PageStep
  <2>2. CASE \E r \in Badge!Revisions : Badge!PushArrives(r) \/ \E p \in Pages : Badge!PageSyncs(p, r)
    BY <1>0, <2>2, MessageKeeps
  <2>3. CASE Badge!Worker
    BY <1>0, <2>3, PushRunKeeps, SyncRunKeeps, LeaseEndsKeeps DEF Badge!Worker
  <2> QED
    BY <1>2, <2>1, <2>2, <2>3, Zenon DEF Badge!Next
<1>4. Badge!TypeOK' /\ Badge!BadgeInv' <=> BadgeOK'
  BY BadgeParts, PTL
<1> QED
  BY <1>3, <1>4

(* At first nobody waits and the icon shows none.                                 *)
LEMMA BadgeStart ==
  Badge!Init => Badge!TypeOK /\ Badge!BadgeInv
<1> SUFFICES ASSUME Badge!Init
             PROVE  BadgeOK
  BY BadgeParts
<1>1. badgeQueue \in Seq(Badge!Tasks) /\ DOMAIN badgeQueue = {}
  BY DEF Badge!Init
<1>2. Badge!TypeOK
  <2>1. /\ stored \in [count : Nat, revision : Badge!Revisions \union {-1}] /\ shown \in Nat
        /\ messages \in 0..MaxPushes /\ late \in BOOLEAN
    <3>1. stored = [count |-> 0, revision |-> -1] /\ shown = 0 /\ messages = 0 /\ late = FALSE
      BY DEF Badge!Init
    <3>2. stored \in [count : Nat, revision : Badge!Revisions \union {-1}]
      BY <3>1
    <3>3. 0 \in 0..MaxPushes
      BY ServicesAssumption
    <3> QED
      BY <3>1, <3>2, <3>3
  <2>2. [state |-> "idle", count |-> 0] \in [state : Badge!PageStates, count : Nat]
    BY DEF Badge!PageStates
  <2> QED
    BY <1>1, <2>1, <2>2 DEF Badge!Init, Badge!TypeOK
<1>3. CallersWait /\ CallsCount /\ CallersOnce
  BY <1>1 DEF CallersWait, CallsCount, CallersOnce, SyncAt
<1>4. LeasesOK /\ Badge!IconIsOwed
  BY DEF Badge!Init, LeasesOK, Badge!IconIsOwed, Badge!Repaired
<1> QED
  BY <1>2, <1>3, <1>4 DEF BadgeOK


-------------------------------------------------------------------------------
(* The registrations of devices                                                   *)

\* A subscription is of the device that got its endpoint and has keys minted by now.
OwnRow(r) == owners[r.endpoint] = r.install /\ r.key <= renewals
OwnSub(d, s) == owners[s.endpoint] = d /\ s.key <= renewals
RowsTyped ==
  /\ rows \subseteq Devices!Rows /\ IsFiniteSet(rows) /\ Cardinality(rows) <= MaxSubs
  /\ sending \subseteq Devices!Rows /\ expired \subseteq Devices!Rows /\ sending \cap expired = {}
SubsTyped ==
  /\ browser \in [Installs -> Devices!Subs \union {None}]
  /\ posting \in [Installs -> SUBSET Devices!Subs]
  /\ registered \subseteq Installs /\ owners \in [Endpoints -> Installs \union {None}]
  /\ renewals \in 0..MaxRenewals
RowsOwn == \A r \in rows \union sending \union expired : OwnRow(r)
SubsOwn ==
  \A d \in Installs : /\ \A s \in posting[d] : OwnSub(d, s)
                      /\ browser[d] # None => OwnSub(d, browser[d])
GoneStaysGone == \A r \in expired : ~Devices!Live(r)
DevicesOK ==
  RowsTyped /\ SubsTyped /\ RowsOwn /\ SubsOwn /\ GoneStaysGone /\ Devices!RegisteredIsListed

(* The devices count the way FiniteSets does.                                     *)
LEMMA DevicesCount ==
  ASSUME NEW S
  PROVE  /\ Devices!Cardinality(S) = Cardinality(S)
         /\ Devices!IsFiniteSet(S) <=> IsFiniteSet(S)
<1>1. Devices!Cardinality(S) = Cardinality(S)
  BY DEF Devices!Cardinality, Cardinality
<1>2. Devices!IsFiniteSet(S) <=> IsFiniteSet(S)
  BY DEF Devices!IsFiniteSet, IsFiniteSet
<1> QED
  BY <1>1, <1>2

(* The invariant by its parts.                                                    *)
LEMMA DevicesParts ==
  Devices!TypeOK /\ Devices!DeviceInv <=> DevicesOK
<1>1. Devices!TypeOK <=> RowsTyped /\ SubsTyped
  BY DevicesCount DEF Devices!TypeOK, RowsTyped, SubsTyped
<1>2. Devices!SubsAreOwn <=> RowsOwn /\ SubsOwn /\ GoneStaysGone
  <2>1. (\A d \in Installs : \A s \in posting[d] \union ({browser[d]} \ {None}) :
           owners[s.endpoint] = d /\ s.key <= renewals) <=> SubsOwn
    BY DEF SubsOwn, OwnSub
  <2> QED
    BY <2>1 DEF Devices!SubsAreOwn, RowsOwn, GoneStaysGone, OwnRow
<1> QED
  BY <1>1, <1>2 DEF Devices!DeviceInv, DevicesOK

(* Rows and subscriptions are records, and None is no subscription.               *)
LEMMA SubFacts ==
  /\ None \notin Devices!Subs /\ None \notin Installs
  /\ \A s \in Devices!Subs : s.endpoint \in Endpoints /\ s.key \in 1..MaxRenewals
  /\ \A r \in Devices!Rows :
       r.install \in Installs /\ r.endpoint \in Endpoints /\ r.key \in 1..MaxRenewals
  /\ \A d \in Installs, s \in Devices!Subs :
       /\ Devices!Row(d, s) \in Devices!Rows /\ Devices!Row(d, s).install = d
       /\ Devices!Row(d, s).endpoint = s.endpoint /\ Devices!Row(d, s).key = s.key
  /\ \A r \in Devices!Rows : /\ Devices!SubOf(r) \in Devices!Subs
                             /\ Devices!SubOf(r).endpoint = r.endpoint /\ Devices!SubOf(r).key = r.key
<1>1. None \notin Devices!Subs
  <2>1. Devices!Subs \subseteq [endpoint : Endpoints, key : Nat]
    BY ServicesAssumption DEF Devices!Subs, Devices!Keys
  <2> QED
    BY <2>1, ServicesAssumption
<1> QED
  BY <1>1, ServicesAssumption
  DEF Devices!Subs, Devices!Rows, Devices!Keys, Devices!Row, Devices!SubOf, Devices!Sub

(* Some rows fewer: nobody who is registered loses the row of its subscription.   *)
LEMMA FewerRows ==
  ASSUME DevicesOK, rows' \subseteq rows, sending' \subseteq sending \union rows,
         expired' \subseteq expired \union sending, sending' \cap expired' = {},
         \A r \in expired' : ~Devices!Live(r)',
         browser' \in [Installs -> Devices!Subs \union {None}],
         \A d \in Installs : browser'[d] = browser[d] \/ browser'[d] = None,
         posting' \in [Installs -> SUBSET Devices!Subs],
         \A d \in Installs : posting'[d] \subseteq posting[d] \union ({browser[d]} \ {None}),
         registered' \subseteq registered, UNCHANGED <<owners, renewals>>,
         \A d \in registered' : browser'[d] # None => Devices!Row(d, browser'[d]) \in rows'
  PROVE  DevicesOK'
<1>1. RowsTyped'
  <2>1. IsFiniteSet(rows') /\ Cardinality(rows') <= Cardinality(rows)
    BY FS_Subset DEF DevicesOK, RowsTyped
  <2>2. Cardinality(rows) \in Nat /\ Cardinality(rows') \in Nat /\ MaxSubs \in Nat
    BY <2>1, FS_CardinalityType, ServicesAssumption DEF DevicesOK, RowsTyped
  <2>3. Cardinality(rows') <= MaxSubs
    BY <2>1, <2>2 DEF DevicesOK, RowsTyped
  <2> QED
    BY <2>1, <2>3 DEF DevicesOK, RowsTyped
<1>2. SubsTyped'
  BY DEF DevicesOK, SubsTyped
<1>3. RowsOwn'
  BY DEF DevicesOK, RowsOwn, OwnRow
<1>4. SubsOwn'
  <2> SUFFICES ASSUME NEW d \in Installs
               PROVE  /\ \A s \in posting'[d] : owners[s.endpoint] = d /\ s.key <= renewals
                      /\ browser'[d] # None => owners[browser'[d].endpoint] = d /\ browser'[d].key <= renewals
    BY DEF SubsOwn, OwnSub
  <2>1. /\ \A s \in posting[d] : owners[s.endpoint] = d /\ s.key <= renewals
        /\ browser[d] # None => owners[browser[d].endpoint] = d /\ browser[d].key <= renewals
    BY DEF DevicesOK, SubsOwn, OwnSub
  <2> QED
    BY <2>1
<1>5. GoneStaysGone' /\ Devices!RegisteredIsListed'
  BY DEF GoneStaysGone, Devices!RegisteredIsListed
<1> QED
  BY <1>1, <1>2, <1>3, <1>4, <1>5 DEF DevicesOK

(* A browser mints keys that nobody has, on an endpoint that is nobody else's.    *)
LEMMA RenewKeeps ==
  ASSUME DevicesOK, NEW d \in Installs, Devices!Renew(d)
  PROVE  DevicesOK'
<1>1. /\ UNCHANGED <<rows, sending, expired>> /\ registered' = registered \ {d}
      /\ renewals < MaxRenewals /\ renewals' = renewals + 1
      /\ renewals \in Nat /\ renewals' \in 0..MaxRenewals /\ renewals' \in 1..MaxRenewals
  BY ServicesAssumption DEF Devices!Renew, Devices!server, DevicesOK, SubsTyped
<1>2. PICK e \in Endpoints :
        /\ owners[e] \in {None, d} /\ owners' = [owners EXCEPT ![e] = d]
        /\ browser' = [browser EXCEPT ![d] = Devices!Sub(e, renewals')]
        /\ posting' = [posting EXCEPT ![d] = @ \union {Devices!Sub(e, renewals')}]
  BY DEF Devices!Renew
<1> DEFINE s == Devices!Sub(e, renewals')
<1>3. s \in Devices!Subs /\ s.endpoint = e /\ s.key = renewals'
  BY <1>1 DEF Devices!Subs, Devices!Keys, Devices!Sub
<1>4. browser' = [browser EXCEPT ![d] = s] /\ posting' = [posting EXCEPT ![d] = posting[d] \union {s}]
  BY <1>2
<1> HIDE DEF s
<1>5. /\ browser' \in [Installs -> Devices!Subs \union {None}] /\ browser'[d] = s
      /\ \A c \in Installs : c # d => browser'[c] = browser[c]
      /\ posting' \in [Installs -> SUBSET Devices!Subs] /\ posting'[d] = posting[d] \union {s}
      /\ \A c \in Installs : c # d => posting'[c] = posting[c]
  BY <1>3, <1>4 DEF DevicesOK, SubsTyped
<1>6. /\ owners' \in [Endpoints -> Installs \union {None}] /\ owners'[e] = d
      /\ \A f \in Endpoints : f # e => owners'[f] = owners[f]
      /\ \A f \in Endpoints, c \in Installs : owners[f] = c => owners'[f] = c
  BY <1>2, SubFacts DEF DevicesOK, SubsTyped
<1>7. RowsTyped' /\ SubsTyped'
  BY <1>1, <1>5, <1>6 DEF DevicesOK, RowsTyped, SubsTyped
<1>8. RowsOwn'
  <2> SUFFICES ASSUME NEW r \in rows \union sending \union expired
               PROVE  owners'[r.endpoint] = r.install /\ r.key <= renewals'
    BY <1>1 DEF RowsOwn, OwnRow
  <2>1. r \in Devices!Rows /\ owners[r.endpoint] = r.install /\ r.key <= renewals
    BY DEF DevicesOK, RowsTyped, RowsOwn, OwnRow
  <2>2. r.endpoint \in Endpoints /\ r.install \in Installs /\ r.key \in Nat
    BY <2>1, SubFacts
  <2> QED
    BY <1>1, <1>6, <2>1, <2>2
<1>9. SubsOwn'
  <2>1. ASSUME NEW c \in Installs, NEW x \in Devices!Subs, OwnSub(c, x)
        PROVE  owners'[x.endpoint] = c /\ x.key <= renewals'
    <3>1. x.endpoint \in Endpoints /\ x.key \in Nat
      BY SubFacts
    <3> QED
      BY <1>1, <1>6, <2>1, <3>1 DEF OwnSub
  <2>2. owners'[s.endpoint] = d /\ s.key <= renewals'
    BY <1>1, <1>3, <1>6
  <2>3. ASSUME NEW c \in Installs, NEW x \in posting'[c]
        PROVE  owners'[x.endpoint] = c /\ x.key <= renewals'
    <3>1. (c = d /\ x = s) \/ x \in posting[c]
      BY <1>5, <2>3
    <3>2. x \in posting[c] => x \in Devices!Subs /\ OwnSub(c, x)
      BY DEF DevicesOK, SubsTyped, SubsOwn
    <3> QED
      BY <2>1, <2>2, <3>1, <3>2
  <2>4. ASSUME NEW c \in Installs, browser'[c] # None
        PROVE  owners'[browser'[c].endpoint] = c /\ browser'[c].key <= renewals'
    <3>1. CASE c = d
      BY <1>5, <2>2, <3>1
    <3>2. CASE c # d
      <4>1. browser[c] \in Devices!Subs /\ OwnSub(c, browser[c]) /\ browser'[c] = browser[c]
        BY <1>5, <2>4, <3>2 DEF DevicesOK, SubsTyped, SubsOwn
      <4> QED
        BY <2>1, <4>1
    <3> QED
      BY <3>1, <3>2
  <2> QED
    BY <2>3, <2>4 DEF SubsOwn, OwnSub
<1>10. GoneStaysGone'
  <2> SUFFICES ASSUME NEW r \in expired
               PROVE  browser'[r.install] # Devices!SubOf(r)
    BY <1>1 DEF GoneStaysGone, Devices!Live, Devices!SubOf
  <2>1. r \in Devices!Rows /\ r.key <= renewals /\ browser[r.install] # Devices!SubOf(r)
    BY DEF DevicesOK, RowsTyped, RowsOwn, OwnRow, GoneStaysGone, Devices!Live
  <2>2. r.key \in Nat /\ Devices!SubOf(r).key = r.key /\ r.install \in Installs
    BY <2>1, SubFacts
  <2>3. s # Devices!SubOf(r)
    BY <1>1, <1>3, <2>1, <2>2
  <2> QED
    BY <1>5, <2>1, <2>2, <2>3
<1>11. Devices!RegisteredIsListed'
  <2> SUFFICES ASSUME NEW c \in registered', browser'[c] # None
               PROVE  Devices!Row(c, browser'[c]) \in rows
    BY <1>1 DEF Devices!RegisteredIsListed, Devices!Row
  <2>1. c # d /\ c \in registered /\ c \in Installs
    BY <1>1 DEF DevicesOK, SubsTyped
  <2> QED
    BY <1>5, <2>1 DEF DevicesOK, Devices!RegisteredIsListed
<1> QED
  BY <1>7, <1>8, <1>9, <1>10, <1>11 DEF DevicesOK

(* The row of a registration takes the place of the device's row, or of the row of *)
(* its endpoint, which is no other device's.                                      *)
LEMMA AddKeeps ==
  ASSUME DevicesOK, NEW d \in Installs, NEW s \in posting[d], Devices!Add(d, s)
  PROVE  DevicesOK'
<1> DEFINE mine == {r \in rows : r.install = d}  row == Devices!Row(d, s)
           next == Devices!Added(d, s)
<1>1. /\ UNCHANGED <<browser, owners, renewals, sending, expired>>
      /\ posting' = [posting EXCEPT ![d] = @ \ {s}]
      /\ \/ UNCHANGED <<rows, registered>>
         \/ /\ ~(Cardinality(next) > MaxSubs) \/ mine # {}
            /\ rows' = next
            /\ registered' = IF s = browser[d] THEN registered \union {d} ELSE registered \ {d}
  BY DevicesCount DEF Devices!Add
<1>2. s \in Devices!Subs /\ OwnSub(d, s)
  BY DEF DevicesOK, SubsTyped, SubsOwn
<1>3. /\ posting' \in [Installs -> SUBSET Devices!Subs]
      /\ \A c \in Installs : posting'[c] \subseteq posting[c]
  BY <1>1 DEF DevicesOK, SubsTyped
<1>4. CASE UNCHANGED <<rows, registered>>
  <2>1. \A r \in expired' : ~Devices!Live(r)'
    BY <1>1 DEF DevicesOK, GoneStaysGone, Devices!Live, Devices!SubOf
  <2>2. \A c \in registered' : browser'[c] # None => Devices!Row(c, browser'[c]) \in rows'
    BY <1>1, <1>4 DEF DevicesOK, Devices!RegisteredIsListed
  <2>3. /\ rows' \subseteq rows /\ sending' \subseteq sending \union rows /\ expired' \subseteq expired \union sending
        /\ sending' \cap expired' = {} /\ browser' \in [Installs -> Devices!Subs \union {None}]
        /\ \A c \in Installs : posting'[c] \subseteq posting[c] \union ({browser[c]} \ {None})
    BY <1>1, <1>3, <1>4 DEF DevicesOK, RowsTyped, SubsTyped
  <2> QED
    BY <1>1, <1>3, <1>4, <2>1, <2>2, <2>3, FewerRows
<1>5. ASSUME ~(Cardinality(next) > MaxSubs) \/ mine # {}, rows' = next,
             registered' = IF s = browser[d] THEN registered \union {d} ELSE registered \ {d}
      PROVE  DevicesOK'
  <2>1. /\ row \in Devices!Rows /\ row.install = d /\ row.endpoint = s.endpoint /\ row.key = s.key
    BY <1>2, SubFacts
  <2>2. /\ mine # {} => next = (rows \ mine) \union {row}
        /\ mine = {} => next = {r \in rows : r.endpoint # s.endpoint} \union {row}
    BY Zenon DEF Devices!Added
  <2>3. next \subseteq rows \union {row} /\ row \in next
    BY <2>2
  <2>4. IsFiniteSet(rows) /\ Cardinality(rows) \in Nat /\ MaxSubs \in Nat /\ Cardinality(rows) <= MaxSubs
    BY FS_CardinalityType, ServicesAssumption DEF DevicesOK, RowsTyped
  <2>5. IsFiniteSet(next) /\ Cardinality(next) \in Nat
    <3>1. IsFiniteSet(rows \union {row})
      BY <2>4, FS_AddElement
    <3>2. IsFiniteSet(next)
      BY <2>3, <3>1, FS_Subset
    <3> QED
      BY <3>2, FS_CardinalityType
  <2>6. Cardinality(next) <= MaxSubs
    <3>1. CASE mine = {}
      BY <1>5, <2>4, <2>5, <3>1
    <3>2. CASE mine # {}
      <4>1. PICK x \in mine : TRUE
        BY <3>2
      <4>2. IsFiniteSet(rows \ {x}) /\ Cardinality(rows \ {x}) = Cardinality(rows) - 1
        BY <2>4, <4>1, FS_RemoveElement
      <4>3. IsFiniteSet(rows \ mine) /\ Cardinality(rows \ mine) <= Cardinality(rows \ {x})
        BY <4>1, <4>2, FS_Subset
      <4>4. Cardinality((rows \ mine) \union {row}) <= Cardinality(rows \ mine) + 1
        BY <4>3, FS_AddElement, FS_CardinalityType
      <4>5. Cardinality(rows \ mine) \in Nat
        BY <4>3, FS_CardinalityType
      <4> HIDE DEF next, mine, row
      <4>6. Cardinality(next) <= Cardinality(rows \ mine) + 1
        BY <2>2, <3>2, <4>4, Zenon
      <4> QED
        BY <2>4, <2>5, <4>2, <4>3, <4>5, <4>6
    <3> QED
      BY <3>1, <3>2
  <2> HIDE DEF next, row
  <2>7. RowsTyped'
    BY <1>1, <1>5, <2>1, <2>3, <2>5, <2>6 DEF DevicesOK, RowsTyped
  <2>8. SubsTyped'
    BY <1>1, <1>3, <1>5 DEF DevicesOK, SubsTyped
  <2>9. RowsOwn'
    <3>1. OwnRow(row)
      BY <1>2, <2>1 DEF OwnRow, OwnSub
    <3>2. \A r \in rows' \union sending \union expired : r = row \/ r \in rows \union sending \union expired
      BY <1>5, <2>3
    <3>3. \A r \in rows' \union sending \union expired : OwnRow(r)
      BY <3>1, <3>2 DEF DevicesOK, RowsOwn
    <3> QED
      BY <1>1, <3>3 DEF RowsOwn, OwnRow
  <2>10. SubsOwn'
    BY <1>1, <1>3 DEF DevicesOK, SubsOwn, OwnSub
  <2>11. GoneStaysGone'
    BY <1>1 DEF DevicesOK, GoneStaysGone, Devices!Live, Devices!SubOf
  <2>12. Devices!RegisteredIsListed'
    <3> SUFFICES ASSUME NEW c \in registered', browser[c] # None
                 PROVE  Devices!Row(c, browser[c]) \in next
      BY <1>1, <1>5 DEF Devices!RegisteredIsListed, Devices!Row
    <3>1. c \in Installs /\ (c = d => s = browser[d])
      BY <1>5 DEF DevicesOK, SubsTyped
    <3>2. CASE c = d
      BY <2>3, <3>1, <3>2 DEF row
    <3>3. CASE c # d
      <4>1. c \in registered /\ Devices!Row(c, browser[c]) \in rows
        BY <1>5, <3>3 DEF DevicesOK, Devices!RegisteredIsListed
      <4>2. browser[c] \in Devices!Subs /\ OwnSub(c, browser[c])
        BY <3>1 DEF DevicesOK, SubsTyped, SubsOwn
      <4>3. /\ Devices!Row(c, browser[c]).install = c
            /\ Devices!Row(c, browser[c]).endpoint = browser[c].endpoint
        BY <3>1, <4>2, SubFacts
      <4>4. browser[c].endpoint # s.endpoint
        BY <1>2, <3>3, <4>2 DEF OwnSub
      <4>5. mine # {} => Devices!Row(c, browser[c]) \notin mine
        BY <3>3, <4>3
      <4> QED
        BY <2>2, <4>1, <4>3, <4>4, <4>5
    <3> QED
      BY <3>2, <3>3
  <2> QED
    BY <2>7, <2>8, <2>9, <2>10, <2>11, <2>12 DEF DevicesOK
<1> QED
  BY <1>1, <1>4, <1>5, Zenon

(* A delivery lists, hears and drops; it drops nothing that is live.              *)
LEMMA DeliveryKeeps ==
  ASSUME DevicesOK, Devices!Delivery
  PROVE  DevicesOK'
<1>1. UNCHANGED <<browser, posting, registered, owners, renewals>>
  BY DEF Devices!Delivery, Devices!Deliver, Devices!Answered, Devices!DropExpired
<1>2. \A r \in rows \union sending \union expired : Devices!Live(r)' <=> Devices!Live(r)
  BY <1>1 DEF Devices!Live, Devices!SubOf
<1>3. /\ browser' \in [Installs -> Devices!Subs \union {None}]
      /\ posting' \in [Installs -> SUBSET Devices!Subs]
      /\ \A d \in Installs : posting'[d] \subseteq posting[d] \union ({browser[d]} \ {None})
  BY <1>1 DEF DevicesOK, SubsTyped
<1>4. \A d \in registered : browser[d] # None => Devices!Row(d, browser[d]) \in rows
  BY DEF DevicesOK, Devices!RegisteredIsListed
<1>5. sending \cap expired = {} /\ \A r \in expired : ~Devices!Live(r)
  BY DEF DevicesOK, RowsTyped, GoneStaysGone
<1>6. CASE Devices!Deliver
  <2>1. rows' = rows /\ expired' = {} /\ expired = {} /\ sending' = rows
    BY <1>6 DEF Devices!Deliver
  <2> QED
    BY <1>1, <1>3, <1>4, <2>1, FewerRows
<1>7. ASSUME NEW r \in sending, Devices!Answered(r)
      PROVE  DevicesOK'
  <2>1. /\ rows' = rows /\ sending' = sending \ {r}
        /\ expired' = IF Devices!Live(r) THEN expired ELSE expired \union {r}
    BY <1>7 DEF Devices!Answered
  <2>2. \A x \in expired' : ~Devices!Live(x)'
    BY <1>2, <1>5, <2>1
  <2>3. expired' \subseteq expired \union sending /\ sending' \cap expired' = {}
    BY <1>5, <2>1
  <2> QED
    BY <1>1, <1>3, <1>4, <2>1, <2>2, <2>3, FewerRows
<1>8. ASSUME NEW r \in expired, Devices!DropExpired(r)
      PROVE  DevicesOK'
  <2>1. /\ rows' = {x \in rows : Devices!SubOf(x) # Devices!SubOf(r)} /\ sending' = sending
        /\ expired' = expired \ {r}
    BY <1>8 DEF Devices!DropExpired, Devices!SubOf
  <2>2. \A x \in expired' : ~Devices!Live(x)'
    BY <1>2, <1>5, <2>1
  <2>3. ASSUME NEW d \in registered, browser[d] # None
        PROVE  Devices!Row(d, browser[d]) \in rows'
    <3> DEFINE row == Devices!Row(d, browser[d])
    <3>1. /\ d \in Installs /\ browser[d] \in Devices!Subs /\ row \in rows
          /\ r \in Devices!Rows /\ owners[r.endpoint] = r.install /\ ~Devices!Live(r)
          /\ OwnSub(d, browser[d])
      BY <1>4, <1>5, <2>3 DEF DevicesOK, SubsTyped, RowsTyped, RowsOwn, OwnRow, SubsOwn
    <3>2. row.install = d /\ row.endpoint = browser[d].endpoint /\ row.key = browser[d].key
      BY <3>1, SubFacts
    <3>3. browser[d] = Devices!SubOf(row)
      BY <3>1, <3>2 DEF Devices!Subs, Devices!SubOf, Devices!Sub
    <3>4. ASSUME Devices!SubOf(row) = Devices!SubOf(r)
          PROVE  FALSE
      <4>1. browser[d].endpoint = r.endpoint
        BY <3>1, <3>3, <3>4, SubFacts
      <4>2. r.install = d
        BY <3>1, <4>1 DEF OwnSub
      <4> QED
        BY <3>1, <3>3, <3>4, <4>2 DEF Devices!Live
    <3> QED
      BY <2>1, <3>1, <3>4
  <2>4. /\ rows' \subseteq rows /\ sending' \subseteq sending \union rows
        /\ expired' \subseteq expired \union sending /\ sending' \cap expired' = {}
        /\ \A d \in registered' : browser'[d] # None => Devices!Row(d, browser'[d]) \in rows'
    BY <1>1, <1>5, <2>1, <2>3
  <2> QED
    BY <1>1, <1>3, <2>2, <2>4, FewerRows
<1> QED
  BY <1>6, <1>7, <1>8 DEF Devices!Delivery

(* What a device or its user gives up is no longer registered.                    *)
LEMMA GivingUpKeeps ==
  ASSUME DevicesOK,
         \/ \E d \in Installs : \/ Devices!Lapse(d) \/ Devices!Repost(d) \/ Devices!Unsubscribe(d)
                                \/ \E s \in posting[d] : Devices!PostLost(d, s)
         \/ \E S \in SUBSET rows : Devices!UserRemoves(S)
         \/ UNCHANGED devicesVars
  PROVE  DevicesOK'
<1>1. \A d \in registered : browser[d] # None => Devices!Row(d, browser[d]) \in rows
  BY DEF DevicesOK, Devices!RegisteredIsListed
<1>2. /\ sending \cap expired = {} /\ registered \subseteq Installs
      /\ browser \in [Installs -> Devices!Subs \union {None}] /\ posting \in [Installs -> SUBSET Devices!Subs]
  BY DEF DevicesOK, RowsTyped, SubsTyped
<1>3. UNCHANGED <<owners, renewals, sending, expired>>
  BY DEF Devices!Lapse, Devices!Repost, Devices!Unsubscribe, Devices!PostLost, Devices!UserRemoves,
         Devices!server, devicesVars
<1>4. ASSUME NEW x \in expired, \A d \in Installs : browser'[d] = browser[d] \/ browser'[d] = None
      PROVE  browser'[x.install] # Devices!SubOf(x)
  <2>1. x \in Devices!Rows /\ browser[x.install] # Devices!SubOf(x)
    BY DEF DevicesOK, RowsTyped, GoneStaysGone, Devices!Live
  <2>2. Devices!SubOf(x) # None /\ x.install \in Installs
    BY <2>1, SubFacts
  <2> QED
    BY <1>4, <2>1, <2>2
<1>5. ASSUME rows' \subseteq rows, registered' \subseteq registered,
             browser' \in [Installs -> Devices!Subs \union {None}],
             \A d \in Installs : browser'[d] = browser[d] \/ browser'[d] = None,
             posting' \in [Installs -> SUBSET Devices!Subs],
             \A d \in Installs : posting'[d] \subseteq posting[d] \union ({browser[d]} \ {None}),
             \A d \in registered' : browser'[d] # None => Devices!Row(d, browser'[d]) \in rows'
      PROVE  DevicesOK'
  <2>1. \A x \in expired' : ~Devices!Live(x)'
    BY <1>3, <1>4, <1>5 DEF Devices!Live, Devices!SubOf
  <2> QED
    BY <1>2, <1>3, <1>5, <2>1, FewerRows
<1>6. ASSUME NEW d \in Installs, Devices!Lapse(d)
      PROVE  DevicesOK'
  <2>1. /\ browser' = [browser EXCEPT ![d] = None] /\ registered' = registered \ {d}
        /\ rows' = rows /\ posting' = posting
    BY <1>6 DEF Devices!Lapse, Devices!server
  <2>2. \A c \in registered' : browser'[c] # None => Devices!Row(c, browser'[c]) \in rows'
    BY <1>1, <1>2, <2>1
  <2> QED
    BY <1>2, <1>5, <2>1, <2>2
<1>7. ASSUME NEW d \in Installs, Devices!Repost(d)
      PROVE  DevicesOK'
  <2>1. /\ browser[d] # None /\ posting' = [posting EXCEPT ![d] = @ \union {browser[d]}]
        /\ browser' = browser /\ registered' = registered /\ rows' = rows
    BY <1>7 DEF Devices!Repost, Devices!server
  <2>2. /\ posting' \in [Installs -> SUBSET Devices!Subs]
        /\ \A c \in Installs : posting'[c] \subseteq posting[c] \union ({browser[c]} \ {None})
    BY <1>2, <2>1
  <2> QED
    BY <1>1, <1>2, <1>5, <2>1, <2>2
<1>8. ASSUME NEW d \in Installs, Devices!Unsubscribe(d)
      PROVE  DevicesOK'
  <2>1. /\ browser[d] # None /\ browser' = [browser EXCEPT ![d] = None]
        /\ rows' = {r \in rows : r.endpoint # browser[d].endpoint}
        /\ registered' = registered \ {d} /\ posting' = posting
    BY <1>8 DEF Devices!Unsubscribe
  <2>2. ASSUME NEW c \in registered', browser'[c] # None
        PROVE  Devices!Row(c, browser'[c]) \in rows'
    <3>1. c \in Installs /\ c # d /\ c \in registered /\ browser'[c] = browser[c]
      BY <1>2, <2>1, <2>2
    <3>2. /\ Devices!Row(c, browser[c]) \in rows /\ browser[c] \in Devices!Subs
          /\ OwnSub(c, browser[c]) /\ OwnSub(d, browser[d])
      BY <1>1, <1>2, <2>1, <2>2, <3>1 DEF DevicesOK, SubsOwn
    <3>3. Devices!Row(c, browser[c]).endpoint # browser[d].endpoint
      BY <3>1, <3>2, SubFacts DEF OwnSub
    <3> QED
      BY <2>1, <3>1, <3>2, <3>3
  <2> QED
    BY <1>2, <1>5, <2>1, <2>2
<1>9. ASSUME NEW d \in Installs, NEW s \in posting[d], Devices!PostLost(d, s)
      PROVE  DevicesOK'
  <2>1. /\ posting' = [posting EXCEPT ![d] = @ \ {s}]
        /\ browser' = browser /\ registered' = registered /\ rows' = rows
    BY <1>9 DEF Devices!PostLost, Devices!server
  <2>2. /\ posting' \in [Installs -> SUBSET Devices!Subs]
        /\ \A c \in Installs : posting'[c] \subseteq posting[c] \union ({browser[c]} \ {None})
    BY <1>2, <2>1
  <2> QED
    BY <1>1, <1>2, <1>5, <2>1, <2>2
<1>10. ASSUME NEW S \in SUBSET rows, Devices!UserRemoves(S)
       PROVE  DevicesOK'
  <2>1. /\ rows' = rows \ S /\ registered' = registered \ {r.install : r \in S}
        /\ browser' = browser /\ posting' = posting
    BY <1>10 DEF Devices!UserRemoves
  <2>2. ASSUME NEW c \in registered', browser[c] # None
        PROVE  Devices!Row(c, browser[c]) \in rows'
    <3>1. c \in registered /\ c \in Installs /\ \A r \in S : r.install # c
      BY <1>2, <2>1
    <3>2. Devices!Row(c, browser[c]) \in rows /\ browser[c] \in Devices!Subs
      BY <1>1, <1>2, <2>2, <3>1
    <3>3. Devices!Row(c, browser[c]).install = c
      BY <3>1, <3>2, SubFacts
    <3> QED
      BY <2>1, <3>1, <3>2, <3>3
  <2> QED
    BY <1>2, <1>5, <2>1, <2>2
<1>11. ASSUME UNCHANGED devicesVars
       PROVE  DevicesOK'
  BY <1>1, <1>2, <1>5, <1>11 DEF devicesVars
<1> QED
  BY <1>6, <1>7, <1>8, <1>9, <1>10, <1>11

(* Every step of the registrations keeps their invariant, and it holds at first.  *)
LEMMA DevicesStep ==
  ASSUME Devices!TypeOK, Devices!DeviceInv, Devices!Next \/ UNCHANGED devicesVars
  PROVE  Devices!TypeOK' /\ Devices!DeviceInv'
<1>1. DevicesOK
  BY DevicesParts
<1>2. DevicesOK'
  BY <1>1, RenewKeeps, AddKeeps, DeliveryKeeps, GivingUpKeeps DEF Devices!Next
<1>3. Devices!TypeOK' /\ Devices!DeviceInv' <=> DevicesOK'
  BY DevicesParts, PTL
<1> QED
  BY <1>2, <1>3

(* At first nothing is registered.                                                *)
LEMMA DevicesStart ==
  Devices!Init => Devices!TypeOK /\ Devices!DeviceInv
<1> SUFFICES ASSUME Devices!Init
             PROVE  DevicesOK
  BY DevicesParts
<1>1. RowsTyped
  BY FS_EmptySet, ServicesAssumption DEF Devices!Init, RowsTyped
<1>2. SubsTyped
  BY ServicesAssumption DEF Devices!Init, SubsTyped
<1>3. RowsOwn /\ SubsOwn /\ GoneStaysGone /\ Devices!RegisteredIsListed
  BY DEF Devices!Init, RowsOwn, SubsOwn, GoneStaysGone, Devices!RegisteredIsListed
<1> QED
  BY <1>1, <1>2, <1>3 DEF DevicesOK

(* A device that the server accepted keeps its row until it or its user gives it   *)
(* up, and an icon whose worker has nothing left to do shows the stored count       *)
(* unless a page wrote it behind its lease: for any number of devices, endpoints,   *)
(* tabs and pushes, in any order.                                                  *)
THEOREM DevicesAreServed == Spec => []DevicesInv
<1>1. Init => DevicesInv
  BY BadgeStart, DevicesStart DEF Init, DevicesInv
<1>2. DevicesInv /\ [Next]_vars => DevicesInv'
  <2> SUFFICES ASSUME DevicesInv, [Next]_vars
               PROVE  /\ moves' = "badge" => Badge!TypeOK' /\ Badge!BadgeInv'
                      /\ moves' = "devices" => Devices!TypeOK' /\ Devices!DeviceInv'
    BY DEF DevicesInv
  <2>1. /\ moves' = moves
        /\ moves = "badge" => Badge!Next \/ UNCHANGED badgeVars
        /\ moves = "devices" => Devices!Next \/ UNCHANGED devicesVars
    BY OneServiceMoves
  <2> QED
    BY <2>1, BadgeStep, DevicesStep DEF DevicesInv
<1> QED
  BY <1>1, <1>2, PTL DEF Spec

-------------------------------------------------------------------------------
(* Launches                                                                       *)

(* A sequence without one of its elements.                                        *)
LEMMA RemovedFacts ==
  ASSUME NEW T, NEW q \in Seq(T), NEW n \in 1..Len(q)
  PROVE  /\ Launches!RemoveAt(q, n) \in Seq(T)
         /\ Len(Launches!RemoveAt(q, n)) = Len(q) - 1
         /\ \A j \in DOMAIN Launches!RemoveAt(q, n) : \E i \in DOMAIN q : 
              i # n /\ Launches!RemoveAt(q, n)[j] = q[i] /\ i = IF j < n THEN j ELSE j + 1
         /\ \A i \in DOMAIN q : i # n =>
              \E j \in DOMAIN Launches!RemoveAt(q, n) : Launches!RemoveAt(q, n)[j] = q[i]
<1> DEFINE a == SubSeq(q, 1, n - 1)  b == SubSeq(q, n + 1, Len(q))  c == a \o b
<1>1. Launches!RemoveAt(q, n) = c
  BY DEF Launches!RemoveAt
<1>2. /\ a \in Seq(T) /\ Len(a) = n - 1 /\ \A i \in 1..(n - 1) : a[i] = q[i]
  OBVIOUS
<1>3. /\ b \in Seq(T) /\ Len(b) = Len(q) - n /\ \A i \in 1..(Len(q) - n) : b[i] = q[n + i]
  OBVIOUS
<1> HIDE DEF a, b
<1>4. /\ c \in Seq(T) /\ Len(c) = Len(q) - 1 /\ DOMAIN c = 1..(Len(q) - 1)
      /\ \A j \in 1..(Len(q) - 1) : c[j] = IF j < n THEN a[j] ELSE b[j - n + 1]
  <2>1. /\ c \in Seq(T) /\ Len(c) = Len(a) + Len(b)
        /\ \A j \in 1..(Len(a) + Len(b)) : c[j] = IF j <= Len(a) THEN a[j] ELSE b[j - Len(a)]
    BY <1>2, <1>3, ConcatProperties
  <2>2. DOMAIN c = 1..Len(c)
    BY <2>1
  <2>3. Len(q) \in Nat /\ n \in Nat /\ n >= 1 /\ n <= Len(q)
    OBVIOUS
  <2>4. Len(a) + Len(b) = Len(q) - 1
    BY <1>2, <1>3, <2>3
  <2>5. \A j \in 1..(Len(q) - 1) : (j <= Len(a) <=> j < n) /\ j - Len(a) = j - n + 1
    BY <1>2, <2>3
  <2> HIDE DEF c
  <2> QED
    BY <2>1, <2>2, <2>4, <2>5
<1>5. \A j \in 1..(Len(q) - 1) : c[j] = IF j < n THEN q[j] ELSE q[j + 1]
  BY <1>2, <1>3, <1>4
<1> HIDE DEF c
<1>6. DOMAIN q = 1..Len(q) /\ Len(q) \in Nat
  OBVIOUS
<1>7. \A j \in DOMAIN c : \E i \in DOMAIN q : i # n /\ c[j] = q[i] /\ i = IF j < n THEN j ELSE j + 1
  BY <1>4, <1>5, <1>6
<1>8. ASSUME NEW i \in DOMAIN q, i # n
      PROVE  \E j \in DOMAIN c : c[j] = q[i]
  <2>1. CASE i < n
    <3>1. i \in DOMAIN c /\ c[i] = q[i]
      BY <1>4, <1>5, <1>6, <2>1
    <3> QED
      BY <3>1
  <2>2. CASE i > n
    <3>1. i - 1 \in DOMAIN c /\ c[i - 1] = q[i]
      BY <1>4, <1>5, <1>6, <2>2
    <3> QED
      BY <3>1
  <2> QED
    BY <1>6, <1>8, <2>1, <2>2
<1> QED
  BY <1>1, <1>4, <1>7, <1>8

Entries == [key : LaunchKeys, body : Bodies, launch : Launches!Launches, settled : BOOLEAN]
LaunchRecords ==
  [pc : {"free", "policy", "worktree", "ready", "create", "verify", "submit", "cleanup", "done",
         "failed"},
   stage : Launches!Stages \union {None}]
LaunchRequests ==
  [key : LaunchKeys \union {None}, body : Bodies \union {None},
   joined : Launches!Launches \union {None}, answer : Launches!Answers \union {None}]

\* The types of the map, and of what stands beside it.
MapTyped ==
  /\ kind \in {"child", "root"} /\ Len(entries) <= Launches!Limit /\ entries \in Seq(Entries)
  /\ launch \in [Launches!Launches -> LaunchRecords]
  /\ request \in [Launches!Requests -> LaunchRequests] /\ evicted \subseteq Launches!Launches
TreesTyped ==
  /\ session \in [Launches!Launches -> {"none", "made", "lost", "prompted", "deleted"}]
  /\ tree \in [Launches!Launches -> {"none", "made", "ready", "failed"}]
  /\ buffered \in [Launches!Launches -> SUBSET Launches!Launches]

\* What follows of one launch from where it stands.
StageOK(l) ==
  LET at == launch[l].pc IN
    /\ at # "failed" => launch[l].stage = None
    /\ at \in {"free", "policy", "worktree", "ready", "create"} => session[l] = "none"
    /\ at \in {"verify", "submit"} => session[l] = "made"
    /\ at = "cleanup" => kind = "child" /\ session[l] \in {"made", "prompted"}
    /\ at = "verify" => kind = "child"
    /\ at \in {"free", "policy"} => tree[l] = "none"
    /\ at \in {"create", "verify", "submit", "cleanup", "done"} => tree[l] \in {"none", "ready"}
    /\ at = "ready" => tree[l] = "made"
    /\ at = "worktree" /\ tree[l] \in {"ready", "failed"} => l \in buffered[l]
    /\ at = "failed" /\ session[l] \in {"made", "prompted"} =>
         launch[l].stage = IF kind = "child" THEN "cleanup" ELSE "prompt"
    /\ session[l] # "none" => tree[l] \in {"none", "ready"}
    /\ launch[l].stage = "timeout" => tree[l] # "ready"
LaunchOK ==
  /\ MapTyped /\ TreesTyped /\ launchFaults \in 0..LaunchFaults /\ Launches!MapIsWhole
  /\ \A l \in Launches!Launches : StageOK(l)

(* The invariant by its parts; a key in flight is launched once because the map is *)
(* whole, and given two prompts only where it was not.                             *)
LEMMA LaunchParts ==
  Launches!TypeOK /\ Launches!LaunchInv <=> LaunchOK
<1>1. Launches!TypeOK <=> MapTyped /\ TreesTyped /\ launchFaults \in 0..LaunchFaults
  BY DEF Launches!TypeOK, MapTyped, TreesTyped, Entries, LaunchRecords, LaunchRequests
<1>2. Launches!StagesFollow /\ Launches!LeftoverIsNamed /\ Launches!OwnTreeReady
        <=> \A l \in Launches!Launches : StageOK(l)
  BY Zenon DEF Launches!StagesFollow, Launches!LeftoverIsNamed, Launches!OwnTreeReady, StageOK
<1>3. ASSUME LaunchOK
      PROVE  Launches!OneInFlight /\ Launches!OnePrompted
  <2>0. \A l \in Launches!Launches : l \in Nat
    BY ServicesAssumption DEF Launches!Launches, Launches!Requests
  <2>1. ASSUME NEW l \in Launches!Launches, NEW m \in Launches!Launches, Launches!Twins(l, m), l < m
        PROVE  /\ ~Launches!Running(l)
               /\ l \in evicted \/ (kind = "child" /\ launch[l].pc = "failed")
    <3>1. Launches!Replaceable(l) /\ (l \in evicted => ~Launches!Running(l))
      BY <1>3, <2>1 DEF LaunchOK, Launches!MapIsWhole, Launches!Running
    <3> QED
      BY <3>1 DEF Launches!Replaceable, Launches!Running
  <2>2. Launches!OneInFlight
    <3> SUFFICES ASSUME NEW l \in Launches!Launches, NEW m \in Launches!Launches,
                        Launches!Running(l), Launches!Twins(l, m)
                 PROVE  ~Launches!Running(m)
      BY DEF Launches!OneInFlight
    <3>1. Launches!Twins(m, l) /\ l # m
      BY DEF Launches!Twins
    <3>2. l < m \/ m < l
      BY <2>0, <3>1
    <3> QED
      BY <2>1, <3>1, <3>2
  <2>3. Launches!OnePrompted
    <3> SUFFICES ASSUME NEW l \in Launches!Launches, NEW m \in Launches!Launches,
                        Launches!Twins(l, m), l < m, session[l] = "prompted"
                 PROVE  l \in evicted \/ launch[l].stage = "cleanup"
      BY DEF Launches!OnePrompted
    <3>1. StageOK(l)
      BY <1>3 DEF LaunchOK
    <3> QED
      BY <2>1, <3>1 DEF StageOK
  <2> QED
    BY <2>2, <2>3
<1> QED
  BY <1>1, <1>2, <1>3 DEF LaunchOK, Launches!LaunchInv

(* Launches are numbered, and None is none of what it stands for.                 *)
LEMMA LaunchNumbers ==
  /\ Launches!Launches = Launches!Requests /\ Launches!Requests = 1..MaxRequests
  /\ MaxRequests \in Nat /\ None \notin Launches!Launches /\ None \notin LaunchKeys
  /\ None \notin Launches!Stages
  /\ Launches!Limit \in Nat
BY ServicesAssumption, LaunchWords DEF Launches!Launches, Launches!Requests, Launches!Limit, Launches!Stages

\* How a launch that goes on, or ends, leaves the map: its own entry may be gone or settled,
\* the others are what they were.
EntriesStay(l) ==
  /\ entries' \in Seq(Entries) /\ Len(entries') <= Launches!Limit
  /\ \A i, j \in DOMAIN entries' : entries'[i].key = entries'[j].key => i = j
  /\ \A j \in DOMAIN entries' : \E i \in DOMAIN entries :
       /\ entries'[j].key = entries[i].key /\ entries'[j].launch = entries[i].launch
       /\ entries'[j].settled => entries[i].settled \/ entries[i].launch = l
  /\ \A i \in DOMAIN entries : entries[i].launch # l =>
       \E j \in DOMAIN entries' : entries'[j].launch = entries[i].launch

(* A launch's entry is settled.                                                   *)
LEMMA SettlesEntry ==
  ASSUME LaunchOK, NEW l \in Launches!Launches, entries' = Launches!SettledEntry(l)
  PROVE  /\ EntriesStay(l)
         /\ \A i \in DOMAIN entries : \E j \in DOMAIN entries' : entries'[j].launch = entries[i].launch
<1>1. /\ entries \in Seq(Entries) /\ Len(entries) \in Nat /\ DOMAIN entries = 1..Len(entries)
      /\ Len(entries) <= Launches!Limit
      /\ \A i, j \in DOMAIN entries : entries[i].key = entries[j].key => i = j
  BY DEF LaunchOK, MapTyped, Launches!MapIsWhole
<1>2. ASSUME NEW i \in DOMAIN entries
      PROVE  /\ [entries[i] EXCEPT !.settled = TRUE] \in Entries
             /\ [entries[i] EXCEPT !.settled = TRUE].key = entries[i].key
             /\ [entries[i] EXCEPT !.settled = TRUE].launch = entries[i].launch
  <2>1. entries[i] \in Entries
    BY <1>1
  <2> QED
    BY <2>1 DEF Entries
<1>3. \A i \in DOMAIN entries :
        entries'[i] = IF entries[i].launch = l THEN [entries[i] EXCEPT !.settled = TRUE] ELSE entries[i]
  BY <1>1 DEF Launches!SettledEntry
<1>4. DOMAIN entries' = 1..Len(entries)
  BY DEF Launches!SettledEntry
<1>5. \A i \in DOMAIN entries : /\ entries'[i] \in Entries /\ entries'[i].key = entries[i].key
                                /\ entries'[i].launch = entries[i].launch
                                /\ entries'[i].settled => entries[i].settled \/ entries[i].launch = l
  <2> SUFFICES ASSUME NEW i \in DOMAIN entries
               PROVE  /\ entries'[i] \in Entries /\ entries'[i].key = entries[i].key
                      /\ entries'[i].launch = entries[i].launch
                      /\ entries'[i].settled => entries[i].settled \/ entries[i].launch = l
    OBVIOUS
  <2>1. CASE entries[i].launch = l
    BY <1>2, <1>3, <2>1, Zenon
  <2>2. CASE entries[i].launch # l
    <3>1. entries'[i] = entries[i]
      BY <1>3, <2>2, Zenon
    <3>2. entries[i] \in Entries
      BY <1>1
    <3> QED
      BY <3>1, <3>2
  <2> QED
    BY <2>1, <2>2
<1>6. entries' \in Seq(Entries) /\ Len(entries') = Len(entries)
  <2>1. entries' = [i \in 1..Len(entries) |-> entries'[i]]
    BY <1>4 DEF Launches!SettledEntry
  <2>2. \A i \in 1..Len(entries) : entries'[i] \in Entries
    BY <1>1, <1>5
  <2> QED
    BY <1>1, <2>1, <2>2
<1>7. \A i, j \in DOMAIN entries' : entries'[i].key = entries'[j].key => i = j
  BY <1>1, <1>4, <1>5
<1> QED
  BY <1>1, <1>4, <1>5, <1>6, <1>7 DEF EntriesStay

(* A launch's entry is taken out.                                                 *)
LEMMA ForgetsEntry ==
  ASSUME LaunchOK, NEW l \in Launches!Launches, entries' = Launches!Forgotten(l)
  PROVE  EntriesStay(l)
<1>1. /\ entries \in Seq(Entries) /\ Len(entries) \in Nat /\ DOMAIN entries = 1..Len(entries)
      /\ Len(entries) <= Launches!Limit /\ Launches!Limit \in Nat
      /\ \A i, j \in DOMAIN entries : entries[i].key = entries[j].key => i = j
      /\ \A i \in DOMAIN entries : request[entries[i].launch].key = entries[i].key
  BY LaunchNumbers DEF LaunchOK, MapTyped, Launches!MapIsWhole
<1> DEFINE own == {i \in 1..Len(entries) : entries[i].launch = l}
<1>2. CASE own = {}
  <2>1. entries' = entries
    BY <1>2 DEF Launches!Forgotten
  <2> QED
    BY <1>1, <2>1 DEF EntriesStay
<1>3. CASE own # {}
  <2>1. PICK n \in own : entries' = Launches!RemoveAt(entries, n)
    BY <1>3 DEF Launches!Forgotten
  <2>0. n \in 1..Len(entries) /\ entries[n].launch = l
    OBVIOUS
  <2> HIDE DEF own
  <2>2. /\ entries' \in Seq(Entries) /\ Len(entries') = Len(entries) - 1
        /\ \A j \in DOMAIN entries' : \E i \in DOMAIN entries :
              i # n /\ entries'[j] = entries[i] /\ i = IF j < n THEN j ELSE j + 1
        /\ \A i \in DOMAIN entries : i # n => \E j \in DOMAIN entries' : entries'[j] = entries[i]
    <3>1. entries \in Seq(Entries)
      BY <1>1
    <3> QED
      BY <2>0, <2>1, <3>1, RemovedFacts
  <2>3. \A i \in DOMAIN entries : entries[i].launch # l => i # n
    BY <2>0
  <2>4. \A j, k \in DOMAIN entries' : entries'[j].key = entries'[k].key => j = k
    <3> SUFFICES ASSUME NEW j \in DOMAIN entries', NEW k \in DOMAIN entries',
                        entries'[j].key = entries'[k].key
                 PROVE  j = k
      OBVIOUS
    <3>1. PICK i \in DOMAIN entries : entries'[j] = entries[i] /\ i = IF j < n THEN j ELSE j + 1
      BY <2>2
    <3>2. PICK h \in DOMAIN entries : entries'[k] = entries[h] /\ h = IF k < n THEN k ELSE k + 1
      BY <2>2
    <3>3. i = h
      BY <1>1, <3>1, <3>2
    <3>4. j \in Nat /\ k \in Nat
      <4>1. DOMAIN entries' = 1..Len(entries') /\ Len(entries') \in Nat
        BY <2>2
      <4> QED
        BY <4>1
    <3>5. n \in Nat
      BY <1>1, <2>0
    <3> QED
      BY <3>1, <3>2, <3>3, <3>4, <3>5
  <2>5. Len(entries') <= Launches!Limit
    BY <1>1, <2>2
  <2>6. \A j \in DOMAIN entries' : \E i \in DOMAIN entries :
          /\ entries'[j].key = entries[i].key /\ entries'[j].launch = entries[i].launch
          /\ entries'[j].settled => entries[i].settled \/ entries[i].launch = l
    BY <2>2, Zenon
  <2>7. \A i \in DOMAIN entries : entries[i].launch # l =>
          \E j \in DOMAIN entries' : entries'[j].launch = entries[i].launch
    BY <2>2, <2>3, Zenon
  <2> QED
    BY <2>2, <2>4, <2>5, <2>6, <2>7 DEF EntriesStay
<1> QED
  BY <1>2, <1>3

\* A launch under way goes on, or ends: what becomes of the map.
MapMoves(l) ==
  /\ Launches!Running(l) /\ kind' = kind /\ evicted' = evicted /\ EntriesStay(l)
  /\ \A k \in Launches!Launches : k # l => launch'[k] = launch[k]
  /\ \A r \in Launches!Requests :
       request'[r].key = request[r].key /\ request'[r].joined = request[r].joined
  /\ launch'[l].pc # "free"
  /\ launch'[l].pc \notin {"done", "failed"} => entries' = entries
  /\ \/ \A i \in DOMAIN entries : entries[i].launch = l => \E j \in DOMAIN entries' : entries'[j].launch = l
     \/ kind = "child" /\ launch'[l].pc = "failed"
  /\ MapTyped'

(* The map stays whole.                                                           *)
LEMMA MapStaysWhole ==
  ASSUME LaunchOK, NEW l \in Launches!Launches, MapMoves(l)
  PROVE  Launches!MapIsWhole'
<1>1. /\ Launches!MapIsWhole /\ EntriesStay(l)
      /\ \A i \in DOMAIN entries : entries[i].launch \in Launches!Launches
  <2>1. entries \in Seq(Entries)
    BY DEF LaunchOK, MapTyped
  <2>2. \A i \in DOMAIN entries : entries[i] \in Entries
    BY <2>1
  <2> QED
    BY <2>2 DEF LaunchOK, MapMoves, Entries
<1>2. \A k \in Launches!Launches :
        /\ k # l => (Launches!Running(k)' <=> Launches!Running(k))
        /\ k # l => (launch'[k].pc # "free" <=> launch[k].pc # "free")
        /\ Launches!Replaceable(k) => Launches!Replaceable(k)'
  BY DEF MapMoves, Launches!Running, Launches!Replaceable
<1>3. \A r \in Launches!Requests :
        request'[r].key = request[r].key /\ request'[r].joined = request[r].joined
  BY DEF MapMoves
<1>4. \A k, m \in Launches!Launches : Launches!Twins(k, m)' <=> Launches!Twins(k, m)
  BY <1>3, LaunchNumbers DEF Launches!Twins
<1>5. ASSUME NEW j \in DOMAIN entries'
      PROVE  /\ request'[entries'[j].launch].joined = entries'[j].launch
             /\ request'[entries'[j].launch].key = entries'[j].key
             /\ entries'[j].settled => launch'[entries'[j].launch].pc \in {"free", "done", "failed"}
  <2>1. PICK i \in DOMAIN entries :
          /\ entries'[j].key = entries[i].key /\ entries'[j].launch = entries[i].launch
          /\ entries'[j].settled => entries[i].settled \/ entries[i].launch = l
    BY <1>1 DEF EntriesStay
  <2>2. /\ request[entries[i].launch].joined = entries[i].launch
        /\ request[entries[i].launch].key = entries[i].key
        /\ entries[i].launch \in Launches!Requests
        /\ entries[i].settled => launch[entries[i].launch].pc \in {"free", "done", "failed"}
    BY <1>1, LaunchNumbers DEF Launches!MapIsWhole, Launches!Running
  <2>3. ASSUME entries'[j].settled
        PROVE  launch'[entries[i].launch].pc \in {"free", "done", "failed"}
    <3>1. CASE launch'[l].pc \in {"done", "failed"}
      <4>1. CASE entries[i].launch = l
        BY <3>1, <4>1
      <4>2. CASE entries[i].launch # l
        BY <2>1, <2>2, <2>3, <4>2, LaunchNumbers DEF MapMoves
      <4> QED
        BY <4>1, <4>2
    <3>2. CASE launch'[l].pc \notin {"done", "failed"}
      <4>1. entries' = entries
        BY <3>2 DEF MapMoves
      <4>2. /\ j \in DOMAIN entries /\ entries[j].settled
            /\ entries[j].launch = entries[i].launch
        BY <2>1, <2>3, <4>1
      <4>3. launch[entries[j].launch].pc \in {"free", "done", "failed"}
        BY <1>1, <4>2 DEF Launches!MapIsWhole, Launches!Running
      <4>4. entries[j].launch # l
        BY <4>3 DEF MapMoves, Launches!Running
      <4> QED
        BY <1>1, <4>2, <4>3, <4>4 DEF MapMoves
    <3> QED
      BY <3>1, <3>2
  <2> QED
    BY <1>3, <2>1, <2>2, <2>3
<1>6. ASSUME NEW k \in Launches!Launches
      PROVE  /\ launch'[k].pc # "free" <=> request'[k].joined = k
             /\ request'[k].joined = k =>
                  Launches!Replaceable(k)' \/ \E j \in DOMAIN entries' : entries'[j].launch = k
             /\ k \in evicted' => launch'[k].pc \in {"done", "failed"}
             /\ request'[k].joined # None => request'[k].key # None
  <2>1. /\ launch[k].pc # "free" <=> request[k].joined = k
        /\ request[k].joined = k =>
             Launches!Replaceable(k) \/ \E i \in DOMAIN entries : entries[i].launch = k
        /\ k \in evicted => launch[k].pc \in {"done", "failed"}
        /\ request[k].joined # None => request[k].key # None
    BY <1>1 DEF Launches!MapIsWhole
  <2>2. k = l => launch[k].pc # "free" /\ launch'[k].pc # "free" /\ k \notin evicted
    BY <2>1 DEF MapMoves, Launches!Running
  <2>3. request'[k].key = request[k].key /\ request'[k].joined = request[k].joined
    BY <1>3, LaunchNumbers
  <2>4. launch'[k].pc # "free" <=> request'[k].joined = k
    BY <1>2, <2>1, <2>2, <2>3
  <2>5. k \in evicted' => launch'[k].pc \in {"done", "failed"}
    BY <1>2, <2>1, <2>2 DEF MapMoves
  <2>6. ASSUME request'[k].joined = k, ~Launches!Replaceable(k)'
        PROVE  \E j \in DOMAIN entries' : entries'[j].launch = k
    <3>1. PICK i \in DOMAIN entries : entries[i].launch = k
      BY <1>2, <2>1, <2>3, <2>6
    <3>2. CASE k # l
      BY <1>1, <3>1, <3>2 DEF EntriesStay
    <3>3. CASE k = l
      <4>1. ~(kind = "child" /\ launch'[l].pc = "failed")
        BY <2>6, <3>3 DEF Launches!Replaceable, MapMoves
      <4> QED
        BY <3>1, <3>3, <4>1 DEF MapMoves
    <3> QED
      BY <3>2, <3>3
  <2> QED
    BY <2>1, <2>3, <2>4, <2>5, <2>6
<1>7. \A q, r \in Launches!Requests : q < r /\ request'[r].key # None => request'[q].key # None
  BY <1>1, <1>3 DEF Launches!MapIsWhole
<1>8. \A k, m \in Launches!Launches : Launches!Twins(k, m)' /\ k < m => Launches!Replaceable(k)'
  BY <1>1, <1>2, <1>4 DEF Launches!MapIsWhole
<1>9. \A i, j \in DOMAIN entries' : entries'[i].key = entries'[j].key => i = j
  BY <1>1 DEF EntriesStay
<1>10. \A j \in DOMAIN entries' : entries'[j].settled => ~Launches!Running(entries[j].launch)'
  BY <1>5 DEF Launches!Running
<1> QED
  BY <1>5, <1>6, <1>7, <1>8, <1>9, <1>10 DEF Launches!MapIsWhole

(* A launch that goes on leaves the map alone.                                    *)
LEMMA GoesMoves ==
  ASSUME LaunchOK, NEW l \in Launches!Launches, Launches!Running(l), UNCHANGED <<kind, evicted>>,
         UNCHANGED <<entries, request>>, launch' \in [Launches!Launches -> LaunchRecords],
         \A k \in Launches!Launches : k # l => launch'[k] = launch[k],
         launch'[l].pc \notin {"free", "done", "failed"}
  PROVE  MapMoves(l)
<1>1. EntriesStay(l)
  BY DEF EntriesStay, LaunchOK, MapTyped, Launches!MapIsWhole
<1>2. MapTyped'
  BY DEF LaunchOK, MapTyped, Launches!Limit
<1> QED
  BY <1>1, <1>2 DEF MapMoves

(* What everybody who joined is told.                                             *)
LEMMA AnsweredFacts ==
  ASSUME LaunchOK, NEW l \in Launches!Launches, NEW answer \in Launches!Answers,
         Launches!Answered(l, answer)
  PROVE  /\ request' \in [Launches!Requests -> LaunchRequests]
         /\ \A r \in Launches!Requests :
              request'[r].key = request[r].key /\ request'[r].joined = request[r].joined
<1>1. request \in [Launches!Requests -> LaunchRequests]
  BY DEF LaunchOK, MapTyped
<1>2. ASSUME NEW r \in Launches!Requests
      PROVE  /\ request'[r] \in LaunchRequests
             /\ request'[r].key = request[r].key /\ request'[r].joined = request[r].joined
  <2> DEFINE row == [request[r] EXCEPT !.answer = answer]
  <2>1. request[r] \in LaunchRequests
    BY <1>1
  <2>2. row \in LaunchRequests /\ row.key = request[r].key /\ row.joined = request[r].joined
    BY <2>1 DEF LaunchRequests
  <2>3. request'[r] = row \/ request'[r] = request[r]
    BY DEF Launches!Answered
  <2> HIDE DEF row
  <2> QED
    BY <2>1, <2>2, <2>3
<1> QED
  BY <1>2 DEF Launches!Answered

(* A launch that succeeds or fails settles its entry or takes it out.             *)
LEMMA EndsMoves ==
  ASSUME LaunchOK, NEW l \in Launches!Launches, Launches!Running(l), UNCHANGED <<kind, evicted>>,
         \/ Launches!Succeeds(l)
         \/ \E stage \in Launches!Stages : Launches!Fails(l, stage)
  PROVE  MapMoves(l)
<1>1. /\ launch \in [Launches!Launches -> LaunchRecords] /\ launch[l] \in LaunchRecords
      /\ kind \in {"child", "root"} /\ evicted \subseteq Launches!Launches
  BY DEF LaunchOK, MapTyped
<1> DEFINE Told == /\ request' \in [Launches!Requests -> LaunchRequests]
                   /\ \A r \in Launches!Requests :
                        request'[r].key = request[r].key /\ request'[r].joined = request[r].joined
           Left == /\ EntriesStay(l)
                   /\ \/ \A i \in DOMAIN entries : entries[i].launch = l =>
                           \E j \in DOMAIN entries' : entries'[j].launch = l
                      \/ kind = "child" /\ launch'[l].pc = "failed"
           Stands == /\ launch' \in [Launches!Launches -> LaunchRecords]
                     /\ \A k \in Launches!Launches : k # l => launch'[k] = launch[k]
                     /\ launch'[l].pc \in {"done", "failed"}
<1>2. ASSUME Launches!Succeeds(l)
      PROVE  Told /\ Left /\ Stands
  <2>1. Told
    BY <1>2, AnsweredFacts DEF Launches!Succeeds, Launches!Answers
  <2>2. Left
    BY <1>2, SettlesEntry DEF Launches!Succeeds
  <2>3. Stands
    BY <1>1, <1>2 DEF Launches!Succeeds, LaunchRecords
  <2> QED
    BY <2>1, <2>2, <2>3
<1>3. ASSUME NEW stage \in Launches!Stages, Launches!Fails(l, stage)
      PROVE  Told /\ Left /\ Stands
  <2>1. Told
    BY <1>3, AnsweredFacts DEF Launches!Fails, Launches!Answers
  <2>3. Stands /\ launch'[l].pc = "failed"
    BY <1>1, <1>3 DEF Launches!Fails, LaunchRecords
  <2>2. Left
    <3>1. CASE kind = "child"
      BY <1>3, <2>3, <3>1, ForgetsEntry DEF Launches!Fails
    <3>2. CASE kind # "child"
      BY <1>3, <3>2, SettlesEntry DEF Launches!Fails
    <3> QED
      BY <3>1, <3>2
  <2> QED
    BY <2>1, <2>2, <2>3
<1>4. Told /\ Left /\ Stands
  BY <1>2, <1>3
<1>5. MapTyped'
  <2>1. Len(entries') <= Launches!Limit' /\ entries' \in Seq(Entries)
    BY <1>4 DEF EntriesStay, Launches!Limit
  <2> QED
    BY <1>1, <1>4, <2>1 DEF MapTyped
<1> QED
  BY <1>4, <1>5 DEF MapMoves

\* What a step about a launch leaves of the others, and where it puts its own.
OthersStay(l) ==
  \A k \in Launches!Launches : k # l =>
    session'[k] = session[k] /\ tree'[k] = tree[k] /\ (k \in buffered[k] => k \in buffered'[k])
StepOK(l) == MapMoves(l) /\ TreesTyped' /\ OthersStay(l) /\ StageOK(l)'

\* The places a launch under way goes to.
Places == {"policy", "worktree", "ready", "create", "verify", "submit", "cleanup"}

(* Where a launch stands once it went on, succeeded or failed.                    *)
LEMMA LaunchMoves ==
  ASSUME LaunchOK, NEW l \in Launches!Launches, Launches!Running(l), UNCHANGED <<kind, evicted>>
  PROVE  /\ launch[l] \in LaunchRecords /\ kind \in {"child", "root"} /\ StageOK(l)
         /\ \A at \in Places : Launches!Goes(l, at) =>
              MapMoves(l) /\ launch'[l].pc = at /\ launch'[l].stage = launch[l].stage
         /\ UNCHANGED <<entries, launch, request>> => MapMoves(l)
         /\ Launches!Succeeds(l) =>
              MapMoves(l) /\ launch'[l].pc = "done" /\ launch'[l].stage = launch[l].stage
         /\ \A stage \in Launches!Stages : Launches!Fails(l, stage) =>
              MapMoves(l) /\ launch'[l].pc = "failed" /\ launch'[l].stage = stage
<1>1. /\ launch \in [Launches!Launches -> LaunchRecords] /\ launch[l] \in LaunchRecords
      /\ kind \in {"child", "root"} /\ StageOK(l)
  BY DEF LaunchOK, MapTyped
<1>2. ASSUME NEW at \in Places, Launches!Goes(l, at)
      PROVE  MapMoves(l) /\ launch'[l].pc = at /\ launch'[l].stage = launch[l].stage
  <2>1. /\ launch' \in [Launches!Launches -> LaunchRecords]
        /\ \A k \in Launches!Launches : k # l => launch'[k] = launch[k]
        /\ launch'[l].pc = at /\ launch'[l].stage = launch[l].stage
    BY <1>1, <1>2 DEF Launches!Goes, LaunchRecords, Places
  <2>2. UNCHANGED <<entries, request>> /\ at \notin {"free", "done", "failed"}
    BY <1>2 DEF Launches!Goes, Places
  <2> QED
    BY <2>1, <2>2, GoesMoves
<1>3. ASSUME UNCHANGED <<entries, launch, request>>
      PROVE  MapMoves(l)
  <2>1. launch'[l].pc \notin {"free", "done", "failed"}
    BY <1>3 DEF Launches!Running
  <2> QED
    BY <1>1, <1>3, <2>1, GoesMoves
<1>4. ASSUME Launches!Succeeds(l)
      PROVE  MapMoves(l) /\ launch'[l].pc = "done" /\ launch'[l].stage = launch[l].stage
  <2>1. launch'[l].pc = "done" /\ launch'[l].stage = launch[l].stage
    BY <1>1, <1>4 DEF Launches!Succeeds, LaunchRecords
  <2> QED
    BY <1>4, <2>1, EndsMoves
<1>5. ASSUME NEW stage \in Launches!Stages, Launches!Fails(l, stage)
      PROVE  MapMoves(l) /\ launch'[l].pc = "failed" /\ launch'[l].stage = stage
  <2>1. launch'[l].pc = "failed" /\ launch'[l].stage = stage
    BY <1>1, <1>5 DEF Launches!Fails
  <2> QED
    BY <1>5, <2>1, EndsMoves
<1> QED
  BY <1>1, <1>2, <1>3, <1>4, <1>5

(* The calls to opencode and the policy check before them.                        *)
LEMMA CallSteps ==
  ASSUME LaunchOK, NEW l \in Launches!Launches,
         \/ Launches!Policy(l) \/ Launches!Create(l) \/ Launches!Verify(l) \/ Launches!Submit(l)
         \/ Launches!Cleanup(l)
  PROVE  StepOK(l)
<1> USE DEF Launches!aside
<1>1. Launches!Running(l) /\ UNCHANGED <<kind, evicted>> /\ UNCHANGED <<tree, buffered>>
  BY DEF Launches!Running, Launches!Policy, Launches!Create, Launches!Verify, Launches!Submit,
         Launches!Cleanup
<1>2. /\ launch[l] \in LaunchRecords /\ kind \in {"child", "root"} /\ StageOK(l)
      /\ \A at \in Places : Launches!Goes(l, at) =>
           MapMoves(l) /\ launch'[l].pc = at /\ launch'[l].stage = launch[l].stage
      /\ Launches!Succeeds(l) =>
           MapMoves(l) /\ launch'[l].pc = "done" /\ launch'[l].stage = launch[l].stage
      /\ \A stage \in Launches!Stages : Launches!Fails(l, stage) =>
           MapMoves(l) /\ launch'[l].pc = "failed" /\ launch'[l].stage = stage
  BY <1>1, LaunchMoves
<1>3. /\ TreesTyped /\ session[l] \in {"none", "made", "lost", "prompted", "deleted"}
      /\ DOMAIN session = Launches!Launches
  BY DEF LaunchOK, TreesTyped
<1>4. /\ {"create", "submit", "cleanup", "verify"} \subseteq Places
      /\ {"policy", "session", "prompt", "launch", "cleanup"} \subseteq Launches!Stages
  BY DEF Places, Launches!Stages
<1> DEFINE Told == \/ session' = session
                   \/ \E s \in {"made", "lost", "prompted", "deleted"} :
                        session' = [session EXCEPT ![l] = s]
<1>5. ASSUME Told
      PROVE  TreesTyped' /\ OthersStay(l)
  <2>1. session' \in [Launches!Launches -> {"none", "made", "lost", "prompted", "deleted"}]
    BY <1>3, <1>5 DEF TreesTyped
  <2>2. \A k \in Launches!Launches : k # l => session'[k] = session[k]
    BY <1>3, <1>5
  <2> QED
    BY <1>1, <1>3, <2>1, <2>2 DEF TreesTyped, OthersStay
<1>6. ASSUME Launches!Policy(l)
      PROVE  MapMoves(l) /\ Told /\ StageOK(l)'
  BY <1>1, <1>2, <1>3, <1>4, <1>6 DEF Launches!Policy, StageOK
<1>7. ASSUME Launches!Create(l)
      PROVE  MapMoves(l) /\ Told /\ StageOK(l)'
  BY <1>1, <1>2, <1>3, <1>4, <1>7 DEF Launches!Create, StageOK
<1>8. ASSUME Launches!Verify(l)
      PROVE  MapMoves(l) /\ Told /\ StageOK(l)'
  BY <1>1, <1>2, <1>3, <1>4, <1>8 DEF Launches!Verify, StageOK
<1>9. ASSUME Launches!Submit(l)
      PROVE  MapMoves(l) /\ Told /\ StageOK(l)'
  BY <1>1, <1>2, <1>3, <1>4, <1>9 DEF Launches!Submit, Launches!SubmitFails, StageOK
<1>10. ASSUME Launches!Cleanup(l)
       PROVE  MapMoves(l) /\ Told /\ StageOK(l)'
  BY <1>1, <1>2, <1>3, <1>4, <1>10 DEF Launches!Cleanup, StageOK
<1> QED
  BY <1>5, <1>6, <1>7, <1>8, <1>9, <1>10 DEF StepOK

(* The steps of a worktree: who hears of it, what its POST is answered.           *)
LEMMA TreeSteps ==
  ASSUME LaunchOK, NEW l \in Launches!Launches,
         \/ Launches!MakeTree(l) \/ Launches!TreeReady(l) \/ Launches!TreeFails(l)
         \/ Launches!TreeAnswer(l) \/ Launches!TreeTimeout(l)
  PROVE  StepOK(l)
<1> USE DEF Launches!aside
<1>1. /\ Launches!Running(l) /\ launch[l].pc \in {"worktree", "ready"}
      /\ UNCHANGED <<kind, evicted>> /\ UNCHANGED session
  BY DEF Launches!Running, Launches!MakeTree, Launches!TreeReady, Launches!TreeFails,
         Launches!TreeAnswer, Launches!TreeTimeout
<1>2. /\ launch[l] \in LaunchRecords /\ kind \in {"child", "root"} /\ StageOK(l)
      /\ \A at \in Places : Launches!Goes(l, at) =>
           MapMoves(l) /\ launch'[l].pc = at /\ launch'[l].stage = launch[l].stage
      /\ UNCHANGED <<entries, launch, request>> => MapMoves(l)
      /\ \A stage \in Launches!Stages : Launches!Fails(l, stage) =>
           MapMoves(l) /\ launch'[l].pc = "failed" /\ launch'[l].stage = stage
  BY <1>1, LaunchMoves
<1>3. /\ TreesTyped /\ session[l] = "none" /\ tree[l] \in {"none", "made", "ready", "failed"}
      /\ DOMAIN tree = Launches!Launches /\ DOMAIN buffered = Launches!Launches
      /\ \A k \in Launches!Launches : buffered[k] \subseteq Launches!Launches
      /\ launch \in [Launches!Launches -> LaunchRecords]
  BY <1>1, <1>2 DEF LaunchOK, TreesTyped, StageOK, MapTyped
<1>4. /\ {"create", "ready"} \subseteq Places
      /\ {"worktree", "timeout"} \subseteq Launches!Stages
  BY DEF Places, Launches!Stages
<1> DEFINE Grown == /\ \/ tree' = tree
                       \/ \E t \in {"made", "ready", "failed"} : tree' = [tree EXCEPT ![l] = t]
                    /\ \/ buffered' = [k \in Launches!Launches |->
                            IF launch[k].pc = "worktree" THEN buffered[k] \union {l} ELSE buffered[k]]
                       \/ buffered' = [buffered EXCEPT ![l] = {}]
                       \/ buffered' = buffered
<1>5. ASSUME Grown
      PROVE  TreesTyped' /\ OthersStay(l)
  <2>1. tree' \in [Launches!Launches -> {"none", "made", "ready", "failed"}]
    BY <1>3, <1>5 DEF TreesTyped
  <2>2. buffered' \in [Launches!Launches -> SUBSET Launches!Launches]
    BY <1>3, <1>5 DEF TreesTyped
  <2>3. \A k \in Launches!Launches : k # l => tree'[k] = tree[k]
    BY <1>3, <1>5
  <2>4. \A k \in Launches!Launches : k # l /\ k \in buffered[k] => k \in buffered'[k]
    BY <1>3, <1>5
  <2> QED
    BY <1>1, <1>3, <2>1, <2>2, <2>3, <2>4 DEF TreesTyped, OthersStay
<1>6. ASSUME Launches!MakeTree(l)
      PROVE  MapMoves(l) /\ Grown /\ StageOK(l)'
  BY <1>1, <1>2, <1>3, <1>4, <1>6 DEF Launches!MakeTree, StageOK
<1>7. ASSUME Launches!TreeReady(l)
      PROVE  MapMoves(l) /\ Grown /\ StageOK(l)'
  <2>1. /\ tree' = [tree EXCEPT ![l] = "ready"] /\ UNCHANGED <<entries, request>>
        /\ launch' = [k \in Launches!Launches |->
              IF k # l \/ launch[k].pc # "ready" THEN launch[k] ELSE [launch[k] EXCEPT !.pc = "create"]]
        /\ Grown
    BY <1>7 DEF Launches!TreeReady, Launches!Hear
  <2>2. /\ launch'[l].pc = (IF launch[l].pc = "ready" THEN "create" ELSE "worktree")
        /\ launch'[l].stage = launch[l].stage /\ launch'[l] \in LaunchRecords
        /\ \A k \in Launches!Launches : k # l => launch'[k] = launch[k]
    BY <1>1, <1>2, <2>1 DEF LaunchRecords
  <2>3. launch' \in [Launches!Launches -> LaunchRecords]
    BY <1>3, <2>1, <2>2
  <2>4. MapMoves(l)
    BY <1>1, <2>1, <2>2, <2>3, GoesMoves
  <2>5. launch[l].pc = "worktree" => l \in buffered'[l]
    BY <1>7 DEF Launches!TreeReady, Launches!Hear
  <2>6. tree'[l] = "ready" /\ session'[l] = "none" /\ launch'[l].stage = None
    BY <1>1, <1>2, <1>3, <2>1, <2>2 DEF StageOK
  <2>7. StageOK(l)'
    BY <1>1, <2>2, <2>5, <2>6, LaunchWords DEF StageOK
  <2> QED
    BY <2>1, <2>4, <2>7
<1>8. ASSUME Launches!TreeFails(l)
      PROVE  MapMoves(l) /\ Grown /\ StageOK(l)'
  BY <1>1, <1>2, <1>3, <1>4, <1>8 DEF Launches!TreeFails, StageOK
<1>9. ASSUME Launches!TreeAnswer(l)
      PROVE  MapMoves(l) /\ Grown /\ StageOK(l)'
  BY <1>1, <1>2, <1>3, <1>4, <1>9 DEF Launches!TreeAnswer, StageOK
<1>10. ASSUME Launches!TreeTimeout(l)
       PROVE  MapMoves(l) /\ Grown /\ StageOK(l)'
  BY <1>1, <1>2, <1>3, <1>4, <1>10 DEF Launches!TreeTimeout, StageOK
<1> QED
  BY <1>5, <1>6, <1>7, <1>8, <1>9, <1>10 DEF StepOK

(* A step about a launch keeps everything of the invariant.                       *)
LEMMA StepKeeps ==
  ASSUME LaunchOK, NEW l \in Launches!Launches, StepOK(l)
  PROVE  MapTyped' /\ TreesTyped' /\ Launches!MapIsWhole' /\ \A k \in Launches!Launches : StageOK(k)'
<1>1. Launches!MapIsWhole'
  BY MapStaysWhole DEF StepOK
<1>2. ASSUME NEW k \in Launches!Launches
      PROVE  StageOK(k)'
  <2>1. CASE k = l
    BY <2>1 DEF StepOK
  <2>2. CASE k # l
    BY <2>2 DEF LaunchOK, StepOK, OthersStay, MapMoves, StageOK
  <2> QED
    BY <2>1, <2>2
<1> QED
  BY <1>1, <1>2 DEF StepOK, MapMoves

(* A request that joins a launch, or is turned away, changes only its own row.    *)
LEMMA LaunchJoinKeeps ==
  ASSUME LaunchOK, NEW r \in Launches!Requests, NEW row \in LaunchRequests,
         row.key # None, row.joined # r, request[r].key = None,
         \A q \in 1..(r - 1) : request[q].key # None,
         request' = [request EXCEPT ![r] = row], UNCHANGED <<kind, entries, launch, evicted>>
  PROVE  MapTyped' /\ Launches!MapIsWhole'
<1>2. /\ request \in [Launches!Requests -> LaunchRequests] /\ Launches!MapIsWhole
      /\ entries \in Seq(Entries) /\ MapTyped
  BY DEF LaunchOK, MapTyped
<1>1. MapTyped'
  <2>1. request' \in [Launches!Requests -> LaunchRequests]
    BY <1>2
  <2> QED
    BY <1>2, <2>1 DEF MapTyped, Launches!Limit
<1>3. /\ request'[r] = row
      /\ \A q \in Launches!Requests : q # r => request'[q] = request[q]
  BY <1>2
<1>4. request[r].joined = None
  BY <1>2, LaunchNumbers DEF Launches!MapIsWhole
<1>5. \A i \in DOMAIN entries : /\ entries[i].launch \in Launches!Requests /\ entries[i].launch # r
                                /\ request'[entries[i].launch] = request[entries[i].launch]
  <2> SUFFICES ASSUME NEW i \in DOMAIN entries
               PROVE  /\ entries[i].launch \in Launches!Requests /\ entries[i].launch # r
                      /\ request'[entries[i].launch] = request[entries[i].launch]
    OBVIOUS
  <2>1. entries[i] \in Entries
    BY <1>2
  <2>2. entries[i].launch \in Launches!Requests /\ request[entries[i].launch].joined = entries[i].launch
    BY <1>2, <2>1, LaunchNumbers DEF Entries, Launches!MapIsWhole
  <2>3. entries[i].launch # r
    BY <1>4, <2>2, LaunchNumbers
  <2> QED
    BY <1>3, <2>2, <2>3
<1>6. \A i \in DOMAIN entries' :
        /\ request'[entries'[i].launch].joined = entries'[i].launch
        /\ request'[entries'[i].launch].key = entries'[i].key
        /\ entries'[i].settled => ~Launches!Running(entries[i].launch)'
  BY <1>2, <1>5 DEF Launches!MapIsWhole, Launches!Running
<1>7. ASSUME NEW k \in Launches!Launches
      PROVE  /\ launch'[k].pc # "free" <=> request'[k].joined = k
             /\ request'[k].joined = k =>
                  Launches!Replaceable(k)' \/ \E j \in DOMAIN entries' : entries'[j].launch = k
             /\ k \in evicted' => launch'[k].pc \in {"done", "failed"}
             /\ request'[k].joined # None => request'[k].key # None
  <2>1. /\ launch[k].pc # "free" <=> request[k].joined = k
        /\ request[k].joined = k =>
             Launches!Replaceable(k) \/ \E i \in DOMAIN entries : entries[i].launch = k
        /\ k \in evicted => launch[k].pc \in {"done", "failed"}
        /\ request[k].joined # None => request[k].key # None
    BY <1>2 DEF Launches!MapIsWhole
  <2>2. CASE k = r
    BY <1>3, <1>4, <2>1, <2>2, LaunchNumbers
  <2>3. CASE k # r
    BY <1>3, <2>1, <2>3, LaunchNumbers DEF Launches!Replaceable
  <2> QED
    BY <2>2, <2>3
<1>8. \A p, q \in Launches!Requests : p < q /\ request'[q].key # None => request'[p].key # None
  BY <1>2, <1>3, LaunchNumbers DEF Launches!MapIsWhole
<1>9. \A k, m \in Launches!Launches : Launches!Twins(k, m)' /\ k < m => Launches!Replaceable(k)'
  <2> SUFFICES ASSUME NEW k \in Launches!Launches, NEW m \in Launches!Launches,
                      Launches!Twins(k, m)', k < m
               PROVE  Launches!Replaceable(k)'
    OBVIOUS
  <2>1. k # r /\ m # r
    BY <1>3 DEF Launches!Twins
  <2>2. Launches!Twins(k, m)
    BY <1>3, <2>1, LaunchNumbers DEF Launches!Twins
  <2>3. Launches!Replaceable(k)
    BY <1>2, <2>2 DEF Launches!MapIsWhole
  <2> QED
    BY <2>3 DEF Launches!Replaceable
<1>10. \A i, j \in DOMAIN entries' : entries'[i].key = entries'[j].key => i = j
  BY <1>2 DEF Launches!MapIsWhole
<1> QED
  BY <1>1, <1>6, <1>7, <1>8, <1>9, <1>10 DEF Launches!MapIsWhole

\* The map once the oldest settled entry made room, when it was full.
Full == Len(entries) >= Launches!Limit
Kept == IF Full /\ Launches!Victim # {}
          THEN Launches!RemoveAt(entries, CHOOSE i \in Launches!Victim : TRUE) ELSE entries

(* What makes room is a settled launch, and nothing else is lost.                 *)
LEMMA RoomIsMade ==
  ASSUME LaunchOK, Full => Launches!Victim # {},
         evicted' = evicted \union {entries[i].launch : i \in {i \in Launches!Victim : Full}}
  PROVE  /\ Kept \in Seq(Entries) /\ Len(Kept) + 1 <= Launches!Limit
         /\ \A i, j \in DOMAIN Kept : Kept[i].key = Kept[j].key => i = j
         /\ \A j \in DOMAIN Kept : \E i \in DOMAIN entries : Kept[j] = entries[i]
         /\ \A i \in DOMAIN entries :
              entries[i].launch \in evicted' \/ \E j \in DOMAIN Kept : Kept[j] = entries[i]
         /\ evicted \subseteq evicted'
         /\ \A l \in evicted' : l \in Launches!Launches /\ launch[l].pc \in {"done", "failed"}
<1>1. /\ entries \in Seq(Entries) /\ Len(entries) \in Nat /\ DOMAIN entries = 1..Len(entries)
      /\ Len(entries) <= Launches!Limit /\ Launches!Limit \in Nat
      /\ \A i, j \in DOMAIN entries : entries[i].key = entries[j].key => i = j
      /\ evicted \subseteq Launches!Launches /\ launch \in [Launches!Launches -> LaunchRecords]
      /\ \A l \in Launches!Launches : l \in evicted => launch[l].pc \in {"done", "failed"}
  BY LaunchNumbers DEF LaunchOK, MapTyped, Launches!MapIsWhole
<1>2. ASSUME NEW i \in Launches!Victim
      PROVE  /\ i \in 1..Len(entries) /\ i \in DOMAIN entries
             /\ entries[i].launch \in Launches!Launches
             /\ launch[entries[i].launch].pc \in {"done", "failed"}
  <2>1. i \in DOMAIN entries /\ entries[i].settled
    BY <1>1 DEF Launches!Victim
  <2>2. entries[i] \in Entries
    BY <1>1, <2>1
  <2>3. entries[i].launch \in Launches!Launches
    BY <2>2 DEF Entries
  <2>4. /\ request[entries[i].launch].joined = entries[i].launch
        /\ ~Launches!Running(entries[i].launch)
    BY <2>1 DEF LaunchOK, Launches!MapIsWhole
  <2>5. launch[entries[i].launch].pc # "free"
    BY <2>3, <2>4 DEF LaunchOK, Launches!MapIsWhole
  <2> QED
    BY <1>1, <2>1, <2>3, <2>4, <2>5 DEF Launches!Running
<1>3. \A l \in evicted' : l \in Launches!Launches /\ launch[l].pc \in {"done", "failed"}
  BY <1>1, <1>2
<1>4. CASE ~Full
  <2>1. Kept = entries
    BY <1>4 DEF Kept
  <2>2. Len(entries) + 1 <= Launches!Limit
    BY <1>1, <1>4 DEF Full
  <2> QED
    BY <1>1, <1>3, <2>1, <2>2
<1>5. CASE Full
  <2>1. PICK n \in Launches!Victim : Kept = Launches!RemoveAt(entries, n)
    BY <1>5 DEF Kept
  <2>2. n \in 1..Len(entries) /\ n \in DOMAIN entries /\ entries[n].launch \in evicted'
    BY <1>2, <1>5
  <2>3. /\ Kept \in Seq(Entries) /\ Len(Kept) = Len(entries) - 1
        /\ \A j \in DOMAIN Kept : \E i \in DOMAIN entries :
              i # n /\ Kept[j] = entries[i] /\ i = IF j < n THEN j ELSE j + 1
        /\ \A i \in DOMAIN entries : i # n => \E j \in DOMAIN Kept : Kept[j] = entries[i]
    <3>1. entries \in Seq(Entries)
      BY <1>1
    <3> QED
      BY <2>1, <2>2, <3>1, RemovedFacts
  <2>4. \A j, k \in DOMAIN Kept : Kept[j].key = Kept[k].key => j = k
    <3> SUFFICES ASSUME NEW j \in DOMAIN Kept, NEW k \in DOMAIN Kept, Kept[j].key = Kept[k].key
                 PROVE  j = k
      OBVIOUS
    <3>1. PICK i \in DOMAIN entries : Kept[j] = entries[i] /\ i = IF j < n THEN j ELSE j + 1
      BY <2>3
    <3>2. PICK h \in DOMAIN entries : Kept[k] = entries[h] /\ h = IF k < n THEN k ELSE k + 1
      BY <2>3
    <3>3. i = h
      BY <1>1, <3>1, <3>2
    <3>4. j \in Nat /\ k \in Nat
      <4>1. DOMAIN Kept = 1..Len(Kept) /\ Len(Kept) \in Nat
        BY <2>3
      <4> QED
        BY <4>1
    <3>5. n \in Nat
      BY <1>1, <2>2
    <3> QED
      BY <3>1, <3>2, <3>3, <3>4, <3>5
  <2>5. Len(Kept) + 1 <= Launches!Limit
    BY <1>1, <2>3
  <2>6. \A i \in DOMAIN entries :
          entries[i].launch \in evicted' \/ \E j \in DOMAIN Kept : Kept[j] = entries[i]
    BY <2>2, <2>3
  <2>7. \A j \in DOMAIN Kept : \E i \in DOMAIN entries : Kept[j] = entries[i]
    BY <2>3
  <2> QED
    BY <1>3, <2>3, <2>4, <2>5, <2>6, <2>7
<1> QED
  BY <1>4, <1>5

(* A request whose key the map does not have begins a launch.                     *)
LEMMA BeginKeeps ==
  ASSUME LaunchOK, NEW r \in Launches!Requests, NEW row \in LaunchRequests, NEW entry \in Entries,
         NEW at \in {"policy", "worktree", "create"}, Full => Launches!Victim # {},
         request[r].key = None, \A q \in 1..(r - 1) : request[q].key # None,
         row.key # None, row.joined = r, entry.launch = r, entry.key = row.key, ~entry.settled,
         \A i \in DOMAIN entries : entries[i].key # row.key,
         request' = [request EXCEPT ![r] = row], entries' = Append(Kept, entry),
         launch' = [launch EXCEPT ![r].pc = at],
         evicted' = evicted \union {entries[i].launch : i \in {i \in Launches!Victim : Full}},
         kind' = kind, UNCHANGED <<session, tree, buffered>>
  PROVE  MapTyped' /\ Launches!MapIsWhole' /\ StageOK(r)'
<1>1. /\ request \in [Launches!Requests -> LaunchRequests] /\ Launches!MapIsWhole
      /\ launch \in [Launches!Launches -> LaunchRecords] /\ launch[r] \in LaunchRecords
      /\ entries \in Seq(Entries) /\ StageOK(r) /\ kind \in {"child", "root"}
  BY LaunchNumbers DEF LaunchOK, MapTyped
<1>2. /\ request'[r] = row
      /\ \A q \in Launches!Requests : q # r => request'[q] = request[q]
  BY <1>1
<1>3. request[r].joined = None /\ launch[r].pc = "free"
  BY <1>1, LaunchNumbers DEF Launches!MapIsWhole
<1>4. /\ launch'[r].pc = at /\ launch'[r].stage = launch[r].stage
      /\ \A k \in Launches!Launches : k # r => launch'[k] = launch[k]
      /\ launch' \in [Launches!Launches -> LaunchRecords]
  BY <1>1, LaunchNumbers DEF LaunchRecords
<1>5. /\ Kept \in Seq(Entries) /\ Len(Kept) + 1 <= Launches!Limit
      /\ \A i, j \in DOMAIN Kept : Kept[i].key = Kept[j].key => i = j
      /\ \A j \in DOMAIN Kept : \E i \in DOMAIN entries : Kept[j] = entries[i]
      /\ \A i \in DOMAIN entries :
           entries[i].launch \in evicted' \/ \E j \in DOMAIN Kept : Kept[j] = entries[i]
      /\ evicted \subseteq evicted'
      /\ \A l \in evicted' : l \in Launches!Launches /\ launch[l].pc \in {"done", "failed"}
  BY RoomIsMade
<1> HIDE DEF Kept, Full
<1>6. /\ entries' \in Seq(Entries) /\ Len(entries') = Len(Kept) + 1
      /\ \A i \in DOMAIN Kept : i \in DOMAIN entries' /\ i # Len(Kept) + 1 /\ entries'[i] = Kept[i]
      /\ Len(Kept) + 1 \in DOMAIN entries' /\ entries'[Len(Kept) + 1] = entry
      /\ \A i \in DOMAIN entries' : i \in DOMAIN Kept \/ i = Len(Kept) + 1
  <2>1. Len(entries') = Len(Kept) + 1
    BY <1>5
  <2> QED
    BY <1>5, <2>1, AppendFacts
<1>7. MapTyped'
  <2>1. Len(entries') <= Launches!Limit'
    BY <1>5, <1>6 DEF Launches!Limit
  <2>2. evicted' \subseteq Launches!Launches
    BY <1>5
  <2>3. request' \in [Launches!Requests -> LaunchRequests]
    BY <1>1
  <2> QED
    BY <1>1, <1>4, <1>6, <2>1, <2>2, <2>3 DEF MapTyped
<1>8. StageOK(r)'
  BY <1>1, <1>3, <1>4, LaunchWords DEF StageOK
<1>9. \A i \in DOMAIN entries :
        /\ entries[i].launch \in Launches!Requests /\ entries[i].launch # r
        /\ request[entries[i].launch].joined = entries[i].launch
        /\ request[entries[i].launch].key = entries[i].key
        /\ entries[i].settled => ~Launches!Running(entries[i].launch)
  <2> SUFFICES ASSUME NEW i \in DOMAIN entries
               PROVE  /\ entries[i].launch \in Launches!Requests /\ entries[i].launch # r
                      /\ request[entries[i].launch].joined = entries[i].launch
                      /\ request[entries[i].launch].key = entries[i].key
                      /\ entries[i].settled => ~Launches!Running(entries[i].launch)
    OBVIOUS
  <2>1. entries[i] \in Entries
    BY <1>1
  <2>2. /\ entries[i].launch \in Launches!Requests
        /\ request[entries[i].launch].joined = entries[i].launch
        /\ request[entries[i].launch].key = entries[i].key
        /\ entries[i].settled => ~Launches!Running(entries[i].launch)
    BY <1>1, <2>1, LaunchNumbers DEF Entries, Launches!MapIsWhole
  <2>3. entries[i].launch # r
    BY <1>3, <2>2, LaunchNumbers
  <2> QED
    BY <2>2, <2>3
<1>10. \A i, j \in DOMAIN entries' : entries'[i].key = entries'[j].key => i = j
  BY <1>5, <1>6
<1>11. ASSUME NEW j \in DOMAIN entries'
       PROVE  /\ request'[entries'[j].launch].joined = entries'[j].launch
              /\ request'[entries'[j].launch].key = entries'[j].key
              /\ entries'[j].settled => launch'[entries'[j].launch].pc \in {"free", "done", "failed"}
  <2>1. CASE j = Len(Kept) + 1
    BY <1>2, <1>6, <2>1
  <2>2. CASE j \in DOMAIN Kept
    <3>1. PICK i \in DOMAIN entries : entries'[j] = entries[i]
      BY <1>5, <1>6, <2>2
    <3> QED
      BY <1>2, <1>4, <1>9, <3>1, LaunchNumbers DEF Launches!Running
  <2> QED
    BY <1>6, <2>1, <2>2
<1>12. \A j \in DOMAIN entries' : entries'[j].settled => ~Launches!Running(entries[j].launch)'
  BY <1>11 DEF Launches!Running
<1>13. ASSUME NEW k \in Launches!Launches
       PROVE  /\ launch'[k].pc # "free" <=> request'[k].joined = k
              /\ request'[k].joined = k =>
                   Launches!Replaceable(k)' \/ \E j \in DOMAIN entries' : entries'[j].launch = k
              /\ k \in evicted' => launch'[k].pc \in {"done", "failed"}
              /\ request'[k].joined # None => request'[k].key # None
  <2>1. CASE k = r
    <3>1. \E j \in DOMAIN entries' : entries'[j].launch = k
      BY <1>6, <2>1
    <3>2. k \notin evicted'
      BY <1>3, <1>5, <2>1
    <3> QED
      BY <1>2, <1>4, <2>1, <3>1, <3>2
  <2>2. CASE k # r
    <3>1. /\ launch[k].pc # "free" <=> request[k].joined = k
          /\ request[k].joined = k =>
               Launches!Replaceable(k) \/ \E i \in DOMAIN entries : entries[i].launch = k
          /\ request[k].joined # None => request[k].key # None
      BY <1>1 DEF Launches!MapIsWhole
    <3>2. request'[k] = request[k] /\ launch'[k] = launch[k]
      BY <1>2, <1>4, <2>2, LaunchNumbers
    <3>3. k \in evicted' => launch'[k].pc \in {"done", "failed"}
      BY <1>5, <3>2
    <3>4. ASSUME request'[k].joined = k
          PROVE  Launches!Replaceable(k)' \/ \E j \in DOMAIN entries' : entries'[j].launch = k
      <4>1. CASE Launches!Replaceable(k)
        BY <1>5, <3>2, <4>1 DEF Launches!Replaceable
      <4>2. CASE \E i \in DOMAIN entries : entries[i].launch = k
        BY <1>5, <1>6, <4>2 DEF Launches!Replaceable
      <4> QED
        BY <3>1, <3>2, <3>4, <4>1, <4>2
    <3> QED
      BY <3>1, <3>2, <3>3, <3>4
  <2> QED
    BY <2>1, <2>2
<1>14. \A p, q \in Launches!Requests : p < q /\ request'[q].key # None => request'[p].key # None
  <2> SUFFICES ASSUME NEW p \in Launches!Requests, NEW q \in Launches!Requests,
                      p < q, request'[q].key # None
               PROVE  request'[p].key # None
    OBVIOUS
  <2>1. CASE q = r
    BY <1>2, <2>1, LaunchNumbers
  <2>2. CASE q # r
    BY <1>1, <1>2, <2>2 DEF Launches!MapIsWhole
  <2> QED
    BY <2>1, <2>2
<1>15. \A k, m \in Launches!Launches : Launches!Twins(k, m)' /\ k < m => Launches!Replaceable(k)'
  <2> SUFFICES ASSUME NEW k \in Launches!Launches, NEW m \in Launches!Launches,
                      Launches!Twins(k, m)', k < m
               PROVE  Launches!Replaceable(k)'
    OBVIOUS
  <2>1. k # r
    <3> SUFFICES ASSUME k = r
                 PROVE  FALSE
      OBVIOUS
    <3>1. request[m].key # None
      BY <1>2, LaunchNumbers DEF Launches!Twins
    <3> QED
      BY <1>1, <3>1, LaunchNumbers DEF Launches!MapIsWhole
  <2>2. CASE m = r
    <3>1. request[k].joined = k /\ request[k].key = row.key
      BY <1>2, <2>1, <2>2, LaunchNumbers DEF Launches!Twins
    <3>2. Launches!Replaceable(k)
      BY <1>1, <1>9, <3>1 DEF Launches!MapIsWhole
    <3> QED
      BY <1>4, <1>5, <2>1, <3>2 DEF Launches!Replaceable
  <2>3. CASE m # r
    <3>1. Launches!Twins(k, m)
      BY <1>2, <2>1, <2>3, LaunchNumbers DEF Launches!Twins
    <3>2. Launches!Replaceable(k)
      BY <1>1, <3>1 DEF Launches!MapIsWhole
    <3> QED
      BY <1>4, <1>5, <2>1, <3>2 DEF Launches!Replaceable
  <2> QED
    BY <2>2, <2>3
<1> QED
  BY <1>7, <1>8, <1>10, <1>11, <1>12, <1>13, <1>14, <1>15 DEF Launches!MapIsWhole

(* A request under a key: joined, refused or begun.                               *)
LEMMA AskKeeps ==
  ASSUME LaunchOK, NEW r \in Launches!Requests, NEW k \in LaunchKeys, NEW b \in Bodies,
         NEW isolated \in BOOLEAN, Launches!Ask(r, k, b, isolated)
  PROVE  /\ MapTyped' /\ Launches!MapIsWhole'
         /\ \A l \in Launches!Launches : StageOK(l)'
<1> DEFINE found == {i \in 1..Len(entries) : entries[i].key = k}
           row(l, answer) == [key |-> k, body |-> b, joined |-> l, answer |-> answer]
<1>1. /\ request[r].key = None /\ \A q \in 1..(r - 1) : request[q].key # None
      /\ UNCHANGED <<kind, session, tree, buffered>>
  BY DEF Launches!Ask
<1>2. /\ request \in [Launches!Requests -> LaunchRequests] /\ entries \in Seq(Entries)
      /\ launch \in [Launches!Launches -> LaunchRecords] /\ DOMAIN entries = 1..Len(entries)
      /\ \A l \in Launches!Launches : StageOK(l)
      /\ \A i \in DOMAIN entries : request[entries[i].launch].joined = entries[i].launch
      /\ request[r].joined = None /\ k # None
  BY <1>1, LaunchNumbers DEF LaunchOK, MapTyped, Launches!MapIsWhole
<1>3. ASSUME NEW l \in Launches!Launches \union {None}, NEW answer \in Launches!Answers \union {None}
      PROVE  row(l, answer) \in LaunchRequests /\ row(l, answer).key = k /\ row(l, answer).joined = l
  BY DEF LaunchRequests
<1>4. ASSUME NEW i \in found,
             LET l == entries[i].launch IN
               request' = [request EXCEPT ![r] =
                 IF entries[i].body # b THEN row(None, "conflict")
                 ELSE row(l, CASE launch[l].pc = "done" -> "accepted"
                               [] launch[l].pc = "failed" -> launch[l].stage
                               [] OTHER -> None)],
             UNCHANGED <<entries, launch, evicted>>
      PROVE  \E l \in Launches!Launches \union {None}, answer \in Launches!Answers \union {None} :
               request' = [request EXCEPT ![r] = row(l, answer)] /\ l # r
  <2> DEFINE l == entries[i].launch
             answer == CASE launch[l].pc = "done" -> "accepted"
                         [] launch[l].pc = "failed" -> launch[l].stage
                         [] OTHER -> None
  <2>1. entries[i] \in Entries
    BY <1>2
  <2>2. l \in Launches!Launches /\ l # r
    BY <1>2, <2>1, LaunchNumbers DEF Entries
  <2>3. launch[l] \in LaunchRecords
    BY <1>2, <2>2
  <2>4. answer \in Launches!Answers \union {None}
    BY <2>3 DEF LaunchRecords, Launches!Answers
  <2>5. CASE entries[i].body # b
    <3>1. request' = [request EXCEPT ![r] = row(None, "conflict")]
      BY <1>4, <2>5
    <3>2. "conflict" \in Launches!Answers /\ None # r
      BY LaunchNumbers DEF Launches!Answers
    <3> QED
      BY <3>1, <3>2
  <2>6. CASE entries[i].body = b
    <3>1. request' = [request EXCEPT ![r] = row(l, answer)]
      BY <1>4, <2>6
    <3> HIDE DEF l, answer, row
    <3> QED
      BY <2>2, <2>4, <3>1
  <2> QED
    BY <2>5, <2>6
<1>5. ASSUME NEW l \in Launches!Launches \union {None}, NEW answer \in Launches!Answers \union {None},
             request' = [request EXCEPT ![r] = row(l, answer)], l # r,
             UNCHANGED <<entries, launch, evicted>>
      PROVE  MapTyped' /\ Launches!MapIsWhole' /\ \A m \in Launches!Launches : StageOK(m)'
  <2>1. MapTyped' /\ Launches!MapIsWhole'
    <3>1. row(l, answer) \in LaunchRequests /\ row(l, answer).key = k /\ row(l, answer).joined = l
      BY <1>3
    <3> HIDE DEF row
    <3> QED
      BY <1>1, <1>2, <1>5, <3>1, LaunchJoinKeeps
  <2>2. \A m \in Launches!Launches : StageOK(m)'
    BY <1>1, <1>2, <1>5 DEF StageOK
  <2> QED
    BY <2>1, <2>2
<1>6. ASSUME found = {}, Full => Launches!Victim # {}, NEW at \in {"policy", "worktree", "create"},
             entries' = Append(Kept, [key |-> k, body |-> b, launch |-> r, settled |-> FALSE]),
             evicted' = evicted \union {entries[i].launch : i \in {i \in Launches!Victim : Full}},
             launch' = [launch EXCEPT ![r].pc = at],
             request' = [request EXCEPT ![r] = row(r, None)]
      PROVE  MapTyped' /\ Launches!MapIsWhole' /\ \A m \in Launches!Launches : StageOK(m)'
  <2> DEFINE entry == [key |-> k, body |-> b, launch |-> r, settled |-> FALSE]  new == row(r, None)
  <2>1. /\ entry \in Entries /\ entry.launch = r /\ entry.key = k /\ ~entry.settled
        /\ r \in Launches!Launches
    BY LaunchNumbers DEF Entries
  <2>2. new \in LaunchRequests /\ new.key = k /\ new.joined = r
    BY <1>3, <2>1
  <2>3. entries' = Append(Kept, entry) /\ request' = [request EXCEPT ![r] = new]
    BY <1>6
  <2>4. \A i \in DOMAIN entries : entries[i].key # k
    BY <1>2, <1>6
  <2> HIDE DEF entry, new
  <2>5. MapTyped' /\ Launches!MapIsWhole' /\ StageOK(r)'
    <3>1. /\ new.key # None /\ entry.key = new.key
          /\ \A i \in DOMAIN entries : entries[i].key # new.key
      BY <1>2, <2>1, <2>2, <2>4
    <3>2. kind' = kind /\ UNCHANGED <<session, tree, buffered>>
      BY <1>1
    <3> QED
      BY <1>1, <1>6, <2>1, <2>2, <2>3, <3>1, <3>2, BeginKeeps
  <2>6. \A m \in Launches!Launches : m # r => StageOK(m)'
    BY <1>1, <1>2, <1>6 DEF StageOK
  <2> QED
    BY <2>5, <2>6
<1>7. \/ \E i \in found :
           LET l == entries[i].launch IN
             /\ request' = [request EXCEPT ![r] =
                  IF entries[i].body # b THEN row(None, "conflict")
                  ELSE row(l, CASE launch[l].pc = "done" -> "accepted"
                                [] launch[l].pc = "failed" -> launch[l].stage
                                [] OTHER -> None)]
             /\ UNCHANGED <<entries, launch, evicted>>
      \/ /\ request' = [request EXCEPT ![r] = row(None, "capacity")]
         /\ UNCHANGED <<entries, launch, evicted>>
      \/ /\ found = {} /\ (Full => Launches!Victim # {})
         /\ entries' = Append(Kept, [key |-> k, body |-> b, launch |-> r, settled |-> FALSE])
         /\ evicted' = evicted \union {entries[i].launch : i \in {i \in Launches!Victim : Full}}
         /\ \E at \in {"policy", "worktree", "create"} : launch' = [launch EXCEPT ![r].pc = at]
         /\ request' = [request EXCEPT ![r] = row(r, None)]
  BY DEF Launches!Ask, Full, Kept
<1>8. "capacity" \in Launches!Answers /\ None # r
  BY LaunchNumbers DEF Launches!Answers
<1> HIDE DEF row, found
<1> QED
  BY <1>4, <1>5, <1>6, <1>7, <1>8

(* Every step of the launches keeps their invariant, and it holds at first.       *)
LEMMA LaunchStep ==
  ASSUME Launches!TypeOK, Launches!LaunchInv, Launches!Next \/ UNCHANGED launchesVars
  PROVE  Launches!TypeOK' /\ Launches!LaunchInv'
<1>1. LaunchOK
  BY LaunchParts
<1>2. ASSUME NEW l \in Launches!Launches, Launches!Step(l)
      PROVE  LaunchOK'
  <2>1. StepOK(l)
    BY <1>1, <1>2, CallSteps, TreeSteps DEF Launches!Step
  <2>2. launchFaults' \in 0..LaunchFaults
    BY <1>1, <1>2, ServicesAssumption
       DEF LaunchOK, Launches!Step, Launches!Fault, Launches!NoFault, Launches!Policy,
           Launches!Create, Launches!Verify, Launches!Submit, Launches!Cleanup,
           Launches!MakeTree, Launches!TreeReady, Launches!TreeFails, Launches!TreeAnswer,
           Launches!TreeTimeout
  <2> QED
    BY <1>1, <2>1, <2>2, StepKeeps DEF LaunchOK
<1>3. ASSUME NEW r \in Launches!Requests, NEW k \in LaunchKeys, NEW b \in Bodies,
             NEW i \in BOOLEAN, Launches!Ask(r, k, b, i)
      PROVE  LaunchOK'
  <2>1. /\ MapTyped' /\ Launches!MapIsWhole'
        /\ \A l \in Launches!Launches : StageOK(l)'
    BY <1>1, <1>3, AskKeeps
  <2>2. TreesTyped' /\ launchFaults' \in 0..LaunchFaults
    BY <1>1, <1>3 DEF Launches!Ask, Launches!NoFault, LaunchOK, TreesTyped
  <2> QED
    BY <2>1, <2>2 DEF LaunchOK
<1>4. ASSUME UNCHANGED launchesVars
      PROVE  LaunchOK'
  BY <1>1, <1>4 DEF launchesVars, LaunchOK, MapTyped, TreesTyped, Launches!MapIsWhole, StageOK,
                    Launches!Limit, Launches!Running, Launches!Replaceable, Launches!Twins
<1>5. LaunchOK'
  BY <1>2, <1>3, <1>4 DEF Launches!Next, Launches!Work
<1>6. Launches!TypeOK' /\ Launches!LaunchInv' <=> LaunchOK'
  BY LaunchParts, PTL
<1> QED
  BY <1>5, <1>6

(* At first no request was made.                                                  *)
LEMMA LaunchStart ==
  Launches!Init => Launches!TypeOK /\ Launches!LaunchInv
<1> SUFFICES ASSUME Launches!Init
             PROVE  LaunchOK
  BY LaunchParts
<1>1. MapTyped /\ TreesTyped /\ launchFaults \in 0..LaunchFaults
  BY LaunchNumbers, ServicesAssumption
     DEF Launches!Init, Launches!Idle, MapTyped, TreesTyped, LaunchRecords, LaunchRequests
<1>2. Launches!MapIsWhole
  BY LaunchNumbers DEF Launches!Init, Launches!Idle, Launches!MapIsWhole, Launches!Twins
<1>3. \A l \in Launches!Launches : StageOK(l)
  BY LaunchWords DEF Launches!Init, Launches!Idle, StageOK
<1> QED
  BY <1>1, <1>2, <1>3 DEF LaunchOK

(* A key in flight is launched once, its prompt given once while its entry stands, *)
(* a session is made in a ready worktree only and a leftover is named: for any     *)
(* number of keys, requests and failed calls, and any limits of the two maps.      *)
THEOREM LaunchedOnce == Spec => []LaunchInv
<1>1. Init => LaunchInv
  BY LaunchStart DEF Init, LaunchInv
<1>2. LaunchInv /\ [Next]_vars => LaunchInv'
  <2> SUFFICES ASSUME LaunchInv, [Next]_vars, moves' = "launches"
               PROVE  Launches!TypeOK' /\ Launches!LaunchInv'
    BY DEF LaunchInv
  <2>1. /\ moves' = moves
        /\ moves = "launches" => Launches!Next \/ UNCHANGED launchesVars
    BY OneServiceMoves
  <2> QED
    BY <2>1, LaunchStep DEF LaunchInv
<1> QED
  BY <1>1, <1>2, PTL DEF Spec
================================================================================
