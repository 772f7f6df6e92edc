----------------------------- MODULE SessionPrompts -----------------------------
(* Prompting opencode sessions: the lock per session, the Plan or Build policy   *)
(* that is put on the session before a prompt is submitted, prompts addressed to *)
(* the agent a session already has, and prompts to managed children.             *)
(* server/opencode/sessions.ts, POST /sessions/:id/prompt in routes/sessions.ts  *)
EXTENDS Naturals, FiniteSets

CONSTANTS
  Sessions,   \* sessions of one directory
  MaxRequests,\* bound: prompt requests, numbered as they arrive
  Tools,      \* tools outside the Plan allowlist
  Agent,      \* an agent that is neither plan nor build
  MaxFaults,  \* bound: upstream answers that fail or get lost, tools that change
  None

Requests == 1..MaxRequests

Modes == {"plan", "build"}
Paths == Modes \union {"agent", "managed"}
Agents == Modes \union {Agent, None}
Config == {"none", "verified", "broken"}   \* managedConfigurationPresent, and it verifies
Catalogues == (SUBSET Tools) \ {{}}

VARIABLES
  alive,      \* sessions opencode has
  denied,     \* denied[s]: tools whose last matching rule denies
  suffix,     \* suffix[s]: the rules last appended, <<mode, catalogue>>, or None
  recorded,   \* recorded[s]: the session record's agent
  lastUser,   \* lastUser[s]: the agent of the latest user message
  config,     \* config[s]: the managed configuration it was created with
  catalogue,  \* the restricted tools opencode offers now
  tail,       \* tail[s]: sessionPromptTails, the request last in line, or None
  req,        \* req[r]: where a request stands
  sent,       \* submissions, with what held of the session when it was sent
  faults

upstream == <<alive, denied, suffix, recorded, lastUser, config, catalogue>>
vars == <<upstream, tail, req, sent, faults>>

\* A waiter remembers the tail it found; a holder remembers what it read.
Fresh == [pc |-> "new", session |-> None, path |-> None, prev |-> None, tools |-> {}]

Init ==
  /\ alive = Sessions /\ catalogue \in Catalogues
  /\ config \in [Sessions -> Config]
  /\ denied = [s \in Sessions |-> {}] /\ suffix = [s \in Sessions |-> None]
  /\ recorded \in [Sessions -> Agents] /\ lastUser \in [Sessions -> {Agent, None}]
  /\ tail = [s \in Sessions |-> None] /\ req = [r \in Requests |-> Fresh]
  /\ sent = {} /\ faults = 0

Ended(r) == req[r].pc \in {"accepted", "failed"}
Identity(s) == {recorded[s], lastUser[s]} \ {None}   \* drivingAgents
Effective(s, tools) == [denied |-> denied[s] \intersect tools, agents |-> Identity(s)]

Fault == faults < MaxFaults /\ faults' = faults + 1
NoFault == UNCHANGED faults
Go(r, pc) == req' = [req EXCEPT ![r].pc = pc] /\ UNCHANGED tail

\* Mutant: the last in line is forgotten whoever leaves.
ForgetTail(r) == tail' = [tail EXCEPT ![req[r].session] = None]

\* finally: only the last in line takes the lock's entry away.
Release(r) ==
  LET s == req[r].session IN
    tail' = IF tail[s] = r THEN [tail EXCEPT ![s] = None] ELSE tail

\* The request is answered, and the next in line may start.
Answer(r, pc) == req' = [req EXCEPT ![r].pc = pc] /\ Release(r)

\* The request names a session; what the session record says selects the path. A
\* managed child that no longer verifies is refused before it takes the lock.
Join(r, s) ==
  /\ req[r].pc = "new" /\ s \in alive /\ \A q \in 1..(r - 1) : req[q].pc # "new"
  /\ \E path \in Paths :
       /\ path = "managed" <=> config[s] # "none"
       /\ IF config[s] = "broken"
            THEN Go(r, "failed")
            ELSE /\ req' = [req EXCEPT ![r] = [pc |-> "waiting", session |-> s,
                              path |-> path, prev |-> tail[s], tools |-> {}]]
                 /\ tail' = [tail EXCEPT ![s] = r]
  /\ UNCHANGED <<upstream, sent>> /\ NoFault

\* resolveManagedChildPolicy, the rule suffix and hasPlanDenial: which rules the
\* mode wants for the tools of the moment, and whether the session needs a patch.
InPlace(s, mode, tools) ==
  \/ suffix[s] = <<mode, tools>>
  \/ mode = "build" /\ denied[s] \intersect tools = {}

Qualifies(r) ==
  LET s == req[r].session IN
    /\ s \in alive
    /\ CASE req[r].path = "agent"   -> Identity(s) = {Agent}
         [] req[r].path = "managed" -> config[s] = "verified"
         [] OTHER                   -> Identity(s) # {} /\ Identity(s) \subseteq Modes

\* Mutant: a request that failed holds up the line.
TurnAfterSuccess(r) == req[r].pc = "waiting" /\ (req[r].prev # None => req[req[r].prev].pc = "accepted")

\* await previous: a request that failed lets the next one in as well.
Turn(r) == req[r].pc = "waiting" /\ (req[r].prev # None => Ended(req[r].prev))

\* activateModePolicy up to the patch, or the checks of promptSessionAgent and
\* promptManagedChild. A read that fails, a policy that does not cover the tools or
\* an agent that is off the roster keeps the prompt from being sent.
Read(r) ==
  LET s == req[r].session  mode == req[r].path IN
    /\ Turn(r)
    /\ \/ ~Qualifies(r) /\ Answer(r, "failed") /\ NoFault
       \/ s \in alive /\ Answer(r, "failed") /\ Fault
       \/ /\ Qualifies(r) /\ NoFault /\ UNCHANGED tail
          /\ req' = [req EXCEPT ![r].tools = catalogue,
                       ![r].pc = IF mode \in Modes /\ ~InPlace(s, mode, catalogue)
                                   THEN "patching" ELSE "sending"]
    /\ UNCHANGED <<upstream, sent>>

\* PATCH appends the rules, the last match wins. It may be refused, and its answer
\* may get lost after it was applied: the prompt is not sent then.
Patch(r) ==
  LET s == req[r].session  tools == req[r].tools
      applied == /\ suffix' = [suffix EXCEPT ![s] = <<req[r].path, tools>>]
                 /\ denied' = [denied EXCEPT ![s] = IF req[r].path = "plan"
                                 THEN @ \union tools ELSE @ \ tools]
  IN /\ req[r].pc = "patching"
     /\ \/ s \in alive /\ applied /\ Go(r, "sending") /\ NoFault
        \/ s \in alive /\ applied /\ Answer(r, "failed") /\ Fault
        \/ s \in alive /\ Answer(r, "failed") /\ Fault /\ UNCHANGED <<suffix, denied>>
        \/ s \notin alive /\ Answer(r, "failed") /\ NoFault /\ UNCHANGED <<suffix, denied>>
     /\ UNCHANGED <<alive, recorded, lastUser, config, catalogue, sent>>

AgentOf(r) ==
  LET s == req[r].session IN
    CASE req[r].path = "agent"   -> Agent
      [] req[r].path = "managed" -> recorded[s]
      [] OTHER                   -> req[r].path

\* submitPromptAsync: accepted, refused, or accepted with the answer lost.
Submit(r) ==
  LET s == req[r].session
      taken == /\ lastUser' = [lastUser EXCEPT ![s] = AgentOf(r)]
               /\ sent' = sent \union {[path |-> req[r].path, tools |-> req[r].tools,
                                        of |-> Effective(s, req[r].tools)]}
  IN /\ req[r].pc = "sending"
     /\ \/ s \in alive /\ taken /\ Answer(r, "accepted") /\ NoFault
        \/ s \in alive /\ taken /\ Answer(r, "failed") /\ Fault
        \/ s \in alive /\ Answer(r, "failed") /\ Fault /\ UNCHANGED <<lastUser, sent>>
        \/ s \notin alive /\ Answer(r, "failed") /\ NoFault /\ UNCHANGED <<lastUser, sent>>
     /\ UNCHANGED <<alive, denied, suffix, recorded, config, catalogue>>

\* The user deletes the session; opencode's tools change with its configuration.
Delete(s) ==
  /\ s \in alive /\ alive' = alive \ {s} /\ Fault
  /\ UNCHANGED <<denied, suffix, recorded, lastUser, config, catalogue, tail, req, sent>>

ConfigChanges ==
  /\ catalogue' \in Catalogues /\ Fault
  /\ UNCHANGED <<alive, denied, suffix, recorded, lastUser, config, tail, req, sent>>

Work == \E r \in Requests : Read(r) \/ Patch(r) \/ Submit(r)

Next == \/ Work \/ ConfigChanges
        \/ \E s \in Sessions : Delete(s) \/ \E r \in Requests : Join(r, s)

Spec == Init /\ [][Next]_vars

\* opencode answers or fails every call, and the chain of promises runs on.
FairSpec == Spec /\ WF_vars(Work)

TypeOK ==
  /\ alive \subseteq Sessions /\ denied \in [Sessions -> SUBSET Tools]
  /\ recorded \in [Sessions -> Agents] /\ lastUser \in [Sessions -> Agents]
  /\ tail \in [Sessions -> Requests \union {None}]
  /\ req \in [Requests -> [pc : {"new", "waiting", "patching", "sending", "accepted", "failed"},
                session : Sessions \union {None}, path : Paths \union {None},
                prev : Requests \union {None}, tools : SUBSET Tools]]
  /\ suffix \in [Sessions -> {None} \union (Modes \X SUBSET Tools)]
  /\ config \in [Sessions -> Config] /\ catalogue \subseteq Tools
  /\ faults \in 0..MaxFaults

Holds(r) == req[r].pc \in {"patching", "sending"}

\* One request at a time is between its turn and its answer, per session, and
\* whoever waits or works has the last in line behind it or is the last itself.
OneAtATime ==
  /\ \A q, r \in Requests : Holds(q) /\ Holds(r) /\ req[q].session = req[r].session => q = r
  /\ \A r \in Requests : req[r].pc = "waiting" \/ Holds(r) => tail[req[r].session] # None

\* A Plan prompt is submitted while every restricted tool it knew of is denied, a
\* Build prompt while none is, whatever prompts, refusals and lost answers came in
\* between (docs/subagents.md:225).
SubmittedUnderOwnPolicy ==
  \A e \in sent : /\ e.path = "plan" => e.of.denied = e.tools
                  /\ e.path = "build" => e.of.denied = {}

\* A prompt never moves a session to an agent of another kind: Plan and Build stay
\* among themselves, a session of another agent is prompted as that agent.
IdentityKept ==
  \A e \in sent : /\ e.path \in Modes => e.of.agents # {} /\ e.of.agents \subseteq Modes
                  /\ e.path = "agent" => e.of.agents = {Agent}

\* Why that is so. Who waits, waits for the one before it in the line, and all that came
\* before that one are answered; the tail is the last that is not answered, if any is.
LineIsOrdered ==
  /\ \A r \in Requests : /\ req[r].pc = "new" => req[r] = Fresh
                         /\ req[r].pc = "waiting" \/ Holds(r) => req[r].session # None
                         /\ req[r].session # None => req[r].path # None
  /\ \A q, r \in Requests : q < r /\ req[r].pc # "new" => req[q].pc # "new"
  /\ \A q, r \in Requests : q < r /\ req[q].session = req[r].session /\ req[r].session # None =>
       Ended(q) \/ (req[r].pc = "waiting" /\ req[r].prev # None /\ q <= req[r].prev)
  /\ \A r \in Requests : req[r].pc = "waiting" /\ req[r].prev # None =>
       req[r].prev < r /\ req[req[r].prev].session = req[r].session
  /\ \A s \in Sessions :
       /\ tail[s] # None => req[tail[s]].session = s
       /\ \A r \in Requests : req[r].session = s =>
            IF tail[s] = None THEN Ended(r) ELSE r <= tail[s]

\* The rules appended last are in effect, and they and the agents stay what the holder of
\* the lock read until it submits.
PolicyHolds ==
  /\ \A s \in Sessions, tools \in SUBSET Tools :
       /\ suffix[s] = <<"plan", tools>> => tools \subseteq denied[s]
       /\ suffix[s] = <<"build", tools>> => tools \intersect denied[s] = {}
  /\ \A r \in Requests : Holds(r) => LET s == req[r].session IN
       /\ req[r].path \in Modes => Identity(s) # {} /\ Identity(s) \subseteq Modes
       /\ req[r].path = "agent" => Identity(s) = {Agent}
       /\ req[r].pc = "patching" => req[r].path \in Modes
       /\ req[r].pc = "sending" /\ req[r].path = "plan" => req[r].tools \subseteq denied[s]
       /\ req[r].pc = "sending" /\ req[r].path = "build" => req[r].tools \intersect denied[s] = {}

PromptInv ==
  OneAtATime /\ SubmittedUnderOwnPolicy /\ IdentityKept /\ LineIsOrdered /\ PolicyHolds

\* Every prompt that takes its place in the line is answered, once opencode answers
\* each call or fails it: a failure in front of it does not hold it up, and the line of
\* the finitely many prompts empties.
LineEmpties == \A r \in Requests : req[r].pc = "new" \/ Ended(r)
PromptSettles == []<>LineEmpties
================================================================================
